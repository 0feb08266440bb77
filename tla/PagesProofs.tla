---------------------------- MODULE PagesProofs -----------------------------
(***************************************************************************)
(* Theorems about what users are shown (Locations, DevicePings,            *)
(* ClientPages, Comparisons, ChangeFlags and CaseBoard), for any number of *)
(* candidates, devices, tenants, clients, categories, checkpoints,         *)
(* observations and cases.                                                 *)
(*                                                                         *)
(* The place of a client and the pages are answers computed from one       *)
(* state: there the work is in the operators, and the invariants are       *)
(* types and keys.  The device pings also need what their job has seen and *)
(* is about to write, the stored comparisons what a regeneration has read, *)
(* and the changes of a case that the kept records condense all that was   *)
(* observed since the oldest of them.  What is shown in order is a set put *)
(* in order by the places of its elements (Sorting).                       *)
(***************************************************************************)
EXTENDS Locations, DevicePings, ClientPages, Comparisons, ChangeFlags, CaseBoard,
        FiniteSetTheorems, FunctionTheorems, SequenceTheorems, WellFoundedInduction, TLAPS

-----------------------------------------------------------------------------
(* Where a client is. *)

LEMMA PartOfRows ==
  ASSUME NEW s \in Seq(Candidates), NEW m \in Nat \ {0}, NEW n \in Nat, n <= Len(s)
  PROVE  SubSeq(s, m, n) \in Seq(Candidates)
<1>1. \A i \in m .. n : s[i] \in Candidates
  BY LenProperties
<1> QED BY <1>1, SubSeqProperties

LEMMA PartLength ==
  ASSUME NEW s \in Seq(Candidates), NEW m \in Nat \ {0}, NEW n \in Nat, n <= Len(s), m <= n + 1
  PROVE  Len(SubSeq(s, m, n)) = n - m + 1
<1>1. \A i \in m .. n : s[i] \in Candidates
  BY LenProperties
<1>2. Len(SubSeq(s, m, n)) = IF m <= n THEN n - m + 1 ELSE 0
  BY <1>1, SubSeqProperties
<1> QED BY <1>2

LEMMA PlacesStep == LocationsTypeOK /\ [LocationsNext]_locationVars => LocationsTypeOK'
<1> SUFFICES ASSUME LocationsTypeOK, [LocationsNext]_locationVars PROVE LocationsTypeOK'
  OBVIOUS
<1> DEFINE s == candidates
<1>0. s \in Seq(Candidates) /\ Len(s) \in Nat
  BY LenProperties DEF LocationsTypeOK
<1>m. Len(s) <= MaxCandidates /\ MaxCandidates \in Nat
  BY LocationAssumption DEF LocationsTypeOK, s
<1> HIDE DEF s
<1>1. ASSUME NEW c \in Candidates, Learns(c) PROVE LocationsTypeOK'
  <2>1. PICK k \in 1..Len(s) + 1 : candidates' = SubSeq(s, 1, k - 1) \o <<c>> \o SubSeq(s, k, Len(s))
    BY <1>1 DEF Learns, InsertAt, s
  <2>2. SubSeq(s, 1, k - 1) \in Seq(Candidates) /\ SubSeq(s, k, Len(s)) \in Seq(Candidates)
    BY <1>0, PartOfRows
  <2>3. <<c>> \in Seq(Candidates)
    OBVIOUS
  <2>4. SubSeq(s, 1, k - 1) \o <<c>> \in Seq(Candidates)
    BY <2>2, <2>3, ConcatProperties
  <2>5. /\ Len(SubSeq(s, 1, k - 1)) = k - 1 /\ Len(<<c>>) = 1
        /\ Len(SubSeq(s, k, Len(s))) = Len(s) - k + 1
    BY <1>0, PartLength
  <2>6. candidates' \in Seq(Candidates) /\ Len(candidates') = Len(s) + 1
    <3> DEFINE a == SubSeq(s, 1, k - 1)
               b == SubSeq(s, k, Len(s))
    <3>1. /\ a \in Seq(Candidates) /\ b \in Seq(Candidates) /\ a \o <<c>> \in Seq(Candidates)
          /\ Len(a) = k - 1 /\ Len(<<c>>) = 1 /\ Len(b) = Len(s) - k + 1
          /\ candidates' = a \o <<c>> \o b
      BY <2>1, <2>2, <2>4, <2>5
    <3> HIDE DEF a, b
    <3>2. Len(a \o <<c>>) = Len(a) + Len(<<c>>)
      BY <3>1, <2>3, ConcatProperties
    <3>3. candidates' \in Seq(Candidates) /\ Len(candidates') = Len(a \o <<c>>) + Len(b)
      BY <3>1, ConcatProperties
    <3>4. k - 1 + 1 + (Len(s) - k + 1) = Len(s) + 1
      BY <1>0
    <3>5. Len(candidates') = k - 1 + 1 + (Len(s) - k + 1)
      BY <3>1, <3>2, <3>3
    <3> QED BY <3>3, <3>4, <3>5
  <2>7. Len(s) < MaxCandidates /\ UNCHANGED checked
    BY <1>1 DEF Learns, s
  <2> QED BY <1>0, <1>m, <2>6, <2>7 DEF LocationsTypeOK
<1>2. ASSUME NEW k \in 1..MaxCandidates, Unlearns(k) PROVE LocationsTypeOK'
  <2>1. k \in 1..Len(s) /\ candidates' = SubSeq(s, 1, k - 1) \o SubSeq(s, k + 1, Len(s))
    BY <1>0, <1>2, LenProperties DEF Unlearns, RemoveAt, s
  <2>2. SubSeq(s, 1, k - 1) \in Seq(Candidates) /\ SubSeq(s, k + 1, Len(s)) \in Seq(Candidates)
    BY <1>0, <2>1, PartOfRows
  <2>3. Len(SubSeq(s, 1, k - 1)) = k - 1 /\ Len(SubSeq(s, k + 1, Len(s))) = Len(s) - k
    BY <1>0, <2>1, PartLength
  <2>4. candidates' \in Seq(Candidates) /\ Len(candidates') = Len(s) - 1
    <3> DEFINE a == SubSeq(s, 1, k - 1)
               b == SubSeq(s, k + 1, Len(s))
    <3>1. /\ a \in Seq(Candidates) /\ b \in Seq(Candidates)
          /\ Len(a) = k - 1 /\ Len(b) = Len(s) - k /\ candidates' = a \o b
      BY <2>1, <2>2, <2>3
    <3> HIDE DEF a, b
    <3>2. candidates' \in Seq(Candidates) /\ Len(candidates') = Len(a) + Len(b)
      BY <3>1, ConcatProperties
    <3>3. k - 1 + (Len(s) - k) = Len(s) - 1
      BY <1>0, <2>1
    <3>4. Len(candidates') = Len(s) - 1
      BY <3>1, <3>2, <3>3
    <3> QED BY <3>2, <3>4
  <2>5. UNCHANGED checked
    BY <1>2 DEF Unlearns
  <2> QED BY <1>0, <1>m, <2>4, <2>5 DEF LocationsTypeOK
<1>3. ASSUME NEW answering \in SUBSET Owners, Detects(answering) PROVE LocationsTypeOK'
  BY <1>3 DEF Detects, LocationsTypeOK
<1>4. CASE UNCHANGED locationVars
  BY <1>4 DEF locationVars, LocationsTypeOK
<1> QED BY <1>1, <1>2, <1>3, <1>4 DEF LocationsNext

LEMMA PlacesInitInv == LocationsInit => LocationsTypeOK
BY LocationAssumption DEF LocationsInit, LocationsTypeOK

\* A rule takes the rows that come first by the k-th place of their ranks, and some are left.
Grade(i, k) == Rank(candidates[i])[k]
Narrows(S, T, k) ==
  /\ T \subseteq S /\ (S # {} => T # {})
  /\ \A i \in T, j \in S :
       /\ j \in T => Grade(i, k) = Grade(j, k)
       /\ j \notin T => Before(Grade(i, k), Grade(j, k))

LEMMA Grades ==
  ASSUME LocationsTypeOK, NEW i \in DOMAIN candidates
  PROVE  LET c == candidates[i] IN
         /\ c \in Candidates /\ c.macs \in Nat /\ (c.speed = NoSpeed \/ c.speed \in Nat)
         /\ Grade(i, 1) = IF c.acl THEN 0 ELSE 1
         /\ Grade(i, 2) = IF c.channel THEN 1 ELSE 0
         /\ Grade(i, 3) = IF c.neighbor THEN 1 ELSE 0
         /\ Grade(i, 4) = c.speed
         /\ Grade(i, 5) = c.macs
<1> DEFINE c == candidates[i]
<1>1. c \in Candidates
  BY LenProperties DEF LocationsTypeOK
<1>2. c.macs \in Nat /\ (c.speed = NoSpeed \/ c.speed \in Nat)
  BY <1>1, LocationAssumption
<1> HIDE DEF c
<1>3. /\ Rank(c)[1] = IF c.acl THEN 0 ELSE 1
      /\ Rank(c)[2] = IF c.channel THEN 1 ELSE 0
      /\ Rank(c)[3] = IF c.neighbor THEN 1 ELSE 0
      /\ Rank(c)[4] = c.speed
      /\ Rank(c)[5] = c.macs
  BY DEF Rank
<1> QED BY <1>1, <1>2, <1>3 DEF Grade, c

LEMMA GradeValues ==
  ASSUME LocationsTypeOK, NEW i \in DOMAIN candidates, NEW k \in 1..5
  PROVE  Grade(i, k) \in Nat \cup {NoSpeed}
<1> DEFINE c == candidates[i]
<1>1. /\ c.macs \in Nat /\ (c.speed = NoSpeed \/ c.speed \in Nat)
      /\ Grade(i, 4) = c.speed /\ Grade(i, 5) = c.macs
  BY Grades
<1>2. Grade(i, 1) \in {0, 1}
  BY Grades
<1>3. Grade(i, 2) \in {0, 1}
  BY Grades
<1>4. Grade(i, 3) \in {0, 1}
  BY Grades
<1> HIDE DEF c
<1> QED BY <1>1, <1>2, <1>3, <1>4

LEMMA BeforeOrder ==
  ASSUME NEW a \in Nat \cup {NoSpeed}, NEW b \in Nat \cup {NoSpeed}
  PROVE  ~(Before(a, b) /\ Before(b, a)) /\ (Before(a, b) => a # b)
BY LocationAssumption DEF Before

\* A set of numbers that is not empty has a least one.
LEMMA LeastNumber ==
  ASSUME NEW T \in SUBSET Nat, T # {}
  PROVE  \E x \in T : \A y \in T : x <= y
<1> DEFINE R == OpToRel(<, Nat)
<1>1. IsWellFoundedOn(R, Nat)
  BY NatLessThanWellFounded
<1>2. \A x, y \in Nat : <<y, x>> \in R <=> y < x
  BY DEF OpToRel
<1> HIDE DEF R
<1>3. PICK x \in T : \A y \in T : ~(<<y, x>> \in R)
  BY <1>1, WFMin
<1>4. x \in Nat /\ \A y \in T : y \in Nat
  OBVIOUS
<1>5. \A y \in T : ~(y < x)
  BY <1>2, <1>3, <1>4
<1> QED BY <1>4, <1>5

\* The rules that keep what is good if there is any.
LEMMA PreferNarrows ==
  ASSUME LocationsTypeOK, NEW S \in SUBSET DOMAIN candidates, NEW good, NEW k \in 1..5,
         \A i \in DOMAIN candidates : Grade(i, k) = IF candidates[i] \in good THEN 0 ELSE 1
  PROVE  Narrows(S, Prefer(S, good), k)
<1> DEFINE those == {i \in S : candidates[i] \in good}
<1>1. \A i, j \in S : candidates[i] \in good /\ candidates[j] \notin good =>
        Before(Grade(i, k), Grade(j, k))
  BY LocationAssumption DEF Before
<1>2. CASE those = {}
  BY <1>2 DEF Prefer, Narrows
<1>3. CASE those # {}
  BY <1>1, <1>3 DEF Prefer, Narrows
<1> QED BY <1>2, <1>3

LEMMA LeastOf ==
  ASSUME NEW S \in SUBSET DOMAIN candidates, NEW f, S # {}, \A i \in S : f[i] \in Nat
  PROVE  \E i \in S : \A j \in S : f[i] <= f[j]
<1> DEFINE T == {f[i] : i \in S}
<1>1. T \in SUBSET Nat /\ T # {}
  OBVIOUS
<1>2. PICK x \in T : \A y \in T : x <= y
  BY <1>1, LeastNumber
<1> QED BY <1>2

LEMMA SlowestNarrows ==
  ASSUME LocationsTypeOK, NEW S \in SUBSET DOMAIN candidates
  PROVE  Narrows(S, Slowest(S), 4)
<1> DEFINE known == {i \in S : candidates[i].speed # NoSpeed}
<1>1. \A i \in S : Grade(i, 4) = candidates[i].speed
                   /\ (candidates[i].speed = NoSpeed \/ candidates[i].speed \in Nat)
  BY Grades
<1>2. CASE known = {}
  BY <1>1, <1>2 DEF Slowest, Narrows
<1>3. CASE known # {}
  <2>1. known \in SUBSET DOMAIN candidates /\ \A i \in known : candidates[i].speed \in Nat
    BY <1>1
  <2> DEFINE T == {i \in known : \A j \in known : candidates[i].speed <= candidates[j].speed}
  <2>2. Slowest(S) = T
    BY <1>3 DEF Slowest
  <2>3. T # {}
    <3> DEFINE f == [i \in known |-> candidates[i].speed]
    <3>1. \A i \in known : f[i] \in Nat
      BY <2>1
    <3> HIDE DEF f, known
    <3>2. \E i \in known : \A j \in known : f[i] <= f[j]
      BY <1>3, <2>1, <3>1, LeastOf
    <3> QED BY <3>2 DEF f
  <2>4. ASSUME NEW i \in T, NEW j \in S
        PROVE  /\ j \in T => Grade(i, 4) = Grade(j, 4)
               /\ j \notin T => Before(Grade(i, 4), Grade(j, 4))
    <3>1. candidates[i].speed \in Nat /\ i \in known
      BY <2>1
    <3>2. CASE j \notin known
      BY <1>1, <3>1, <3>2, LocationAssumption DEF Before
    <3>3. CASE j \in known
      <4>1. candidates[j].speed \in Nat /\ candidates[i].speed <= candidates[j].speed
        BY <2>1, <3>3
      <4>2. CASE j \in T
        <5>1. candidates[j].speed <= candidates[i].speed
          BY <3>1, <4>2
        <5> QED BY <1>1, <3>1, <4>1, <4>2, <5>1
      <4>3. CASE j \notin T
        <5>1. PICK m \in known : ~(candidates[j].speed <= candidates[m].speed)
          BY <3>3, <4>3
        <5>2. candidates[m].speed \in Nat /\ candidates[i].speed <= candidates[m].speed
          BY <2>1
        <5>3. candidates[i].speed < candidates[j].speed
          BY <3>1, <4>1, <5>1, <5>2
        <5> QED BY <1>1, <3>1, <4>1, <4>3, <5>3, LocationAssumption DEF Before
      <4> QED BY <4>2, <4>3
    <3> QED BY <3>2, <3>3
  <2>5. T \subseteq S
    OBVIOUS
  <2> HIDE DEF T
  <2> QED BY <2>2, <2>3, <2>4, <2>5 DEF Narrows
<1> QED BY <1>2, <1>3

LEMMA FewestNarrows ==
  ASSUME LocationsTypeOK, NEW S \in SUBSET DOMAIN candidates
  PROVE  Narrows(S, FewestMacs(S), 5)
<1> DEFINE T == FewestMacs(S)
<1>1. \A i \in S : Grade(i, 5) = candidates[i].macs /\ candidates[i].macs \in Nat
  BY Grades
<1>2. S # {} => T # {}
  <2> DEFINE f == [i \in S |-> candidates[i].macs]
  <2>1. \A i \in S : f[i] \in Nat
    BY <1>1
  <2> HIDE DEF f
  <2>2. S # {} => \E i \in S : \A j \in S : f[i] <= f[j]
    BY <2>1, LeastOf
  <2> QED BY <2>2 DEF f, FewestMacs
<1>3. ASSUME NEW i \in T, NEW j \in S
      PROVE  /\ j \in T => Grade(i, 5) = Grade(j, 5)
             /\ j \notin T => Before(Grade(i, 5), Grade(j, 5))
  <2>1. i \in S /\ candidates[i].macs \in Nat /\ candidates[j].macs \in Nat
        /\ candidates[i].macs <= candidates[j].macs
    BY <1>1 DEF FewestMacs
  <2>2. CASE j \in T
    <3>1. candidates[j].macs <= candidates[i].macs
      BY <2>1, <2>2 DEF FewestMacs
    <3> QED BY <1>1, <2>1, <2>2, <3>1
  <2>3. CASE j \notin T
    <3>1. PICK m \in S : ~(candidates[j].macs <= candidates[m].macs)
      BY <2>3 DEF FewestMacs
    <3>2. candidates[m].macs \in Nat /\ candidates[i].macs <= candidates[m].macs
      BY <1>1 DEF FewestMacs
    <3>3. candidates[i].macs < candidates[j].macs
      BY <2>1, <3>1, <3>2
    <3> QED BY <1>1, <2>1, <2>3, <3>3, LocationAssumption DEF Before
  <2> QED BY <2>2, <2>3
<1>4. T \subseteq S
  BY DEF FewestMacs
<1> HIDE DEF T
<1> QED BY <1>2, <1>3, <1>4 DEF Narrows, T

LEMMA BeatsByGrade ==
  ASSUME NEW i, NEW j
  PROVE  Beats(candidates[i], candidates[j]) <=>
           \E k \in 1..5 : /\ Before(Grade(i, k), Grade(j, k))
                           /\ \A l \in 1..(k - 1) : Grade(i, l) = Grade(j, l)
BY DEF Beats, Grade

\* The ranking is strict.
LEMMA BeatsOneWay ==
  ASSUME LocationsTypeOK, NEW i \in DOMAIN candidates, NEW j \in DOMAIN candidates,
         Beats(candidates[i], candidates[j])
  PROVE  ~Beats(candidates[j], candidates[i])
<1> SUFFICES ASSUME Beats(candidates[j], candidates[i]) PROVE FALSE
  OBVIOUS
<1>1. PICK k \in 1..5 : /\ Before(Grade(i, k), Grade(j, k))
                        /\ \A l \in 1..(k - 1) : Grade(i, l) = Grade(j, l)
  BY BeatsByGrade
<1>2. PICK m \in 1..5 : /\ Before(Grade(j, m), Grade(i, m))
                        /\ \A l \in 1..(m - 1) : Grade(j, l) = Grade(i, l)
  BY BeatsByGrade
<1>3. /\ Grade(i, k) # Grade(j, k) /\ Grade(i, m) # Grade(j, m)
      /\ ~(Before(Grade(i, k), Grade(j, k)) /\ Before(Grade(j, k), Grade(i, k)))
  <2>1. \A n \in 1..5 : Grade(i, n) \in Nat \cup {NoSpeed} /\ Grade(j, n) \in Nat \cup {NoSpeed}
    BY GradeValues
  <2> QED BY <1>1, <1>2, <2>1, BeforeOrder
<1>4. k = m
  BY <1>1, <1>2, <1>3
<1> QED BY <1>1, <1>2, <1>3, <1>4

\* Five rules that narrow the rows down, one after the other, leave those that beat all
\* others and do not beat each other.
LEMMA LeftBeat ==
  ASSUME LocationsTypeOK, NEW A, NEW B, NEW C, NEW D, NEW E,
         Narrows(DOMAIN candidates, A, 1), Narrows(A, B, 2), Narrows(B, C, 3), Narrows(C, D, 4),
         Narrows(D, E, 5)
  PROVE  /\ E \subseteq DOMAIN candidates /\ (DOMAIN candidates # {} => E # {})
         /\ \A i \in E, j \in DOMAIN candidates :
              Beats(candidates[i], candidates[j]) <=> j \notin E
<1> DEFINE N == DOMAIN candidates
<1>1. E \subseteq D /\ D \subseteq C /\ C \subseteq B /\ B \subseteq A /\ A \subseteq N
      /\ (N # {} => E # {})
  BY DEF Narrows
<1> HIDE DEF N
<1>2. ASSUME NEW i \in E, NEW j \in N
      PROVE  Beats(candidates[i], candidates[j]) <=> j \notin E
  <2>1. i \in A /\ i \in B /\ i \in C /\ i \in D /\ i \in N
    BY <1>1
  <2>2. j \in A => Grade(i, 1) = Grade(j, 1)
    BY <2>1 DEF Narrows, N
  <2>3. j \in B => Grade(i, 2) = Grade(j, 2)
    BY <1>1, <2>1 DEF Narrows
  <2>4. j \in C => Grade(i, 3) = Grade(j, 3)
    BY <1>1, <2>1 DEF Narrows
  <2>5. j \in D => Grade(i, 4) = Grade(j, 4)
    BY <1>1, <2>1 DEF Narrows
  <2>6. j \in E => Grade(i, 5) = Grade(j, 5)
    BY <1>1 DEF Narrows
  <2>7. ASSUME NEW k \in 1..5, Before(Grade(i, k), Grade(j, k)),
               \A l \in 1..(k - 1) : Grade(i, l) = Grade(j, l)
        PROVE  Beats(candidates[i], candidates[j])
    BY <2>7, BeatsByGrade
  <2>8. CASE j \notin A
    <3>1. Before(Grade(i, 1), Grade(j, 1))
      BY <2>1, <2>8 DEF Narrows, N
    <3> QED BY <1>1, <2>7, <2>8, <3>1
  <2>9. CASE j \in A /\ j \notin B
    <3>1. Before(Grade(i, 2), Grade(j, 2))
      BY <2>1, <2>9 DEF Narrows
    <3>2. \A l \in 1..(2 - 1) : Grade(i, l) = Grade(j, l)
      BY <2>2, <2>9
    <3> QED BY <1>1, <2>7, <2>9, <3>1, <3>2
  <2>10. CASE j \in B /\ j \notin C
    <3>1. Before(Grade(i, 3), Grade(j, 3))
      BY <2>1, <2>10 DEF Narrows
    <3>2. \A l \in 1..(3 - 1) : l = 1 \/ l = 2
      OBVIOUS
    <3> QED BY <1>1, <2>2, <2>3, <2>7, <2>10, <3>1, <3>2
  <2>11. CASE j \in C /\ j \notin D
    <3>1. Before(Grade(i, 4), Grade(j, 4))
      BY <2>1, <2>11 DEF Narrows
    <3>2. \A l \in 1..(4 - 1) : l = 1 \/ l = 2 \/ l = 3
      OBVIOUS
    <3> QED BY <1>1, <2>2, <2>3, <2>4, <2>7, <2>11, <3>1, <3>2
  <2>12. CASE j \in D /\ j \notin E
    <3>1. Before(Grade(i, 5), Grade(j, 5))
      BY <2>12 DEF Narrows
    <3>2. \A l \in 1..(5 - 1) : l = 1 \/ l = 2 \/ l = 3 \/ l = 4
      OBVIOUS
    <3> QED BY <1>1, <2>2, <2>3, <2>4, <2>5, <2>7, <2>12, <3>1, <3>2
  <2>13. CASE j \in E
    <3>1. \A k \in 1..5 : Grade(i, k) = Grade(j, k)
      <4>1. \A k \in 1..5 : k = 1 \/ k = 2 \/ k = 3 \/ k = 4 \/ k = 5
        OBVIOUS
      <4> QED BY <1>1, <2>2, <2>3, <2>4, <2>5, <2>6, <2>13, <4>1
    <3>2. \A k \in 1..5 : Grade(i, k) \in Nat \cup {NoSpeed}
      BY <2>1, GradeValues DEF N
    <3>3. \A k \in 1..5 : ~Before(Grade(i, k), Grade(j, k))
      BY <3>1, <3>2, BeforeOrder
    <3> QED BY <2>13, <3>3, BeatsByGrade
  <2> QED BY <2>8, <2>9, <2>10, <2>11, <2>12, <2>13
<1> QED BY <1>1, <1>2 DEF N

LEMMA BestPlace == LocationsTypeOK => PlaceIsBest
<1> SUFFICES ASSUME LocationsTypeOK, NEW i \in DOMAIN candidates
             PROVE  Best = i <=>
                      \A j \in DOMAIN candidates \ {i} : Beats(candidates[i], candidates[j])
  <2>1. \A answering \in SUBSET Owners, o \in Owners : Observed(answering)[o].row = Best
    BY DEF Observed
  <2> QED BY <2>1 DEF PlaceIsBest
<1> DEFINE N == DOMAIN candidates
           A == Prefer(N, {c \in Candidates : c.acl})
           B == Prefer(A, {c \in Candidates : ~c.channel})
           C == Prefer(B, {c \in Candidates : ~c.neighbor})
           D == Slowest(C)
           E == FewestMacs(D)
<1>1. Best = IF Cardinality(E) = 1 THEN CHOOSE x \in E : TRUE ELSE Nobody
  BY DEF Best
<1>2. \A j \in N : candidates[j] \in Candidates
  BY Grades
<1>3. Narrows(N, A, 1)
  <2>1. \A j \in N : Grade(j, 1) = IF candidates[j] \in {c \in Candidates : c.acl} THEN 0 ELSE 1
    BY <1>2, Grades
  <2> QED BY <2>1, PreferNarrows
<1>4. Narrows(A, B, 2)
  <2>1. \A j \in N : Grade(j, 2) = IF candidates[j] \in {c \in Candidates : ~c.channel} THEN 0 ELSE 1
    BY <1>2, Grades
  <2>2. A \in SUBSET N
    BY <1>3 DEF Narrows
  <2> HIDE DEF A
  <2> QED BY <2>1, <2>2, PreferNarrows
<1>5. Narrows(B, C, 3)
  <2>1. \A j \in N : Grade(j, 3) = IF candidates[j] \in {c \in Candidates : ~c.neighbor} THEN 0 ELSE 1
    BY <1>2, Grades
  <2>2. B \in SUBSET N
    BY <1>3, <1>4 DEF Narrows
  <2> HIDE DEF B
  <2> QED BY <2>1, <2>2, PreferNarrows
<1>6. C \in SUBSET N
  BY <1>3, <1>4, <1>5 DEF Narrows
<1> HIDE DEF A, B, C
<1>7. Narrows(C, D, 4)
  BY <1>6, SlowestNarrows
<1>8. D \in SUBSET N
  BY <1>6, <1>7 DEF Narrows
<1> HIDE DEF D
<1>9. Narrows(D, E, 5)
  BY <1>8, FewestNarrows
<1> HIDE DEF E
<1>10. /\ E \subseteq N /\ (N # {} => E # {})
       /\ \A x \in E, j \in N : Beats(candidates[x], candidates[j]) <=> j \notin E
  BY <1>3, <1>4, <1>5, <1>7, <1>9, LeftBeat
<1>11. N = 1..Len(candidates) /\ Len(candidates) \in Nat
  BY LenProperties DEF LocationsTypeOK
<1>12. Cardinality(E) = 1 <=> \E x : E = {x}
  <2>1. IsFiniteSet(N)
    BY <1>11, FS_Interval
  <2>2. IsFiniteSet(E)
    BY <1>10, <2>1, FS_Subset
  <2> QED BY <2>2, FS_Singleton
<1>13. Best = i <=> E = {i}
  <2>1. i # Nobody
    BY <1>11, LocationAssumption
  <2>2. CASE Cardinality(E) = 1
    <3>1. PICK x : E = {x}
      BY <1>12, <2>2
    <3>2. Best = x
      BY <1>1, <2>2, <3>1
    <3> QED BY <3>1, <3>2
  <2>3. CASE Cardinality(E) # 1
    BY <1>1, <1>12, <2>1, <2>3
  <2> QED BY <2>2, <2>3
<1>14. ASSUME E = {i}
       PROVE  \A j \in N \ {i} : Beats(candidates[i], candidates[j])
  BY <1>10, <1>14
<1>15. ASSUME \A j \in N \ {i} : Beats(candidates[i], candidates[j]) PROVE E = {i}
  <2>1. ASSUME NEW x \in E PROVE x = i
    <3> SUFFICES ASSUME x # i PROVE FALSE
      OBVIOUS
    <3>1. Beats(candidates[i], candidates[x]) /\ x \in N
      BY <1>10, <1>15
    <3>2. ~Beats(candidates[x], candidates[i])
      BY <3>1, BeatsOneWay
    <3>3. i \in E
      BY <1>10, <3>1, <3>2
    <3> QED BY <1>10, <3>1, <3>3
  <2> QED BY <1>10, <2>1
<1> QED BY <1>13, <1>14, <1>15

\* The rows of a MAC and what is checked of its clients are well typed (the inductive
\* invariant): the rest of the argument is about one state.
THEOREM PlacesInvariant == LocationsSpec => []LocationsTypeOK
BY PlacesInitInv, PlacesStep, PTL DEF LocationsSpec

\* A client is recorded at the port that beats every other one by the five rules in their
\* order, for any rows, speeds and order of reading (_select_best_candidate).
THEOREM PlaceAlwaysBest == LocationsSpec => []PlaceIsBest
BY PlacesInvariant, BestPlace, PTL

-----------------------------------------------------------------------------
(* Device pings. *)

Job == [read : [ListIds -> PingRows \cup {Unanswered}], left : SUBSET Served,
        records : [PingHosts -> PingAnswer], marks : [ListIds -> [BothSides -> PingAnswer]]]
PingsTyped ==
  /\ mapping \in [ListIds -> PingRows \cup {Unanswered}]
  /\ shownUp \in [ListIds -> [BothSides -> PingAnswer]]
  /\ pingOf \in [PingHosts -> PingAnswer]
  /\ pinger # Unanswered => pinger \in Job
  /\ settled \subseteq ListIds

\* A hostname is on one row of a side.
HostsApart ==
  \A i, j \in ListedRows(mapping) : i # j =>
    \A s \in SidesOf(mapping[i]) \cap SidesOf(mapping[j]) : mapping[i][s].host # mapping[j][s].host

\* What the job would write of a row that has its hostname alone is what it would record.
JobAgrees ==
  pinger # Unanswered => \A i \in ListedRows(pinger.read) : HoldsAlone(i, pinger.read) =>
    pinger.marks[i]["new"] = pinger.records[pinger.read[i]["new"].host]

\* A settled row is as it was read by the job that is open, if one is.
SettledRow(i) ==
  /\ i \in ListedRows(mapping) /\ HoldsAlone(i, mapping)
  /\ shownUp[i]["new"] \in BOOLEAN /\ pingOf[mapping[i]["new"].host] = shownUp[i]["new"]
  /\ pinger # Unanswered => pinger.read[i] = mapping[i] /\ HoldsAlone(i, pinger.read)

PingsInv == PingsTyped /\ HostsApart /\ JobAgrees /\ \A i \in settled : SettledRow(i)

LEMMA PingsInitInv == PingsInit => PingsInv
BY DEF PingsInit, PingsInv, PingsTyped, HostsApart, JobAgrees, ListedRows, NeverPinged, PingAnswer

LEMMA ListedRow ==
  ASSUME NEW list \in [ListIds -> PingRows \cup {Unanswered}], NEW i \in ListedRows(list)
  PROVE  i \in ListIds /\ list[i] \in PingRows
BY DEF ListedRows

LEMMA HostTyped ==
  ASSUME NEW r \in PingRows, NEW s \in SidesOf(r)
  PROVE  r[s].host \in HostsIn(r) /\ r[s].host \in PingHosts
BY DEF HostsIn, PingHosts

\* A row is put: those whose hostname comes are not settled any more.
LEMMA RowPut ==
  ASSUME PingsInv, NEW i \in ListIds, NEW r \in PingRows, MayBeRow(i, r),
         mapping' = [mapping EXCEPT ![i] = r],
         settled' \subseteq {j \in settled \ {i} : mapping[j]["new"].host \notin HostsIn(r)},
         UNCHANGED <<shownUp, pingOf, pinger>>
  PROVE  PingsInv'
<1>1. /\ mapping'[i] = r /\ \A j \in ListIds \ {i} : mapping'[j] = mapping[j]
      /\ mapping' \in [ListIds -> PingRows \cup {Unanswered}]
  BY DEF PingsInv, PingsTyped
<1>2. r # Unanswered
  BY PingAssumption
<1>3. ListedRows(mapping)' = ListedRows(mapping) \cup {i}
  BY <1>1, <1>2 DEF ListedRows
<1>4. PingsTyped'
  BY <1>1 DEF PingsInv, PingsTyped
<1>5. HostsApart'
  <2>1. ASSUME NEW j \in ListedRows(mapping) \ {i}, NEW s \in SidesOf(r) \cap SidesOf(mapping[j])
        PROVE  mapping[j][s].host # r[s].host
    BY DEF MayBeRow
  <2>2. \A j \in ListedRows(mapping) \ {i} : j \in ListIds /\ mapping'[j] = mapping[j]
    BY <1>1 DEF ListedRows
  <2>3. \A j, k \in ListedRows(mapping) \ {i} : j # k =>
          \A s \in SidesOf(mapping[j]) \cap SidesOf(mapping[k]) : mapping[j][s].host # mapping[k][s].host
    BY DEF PingsInv, HostsApart
  <2> QED BY <1>1, <1>3, <2>1, <2>2, <2>3 DEF HostsApart
<1>6. JobAgrees'
  BY DEF PingsInv, JobAgrees
<1>7. ASSUME NEW j \in settled' PROVE SettledRow(j)'
  <2>1. j \in settled /\ j # i /\ mapping[j]["new"].host \notin HostsIn(r) /\ SettledRow(j)
    BY DEF PingsInv
  <2>2. j \in ListIds /\ j \in ListedRows(mapping) /\ mapping'[j] = mapping[j]
    BY <1>1, <2>1 DEF SettledRow, ListedRows
  <2>3. HoldsAlone(j, mapping)'
    <3>1. \A k \in ListedRows(mapping) \ {i} : k \in ListIds /\ mapping'[k] = mapping[k]
      BY <1>1 DEF ListedRows
    <3>2. \A s \in SidesOf(r) : r[s].host # mapping[j]["new"].host
      BY <2>1, HostTyped
    <3>3. ASSUME NEW k \in ListedRows(mapping) \cup {i}, NEW s \in SidesOf(mapping'[k]),
                 <<k, s>> # <<j, "new">>
          PROVE  mapping'[k][s].host # mapping[j]["new"].host
      <4>1. CASE k = i
        BY <1>1, <3>2, <4>1
      <4>2. CASE k # i
        BY <2>1, <3>1, <3>3, <4>2 DEF SettledRow, HoldsAlone
      <4> QED BY <4>1, <4>2
    <3>4. mapping[j]["new"] # NoSide
      BY <2>1 DEF SettledRow, HoldsAlone
    <3> QED BY <1>3, <2>2, <3>3, <3>4 DEF HoldsAlone
  <2> QED BY <1>3, <2>1, <2>2, <2>3 DEF SettledRow
<1> QED BY <1>4, <1>5, <1>6, <1>7 DEF PingsInv

LEMMA EntersKeeps ==
  ASSUME PingsInv, NEW i \in ListIds, NEW r \in PingRows, EntersRow(i, r)
  PROVE  PingsInv'
<1>1. UNION {HostsIn(q) : q \in {r}} = HostsIn(r)
  OBVIOUS
<1> QED BY <1>1, RowPut DEF EntersRow, Unsettles

LEMMA ChangesKeeps ==
  ASSUME PingsInv, NEW i \in ListIds, NEW r \in PingRows, ChangesRow(i, r)
  PROVE  PingsInv'
<1>1. HostsIn(r) \subseteq UNION {HostsIn(q) : q \in {r, mapping[i]}}
  OBVIOUS
<1>2. settled' \subseteq {j \in settled \ {i} : mapping[j]["new"].host \notin HostsIn(r)}
  BY <1>1 DEF ChangesRow, Unsettles
<1> QED BY <1>2, RowPut DEF ChangesRow

LEMMA RemovesKeeps ==
  ASSUME PingsInv, NEW i \in ListIds, RemovesRow(i)
  PROVE  PingsInv'
<1> DEFINE gone == HostsIn(mapping[i])
<1>1. /\ mapping' = [mapping EXCEPT ![i] = Unanswered]
      /\ shownUp' = [shownUp EXCEPT ![i] = NeverPinged]
      /\ pingOf' = [h \in PingHosts |-> IF h \in gone THEN Unanswered ELSE pingOf[h]]
      /\ pinger' = pinger
      /\ settled' = {j \in settled \ {i} : mapping[j]["new"].host \notin gone}
  <2>1. UNION {HostsIn(q) : q \in {mapping[i]}} = gone
    OBVIOUS
  <2> QED BY <2>1 DEF RemovesRow, Unsettles
<1> HIDE DEF gone
<1>2. NeverPinged \in [BothSides -> PingAnswer] /\ Unanswered \in PingAnswer
  BY DEF NeverPinged, PingAnswer
<1>3. PingsTyped'
  BY <1>1, <1>2 DEF PingsInv, PingsTyped
<1>4. /\ \A j \in ListIds \ {i} : mapping'[j] = mapping[j] /\ shownUp'[j] = shownUp[j]
      /\ ListedRows(mapping)' = ListedRows(mapping) \ {i}
  BY <1>1 DEF PingsInv, PingsTyped, ListedRows
<1>5. \A j \in ListedRows(mapping) \ {i} : j \in ListIds /\ mapping'[j] = mapping[j]
  BY <1>4 DEF ListedRows
<1>6. HostsApart'
  BY <1>4, <1>5 DEF PingsInv, HostsApart
<1>7. JobAgrees'
  BY <1>1 DEF PingsInv, JobAgrees
<1>8. ASSUME NEW j \in settled' PROVE SettledRow(j)'
  <2>1. j \in settled /\ j # i /\ mapping[j]["new"].host \notin gone /\ SettledRow(j)
    BY <1>1 DEF PingsInv
  <2>2. j \in ListedRows(mapping) \ {i} /\ mapping'[j] = mapping[j] /\ shownUp'[j] = shownUp[j]
    BY <1>4, <1>5, <2>1 DEF SettledRow
  <2>3. HoldsAlone(j, mapping)'
    BY <1>4, <1>5, <2>1, <2>2 DEF SettledRow, HoldsAlone
  <2>4. pingOf'[mapping[j]["new"].host] = pingOf[mapping[j]["new"].host]
    <3>1. mapping[j] \in PingRows /\ mapping[j]["new"] # NoSide
      BY <2>1, <2>2, ListedRow DEF PingsInv, PingsTyped, SettledRow, HoldsAlone
    <3>2. mapping[j]["new"].host \in PingHosts
      BY <3>1, HostTyped DEF SidesOf, BothSides
    <3> QED BY <1>1, <2>1, <3>2
  <2> QED BY <1>1, <1>4, <2>1, <2>2, <2>3, <2>4 DEF SettledRow
<1> QED BY <1>3, <1>6, <1>7, <1>8 DEF PingsInv

LEMMA StartKeeps ==
  ASSUME PingsInv, PingsStart
  PROVE  PingsInv'
<1> DEFINE left == {mapping[i].tenant : i \in ListedRows(mapping)} \cap Served
           none == [h \in PingHosts |-> Unanswered]
           unmarked == [i \in ListIds |-> NeverPinged]
           job == [read |-> mapping, left |-> left, records |-> none, marks |-> unmarked]
<1>1. pinger' = job /\ UNCHANGED <<mapping, shownUp, pingOf, settled>>
  BY DEF PingsStart
<1>2. left \in SUBSET Served /\ none \in [PingHosts -> PingAnswer]
      /\ unmarked \in [ListIds -> [BothSides -> PingAnswer]]
  BY DEF NeverPinged, PingAnswer
<1>3. /\ \A h \in PingHosts : none[h] = Unanswered
      /\ \A i \in ListIds : unmarked[i]["new"] = Unanswered
  BY DEF NeverPinged, BothSides
<1> HIDE DEF left, none, unmarked
<1>4. job \in Job /\ job.read = mapping /\ job.records = none /\ job.marks = unmarked
  BY <1>2 DEF PingsInv, PingsTyped, Job
<1> HIDE DEF job
<1>5. PingsTyped'
  BY <1>1, <1>4 DEF PingsInv, PingsTyped
<1>6. HostsApart'
  BY <1>1 DEF PingsInv, HostsApart
<1>7. JobAgrees'
  <2>1. ASSUME NEW i \in ListedRows(mapping), HoldsAlone(i, mapping)
        PROVE  unmarked[i]["new"] = none[mapping[i]["new"].host]
    <3>1. i \in ListIds /\ mapping[i] \in PingRows /\ "new" \in SidesOf(mapping[i])
      BY <2>1, ListedRow DEF PingsInv, PingsTyped, HoldsAlone, SidesOf, BothSides
    <3> QED BY <1>3, <3>1, HostTyped
  <2> QED BY <1>1, <1>4, <2>1 DEF JobAgrees
<1>8. ASSUME NEW j \in settled' PROVE SettledRow(j)'
  BY <1>1, <1>4 DEF PingsInv, SettledRow
<1> QED BY <1>5, <1>6, <1>7, <1>8 DEF PingsInv

\* Replies put the same answer into a mark and a record.
LEMMA AnsweredKeeps ==
  ASSUME PingsInv, NEW tenant \in Served, PingsAnswered(tenant)
  PROVE  PingsInv'
<1>1. PICK reply \in Replies(tenant) :
        LET answered == {e \in EndsIn(pinger.read) : reply[IpAt(e)] # Unanswered}
            holders(h) == {e \in HoldersOfIp(answered) : HostAt(e) = h}
        IN  \E new \in [PingHosts -> PingAnswer] :
              /\ \A h \in PingHosts :
                   IF holders(h) = {} THEN new[h] = pinger.records[h]
                   ELSE new[h] \in {reply[IpAt(e)] : e \in holders(h)}
              /\ pinger' = [pinger EXCEPT
                   !.left = @ \ {tenant},
                   !.records = new,
                   !.marks = [i \in ListIds |-> [s \in BothSides |->
                     IF <<i, s>> \in answered THEN reply[IpAt(<<i, s>>)] ELSE @[i][s]]]]
  BY DEF PingsAnswered
<1> DEFINE answered == {e \in EndsIn(pinger.read) : reply[IpAt(e)] # Unanswered}
           holders(h) == {e \in answered : HostAt(e) = h}
<1>2. PICK new \in [PingHosts -> PingAnswer] :
        /\ \A h \in PingHosts :
             IF holders(h) = {} THEN new[h] = pinger.records[h]
             ELSE new[h] \in {reply[IpAt(e)] : e \in holders(h)}
        /\ pinger' = [pinger EXCEPT
             !.left = @ \ {tenant},
             !.records = new,
             !.marks = [i \in ListIds |-> [s \in BothSides |->
               IF <<i, s>> \in answered THEN reply[IpAt(<<i, s>>)] ELSE @[i][s]]]]
  BY <1>1 DEF HoldersOfIp
<1> DEFINE marks == [i \in ListIds |-> [s \in BothSides |->
             IF <<i, s>> \in answered THEN reply[IpAt(<<i, s>>)] ELSE pinger.marks[i][s]]]
           read == pinger.read
<1>3. pinger # Unanswered /\ pinger \in Job /\ UNCHANGED <<mapping, shownUp, pingOf, settled>>
  BY DEF PingsAnswered, PingsInv, PingsTyped
<1>4. read \in [ListIds -> PingRows \cup {Unanswered}]
      /\ pinger.marks \in [ListIds -> [BothSides -> PingAnswer]]
  BY <1>3 DEF Job
<1>5. \A e \in EndsIn(read) : \E i \in ListedRows(read) : \E s \in SidesOf(read[i]) : e = <<i, s>>
  BY DEF EndsIn
<1>6. ASSUME NEW i \in ListedRows(read), NEW s \in SidesOf(read[i])
      PROVE  <<i, s>> \in EndsIn(read) /\ IpAt(<<i, s>>) = read[i][s].ip
             /\ HostAt(<<i, s>>) = read[i][s].host
  BY DEF EndsIn, IpAt, HostAt
<1>7. \A e \in EndsIn(read) : reply[IpAt(e)] \in PingAnswer
  <2>1. ASSUME NEW i \in ListedRows(read), NEW s \in SidesOf(read[i])
        PROVE  reply[IpAt(<<i, s>>)] \in PingAnswer
    <3>1. read[i] \in PingRows
      BY <1>4, ListedRow
    <3>2. read[i][s].ip \in PingIps
      BY <3>1 DEF PingIps
    <3>3. reply \in [PingIps -> PingAnswer]
      BY DEF Replies
    <3> QED BY <1>6, <3>2, <3>3
  <2> QED BY <1>5, <2>1
<1>8. marks \in [ListIds -> [BothSides -> PingAnswer]]
  <2>1. ASSUME NEW i \in ListIds, NEW s \in BothSides
        PROVE  (IF <<i, s>> \in answered THEN reply[IpAt(<<i, s>>)] ELSE pinger.marks[i][s])
                 \in PingAnswer
    BY <1>4, <1>7
  <2> QED BY <2>1
<1>9. /\ pinger'.read = read /\ pinger'.records = new /\ pinger'.marks = marks
      /\ pinger' \in Job
  BY <1>2, <1>3, <1>8 DEF Job
<1>10. JobAgrees'
  <2>1. ASSUME NEW i \in ListedRows(read), HoldsAlone(i, read)
        PROVE  marks[i]["new"] = new[read[i]["new"].host]
    <3> DEFINE end == <<i, "new">>
               host == read[i]["new"].host
    <3>1. i \in ListIds /\ read[i] \in PingRows /\ "new" \in SidesOf(read[i]) /\ "new" \in BothSides
      BY <1>4, <2>1, ListedRow DEF HoldsAlone, SidesOf, BothSides
    <3>2. host \in PingHosts /\ end \in EndsIn(read) /\ HostAt(end) = host
      BY <1>6, <3>1, HostTyped
    <3>3. \A e \in EndsIn(read) : HostAt(e) = host => e = end
      BY <1>5, <1>6, <2>1 DEF HoldsAlone
    <3>4. marks[i]["new"] = IF end \in answered THEN reply[IpAt(end)] ELSE pinger.marks[i]["new"]
      BY <3>1
    <3>5. CASE end \in answered
      <4>1. holders(host) = {end}
        BY <3>2, <3>3, <3>5
      <4>2. new[host] \in {reply[IpAt(e)] : e \in {end}}
        BY <1>2, <3>2, <4>1
      <4> QED BY <3>4, <3>5, <4>2
    <3>6. CASE end \notin answered
      <4>1. holders(host) = {}
        BY <3>3, <3>6
      <4>2. new[host] = pinger.records[host]
        BY <1>2, <3>2, <4>1
      <4>3. pinger.marks[i]["new"] = pinger.records[host]
        BY <1>3, <2>1 DEF PingsInv, JobAgrees
      <4> QED BY <3>4, <3>6, <4>2, <4>3
    <3> QED BY <3>5, <3>6
  <2> HIDE DEF marks, read
  <2> QED BY <1>9, <2>1 DEF JobAgrees
<1>11. PingsTyped' /\ HostsApart'
  BY <1>3, <1>9 DEF PingsInv, PingsTyped, HostsApart
<1>12. ASSUME NEW j \in settled' PROVE SettledRow(j)'
  BY <1>3, <1>9 DEF PingsInv, SettledRow
<1> QED BY <1>10, <1>11, <1>12 DEF PingsInv

\* What is committed: a row that has its hostname alone shows what is recorded of it.
LEMMA CommitSettles ==
  ASSUME PingsInv, PingsCommit, NEW j \in settled'
  PROVE  SettledRow(j)'
<1> DEFINE host == mapping[j]["new"].host
           mark == pinger.marks[j]["new"]
           record == pinger.records[host]
<1>1. /\ pinger # Unanswered /\ pinger \in Job /\ mapping' = mapping /\ pinger' = Unanswered
      /\ mapping \in [ListIds -> PingRows \cup {Unanswered}]
  BY DEF PingsCommit, PingsInv, PingsTyped
<1>2. /\ j \in ListedRows(mapping) /\ pinger.read[j] = mapping[j]
      /\ HoldsAlone(j, mapping) /\ HoldsAlone(j, pinger.read)
      /\ \/ mark # Unanswered
         \/ shownUp[j]["new"] \in BOOLEAN /\ pingOf[host] = shownUp[j]["new"]
  <2>1. CASE j \in settled
    BY <1>1, <2>1 DEF PingsInv, SettledRow
  <2>2. CASE j \notin settled
    BY <2>2 DEF PingsCommit
  <2> QED BY <2>1, <2>2
<1>3. j \in ListIds /\ mapping[j] \in PingRows /\ "new" \in BothSides /\ "new" \in SidesOf(mapping[j])
  BY <1>1, <1>2, ListedRow DEF HoldsAlone, SidesOf, BothSides
<1>4. host \in PingHosts
  BY <1>3, HostTyped
<1>5. j \in ListedRows(pinger.read)
  BY <1>2, <1>3 DEF ListedRows
<1>6. mark = record
  BY <1>1, <1>2, <1>5 DEF PingsInv, JobAgrees
<1>7. mark \in PingAnswer
  BY <1>1, <1>3 DEF Job
<1>8. shownUp'[j]["new"] = UnlessUnanswered(mark, shownUp[j]["new"])
  BY <1>3 DEF PingsCommit
<1>9. pingOf'[host] = UnlessUnanswered(record, pingOf[host])
  BY <1>4 DEF PingsCommit
<1> HIDE DEF host, mark, record
<1>10. shownUp'[j]["new"] \in BOOLEAN /\ pingOf'[host] = shownUp'[j]["new"]
  <2>1. CASE mark # Unanswered
    BY <1>6, <1>7, <1>8, <1>9, <2>1 DEF UnlessUnanswered, PingAnswer
  <2>2. CASE mark = Unanswered
    BY <1>2, <1>6, <1>8, <1>9, <2>2 DEF UnlessUnanswered
  <2> QED BY <2>1, <2>2
<1> QED BY <1>1, <1>2, <1>10 DEF SettledRow, host

LEMMA CommitKeeps ==
  ASSUME PingsInv, PingsCommit
  PROVE  PingsInv'
<1>1. /\ pinger # Unanswered /\ pinger \in Job /\ mapping' = mapping /\ pinger' = Unanswered
      /\ settled' \subseteq ListIds
  BY DEF PingsCommit, PingsInv, PingsTyped, ListedRows
<1>2. shownUp' \in [ListIds -> [BothSides -> PingAnswer]]
  <2>1. ASSUME NEW i \in ListIds, NEW s \in BothSides
        PROVE  UnlessUnanswered(pinger.marks[i][s], shownUp[i][s]) \in PingAnswer
    BY <1>1 DEF UnlessUnanswered, Job, PingsInv, PingsTyped
  <2> QED BY <2>1 DEF PingsCommit
<1>3. pingOf' \in [PingHosts -> PingAnswer]
  <2>1. ASSUME NEW h \in PingHosts
        PROVE  UnlessUnanswered(pinger.records[h], pingOf[h]) \in PingAnswer
    BY <1>1 DEF UnlessUnanswered, Job, PingsInv, PingsTyped
  <2> QED BY <2>1 DEF PingsCommit
<1>4. PingsTyped'
  BY <1>1, <1>2, <1>3 DEF PingsInv, PingsTyped
<1>5. HostsApart' /\ JobAgrees'
  BY <1>1 DEF PingsInv, HostsApart, JobAgrees
<1> QED BY <1>4, <1>5, CommitSettles DEF PingsInv

LEMMA PingsStep == PingsInv /\ [PingsNext]_pingVars => PingsInv'
<1> SUFFICES ASSUME PingsInv, [PingsNext]_pingVars PROVE PingsInv'
  OBVIOUS
<1>1. CASE PingsFail
  BY <1>1 DEF PingsFail, PingsInv, PingsTyped, HostsApart, JobAgrees, SettledRow
<1>2. CASE UNCHANGED pingVars
  BY <1>2 DEF pingVars, PingsInv, PingsTyped, HostsApart, JobAgrees, SettledRow
<1> QED BY <1>1, <1>2, EntersKeeps, ChangesKeeps, RemovesKeeps, StartKeeps, AnsweredKeeps, CommitKeeps
        DEF PingsNext

\* The hostnames of new devices are as many as the rows that have them.
LEMMA HostForEachRow ==
  ASSUME PingsInv
  PROVE  Statistics("new").reachable = Cardinality({i \in ExpectedRows : PingPasses(i)})
<1> DEFINE rows == {i \in ExpectedRows : PingPasses(i)}
           hosts == {h \in HostsOn("new") : pingOf[h] = TRUE}
           f == [i \in rows |-> mapping[i]["new"].host]
<1>1. Statistics("new").reachable = Cardinality(hosts)
  BY DEF Statistics
<1>2. ExpectedRows \subseteq ListedRows(mapping) /\ \A i \in ExpectedRows : mapping[i]["new"] # NoSide
  BY DEF ExpectedRows
<1>3. HostsOn("new") = {mapping[i]["new"].host : i \in ExpectedRows}
  BY DEF HostsOn, ExpectedRows
<1>4. f \in Bijection(rows, hosts)
  <2>1. f \in [rows -> hosts]
    BY <1>3 DEF PingPasses
  <2>2. ASSUME NEW i \in rows, NEW j \in rows, f[i] = f[j] PROVE i = j
    <3>1. "new" \in SidesOf(mapping[i]) \cap SidesOf(mapping[j])
      BY <1>2 DEF SidesOf, BothSides
    <3> QED BY <1>2, <2>2, <3>1 DEF PingsInv, HostsApart
  <2>3. \A h \in hosts : \E i \in rows : f[i] = h
    BY <1>3 DEF PingPasses
  <2> HIDE DEF f, rows, hosts
  <2> QED BY <2>1, <2>2, <2>3 DEF Bijection, Injection, Surjection, IsInjective
<1>5. IsFiniteSet(rows)
  <2>1. IsFiniteSet(ListIds)
    BY PingAssumption, FS_Interval DEF ListIds
  <2>2. rows \subseteq ListIds
    BY <1>2 DEF ListedRows
  <2> QED BY <2>1, <2>2, FS_Subset
<1>6. ExistsBijection(rows, hosts)
  BY <1>4 DEF ExistsBijection
<1> HIDE DEF rows, hosts
<1>7. Cardinality(rows) = Cardinality(hosts)
  BY <1>5, <1>6, FS_Bijection
<1> QED BY <1>1, <1>7 DEF rows

LEMMA PingsTold == PingsInv => PingsShown
<1> SUFFICES ASSUME PingsInv PROVE PingsShown
  OBVIOUS
<1>1. ASSUME NEW i \in settled
      PROVE  LET h == mapping[i]["new"].host IN
             /\ PingPasses(i) <=> shownUp[i]["new"] = TRUE
             /\ h \in DOMAIN Reachability /\ Reachability[h] = shownUp[i]["new"]
  <2> DEFINE h == mapping[i]["new"].host
  <2>1. pingOf[h] = shownUp[i]["new"] /\ pingOf[h] # Unanswered
    BY PingAssumption DEF PingsInv, SettledRow
  <2>2. h \in PingHosts
    <3>1. mapping[i] \in PingRows /\ mapping[i]["new"] # NoSide
      BY ListedRow DEF PingsInv, PingsTyped, SettledRow, HoldsAlone
    <3> QED BY <3>1, HostTyped DEF SidesOf, BothSides
  <2>3. h \in DOMAIN Reachability /\ Reachability[h] = pingOf[h]
    BY <2>1, <2>2 DEF Reachability
  <2> QED BY <2>1, <2>3 DEF PingPasses
<1> QED BY <1>1, HostForEachRow DEF PingsShown

\* The inductive invariant of the device pings, for any rows, tenants and answers.
THEOREM PingsInvariant == PingsSpec => []PingsInv
BY PingsInitInv, PingsStep, PTL DEF PingsSpec

\* The device list, the job and the ping records are well typed.
THEOREM PingsTypesHold == PingsSpec => []PingsTypeOK
<1>1. PingsInv => PingsTypeOK
  BY DEF PingsInv, PingsTyped, PingsTypeOK, Job
<1> QED BY <1>1, PingsInvariant, PTL

\* The device list, the ping indicator, the reachability page and the statistics say the same
\* of a row that was pinged as it is, whatever is edited or fails meanwhile
\* (_run_device_ping, PingIndicator, get_stats, reachability_status).
THEOREM PingsAlwaysShown == PingsSpec => []PingsShown
BY PingsInvariant, PingsTold, PTL

-----------------------------------------------------------------------------
(* Client pages. *)

\* Members are clients of the list, or MACs without one, and a client joins a category once.
MembersThere == \A j \in joined : j.client \in Enrolled \cup {NoClient}
JoinedOnce ==
  \A j, k \in joined : j.group = k.group /\ j.client = k.client /\ j.client # NoClient => j = k
PagesInv == PagesTypeOK /\ MembersThere /\ JoinedOnce

LEMMA PagesInitInv == PagesInit => PagesInv
BY DEF PagesInit, PagesInv, PagesTypeOK, MembersThere, JoinedOnce, Enrolled

\* A row of the list is put.
LEMMA EntryPut ==
  ASSUME PagesInv, NEW c \in ListedIds, NEW row \in Entry, PutEntry(c, row)
  PROVE  /\ Enrolled' = Enrolled \cup {c} /\ Enrolled' \subseteq ListedIds
         /\ listEntry' \in [Enrolled' -> Entry]
<1>1. listEntry' = [d \in Enrolled \cup {c} |-> IF d = c THEN row ELSE listEntry[d]]
  BY DEF PutEntry
<1>2. Enrolled' = Enrolled \cup {c}
  BY <1>1 DEF Enrolled
<1>3. \A d \in Enrolled \cup {c} : (IF d = c THEN row ELSE listEntry[d]) \in Entry
  BY DEF PagesInv, PagesTypeOK
<1> QED BY <1>1, <1>2, <1>3 DEF PagesInv, PagesTypeOK

LEMMA EnterKeeps ==
  ASSUME PagesInv, NEW c \in ListedIds, NEW m \in ListMacs, NEW i \in ListIps, NEW t \in ListTenants,
         NEW gs \in SUBSET Groups, EnterClient(c, m, i, t, gs)
  PROVE  PagesInv'
<1> DEFINE row == [mac |-> m, ip |-> i, tenant |-> t, status |-> "not_checked"]
           added == {[group |-> g, client |-> c, mac |-> m] : g \in gs}
<1>1. row \in Entry
  BY DEF Entry, Detections
<1>2. c \notin Enrolled /\ PutEntry(c, row) /\ joined' = joined \cup added
      /\ UNCHANGED <<inForce, replied>>
  BY DEF EnterClient
<1>3. \A j \in added : j.client = c /\ j \in Joining
  BY DEF Joining
<1>4. \A j, k \in added : j.group = k.group => j = k
  OBVIOUS
<1> HIDE DEF row, added
<1>5. Enrolled' = Enrolled \cup {c} /\ Enrolled' \subseteq ListedIds /\ listEntry' \in [Enrolled' -> Entry]
  BY <1>1, <1>2, EntryPut
<1>6. PagesTypeOK'
  BY <1>2, <1>3, <1>5 DEF PagesInv, PagesTypeOK
<1>7. MembersThere'
  BY <1>2, <1>3, <1>5 DEF PagesInv, MembersThere
<1>8. \A j \in joined : j.client # c
  BY <1>2, PageAssumption DEF PagesInv, MembersThere
<1>9. JoinedOnce'
  BY <1>2, <1>3, <1>4, <1>8 DEF PagesInv, JoinedOnce
<1> QED BY <1>6, <1>7, <1>9 DEF PagesInv

Moved(row, m, i, t) == [row EXCEPT !.mac = m, !.ip = i, !.tenant = t]
LEMMA MovedLemma ==
  ASSUME NEW row \in Entry, NEW m \in ListMacs, NEW i \in ListIps, NEW t \in ListTenants
  PROVE  Moved(row, m, i, t) \in Entry
BY Zenon DEF Entry, Moved

LEMMA EditKeeps ==
  ASSUME PagesInv, NEW c \in ListedIds, NEW m \in ListMacs, NEW i \in ListIps, NEW t \in ListTenants,
         EditClient(c, m, i, t)
  PROVE  PagesInv'
<1>1. c \in Enrolled /\ PutEntry(c, Moved(listEntry[c], m, i, t)) /\ UNCHANGED <<inForce, joined, replied>>
  BY DEF EditClient, Moved
<1>2. Moved(listEntry[c], m, i, t) \in Entry
  BY <1>1, MovedLemma DEF PagesInv, PagesTypeOK
<1>3. Enrolled' = Enrolled \cup {c} /\ Enrolled' \subseteq ListedIds /\ listEntry' \in [Enrolled' -> Entry]
  BY <1>1, <1>2, EntryPut
<1> QED BY <1>1, <1>3 DEF PagesInv, PagesTypeOK, MembersThere, JoinedOnce

LEMMA RemoveKeeps ==
  ASSUME PagesInv, NEW cs \in SUBSET ListedIds, RemoveEntries(cs)
  PROVE  PagesInv'
<1>1. Enrolled' = Enrolled \ cs /\ listEntry' \in [Enrolled' -> Entry] /\ Enrolled' \subseteq ListedIds
  BY DEF RemoveEntries, PagesInv, PagesTypeOK, Enrolled
<1>2. joined' = {j \in joined : j.client \notin cs} /\ UNCHANGED <<inForce, replied>>
  BY DEF RemoveEntries
<1> QED BY <1>1, <1>2 DEF PagesInv, PagesTypeOK, MembersThere, JoinedOnce

LEMMA GroupKeeps ==
  ASSUME PagesInv, NEW g \in Groups,
         GroupGoes(g) \/ \E m \in ListMacs : JoinGroup(g, m) \/ LeaveGroup(g, m)
  PROVE  PagesInv'
<1>1. listEntry' = listEntry /\ replied' = replied /\ Enrolled' = Enrolled /\ inForce' \subseteq Groups
  BY DEF GroupGoes, JoinGroup, LeaveGroup, PagesInv, PagesTypeOK, Enrolled
<1>2. CASE joined' \subseteq joined
  BY <1>1, <1>2 DEF PagesInv, PagesTypeOK, MembersThere, JoinedOnce
<1>3. ASSUME NEW m \in ListMacs, JoinGroup(g, m) PROVE PagesInv'
  <2> DEFINE j == [group |-> g, client |-> NoClient, mac |-> m]
  <2>1. joined' = joined \cup {j}
    BY <1>3 DEF JoinGroup
  <2>2. j \in Joining /\ j.client = NoClient
    BY DEF Joining
  <2> HIDE DEF j
  <2> QED BY <1>1, <2>1, <2>2 DEF PagesInv, PagesTypeOK, MembersThere, JoinedOnce
<1>4. GroupGoes(g) => joined' \subseteq joined
  BY DEF GroupGoes
<1>5. \A m \in ListMacs : LeaveGroup(g, m) => joined' \subseteq joined
  BY DEF LeaveGroup
<1> QED BY <1>2, <1>3, <1>4, <1>5

LEMMA PingedKeeps ==
  ASSUME PagesInv, NEW t \in ListTenants, NEW is \in SUBSET ListIps, NEW got \in [is -> {"no", "yes"}],
         PingTenant(t, got)
  PROVE  PagesInv'
<1> DEFINE new == [i \in ListIps |-> IF i \in DOMAIN got THEN got[i] ELSE replied[t][i]]
<1>1. replied' = [replied EXCEPT ![t] = new] /\ UNCHANGED <<listEntry, inForce, joined>>
  BY DEF PingTenant, PagesInv, PagesTypeOK
<1>2. new \in [ListIps -> {"none", "no", "yes"}]
  BY DEF PagesInv, PagesTypeOK
<1> HIDE DEF new
<1> QED BY <1>1, <1>2 DEF PagesInv, PagesTypeOK, MembersThere, JoinedOnce, Enrolled

Judged(row, st) == [row EXCEPT !.status = st]
LEMMA JudgedLemma ==
  ASSUME NEW row \in Entry, NEW st \in Detections
  PROVE  Judged(row, st) \in Entry
BY Zenon DEF Entry, Judged

LEMMA DetectKeeps ==
  ASSUME PagesInv, NEW onSwitch \in SUBSET ListMacs, DetectClients(onSwitch)
  PROVE  PagesInv'
<1>1. PICK heard \in [ListIps -> {"none", "no", "yes"}] :
        listEntry' = [c \in Enrolled |-> Judged(listEntry[c],
            IF listEntry[c].mac \in onSwitch /\ heard[listEntry[c].ip] = "yes"
            THEN "detected" ELSE "not_detected")]
  BY DEF DetectClients, Judged
<1>2. \A c \in Enrolled : Judged(listEntry[c],
            IF listEntry[c].mac \in onSwitch /\ heard[listEntry[c].ip] = "yes"
            THEN "detected" ELSE "not_detected") \in Entry
  BY JudgedLemma DEF PagesInv, PagesTypeOK, Detections
<1>3. Enrolled' = Enrolled /\ listEntry' \in [Enrolled -> Entry]
  BY <1>1, <1>2 DEF Enrolled
<1>4. UNCHANGED <<inForce, joined, replied>>
  BY DEF DetectClients
<1> QED BY <1>3, <1>4 DEF PagesInv, PagesTypeOK, MembersThere, JoinedOnce

LEMMA PagesStep == PagesInv /\ [PagesNext]_pageVars => PagesInv'
<1> SUFFICES ASSUME PagesInv, [PagesNext]_pageVars PROVE PagesInv'
  OBVIOUS
<1>1. CASE UNCHANGED pageVars
  BY <1>1 DEF pageVars, PagesInv, PagesTypeOK, MembersThere, JoinedOnce, Enrolled
<1> QED BY <1>1, EnterKeeps, EditKeeps, RemoveKeeps, GroupKeeps, PingedKeeps, DetectKeeps DEF PagesNext

\* The inductive invariant of the client pages, for any clients, categories and tenants.
THEOREM PagesInvariant == PagesSpec => []PagesInv
BY PagesInitInv, PagesStep, PTL DEF PagesSpec

\* What the three kinds of selection leave, on the page and in the file.
LEMMA OfGroup ==
  ASSUME NEW sel \in Selections
  PROVE  /\ sel.group = "all" => Selected(sel) = Detected(sel.status) \cap Enrolled
         /\ sel.group = "uncategorized" =>
              Selected(sel) = Detected(sel.status) \cap
                                (IF inForce = {} THEN Enrolled ELSE NotIn(Grouped))
         /\ sel.group \in Groups =>
              Selected(sel) = Detected(sel.status) \cap MembersOf({sel.group})
<1>1. "all" # "uncategorized" /\ "all" \notin Groups /\ "uncategorized" \notin Groups
  BY PageAssumption
<1>2. ASSUME sel.group = "all" PROVE Selected(sel) = Detected(sel.status) \cap Enrolled
  BY <1>1, <1>2, Zenon DEF Selected
<1>3. ASSUME sel.group = "uncategorized"
      PROVE  Selected(sel) = Detected(sel.status) \cap
                               (IF inForce = {} THEN Enrolled ELSE NotIn(Grouped))
  BY <1>1, <1>3, Zenon DEF Selected
<1>4. ASSUME sel.group \in Groups
      PROVE  Selected(sel) = Detected(sel.status) \cap MembersOf({sel.group})
  <2>1. sel.group # "all" /\ sel.group # "uncategorized"
    BY <1>1, <1>4
  <2> QED BY <2>1, Zenon DEF Selected
<1> QED BY <1>2, <1>3, <1>4

LEMMA FileAsPages ==
  ASSUME NEW sel \in Selections
  PROVE  ExportSelected(sel) = Selected(sel)
<1>1. "all" # "uncategorized" /\ "all" \notin Groups /\ "uncategorized" \notin Groups
  BY PageAssumption
<1>2. Detected(sel.status) = {c \in Enrolled : sel.status = "all" \/ listEntry[c].status = sel.status}
  BY DEF Detected
<1>3. sel.group \in Groups \cup {"all", "uncategorized"}
  BY DEF Selections
<1>4. CASE sel.group = "all"
  <2>1. Selected(sel) = Detected(sel.status) \cap Enrolled
    BY <1>4, OfGroup
  <2> QED BY <1>1, <1>2, <1>4, <2>1 DEF ExportSelected
<1>5. CASE sel.group = "uncategorized"
  <2>1. Selected(sel) = Detected(sel.status) \cap (IF inForce = {} THEN Enrolled ELSE NotIn(Grouped))
    BY <1>5, OfGroup
  <2>2. NotIn(Grouped) \subseteq Enrolled
    BY DEF NotIn
  <2>3. ExportSelected(sel) =
          {c \in Enrolled \cap (IF inForce = {} THEN Enrolled ELSE NotIn(Grouped)) :
             sel.status = "all" \/ listEntry[c].status = sel.status}
    BY <1>1, <1>5 DEF ExportSelected, Grouped
  <2> QED BY <1>2, <2>1, <2>2, <2>3
<1>6. CASE sel.group \in Groups
  <2>1. Selected(sel) = Detected(sel.status) \cap MembersOf({sel.group})
    BY <1>6, OfGroup
  <2> QED BY <1>1, <1>2, <1>6, <2>1 DEF ExportSelected
<1> QED BY <1>3, <1>4, <1>5, <1>6

LEMMA EnrolledFinite == PagesInv => IsFiniteSet(Enrolled)
BY PageAssumption, FS_Subset DEF PagesInv, PagesTypeOK

LEMMA FiguresAgree ==
  ASSUME PagesInv, NoClient \notin MembersOf(inForce)
  PROVE  Cardinality(Selected([status |-> "all", group |-> "uncategorized"])) = Uncategorized
<1> DEFINE sel == [status |-> "all", group |-> "uncategorized"]
<1>1. sel \in Selections /\ sel.group = "uncategorized" /\ sel.status = "all"
  BY DEF Selections
<1> HIDE DEF sel
<1>2. Selected(sel) = Detected("all") \cap (IF inForce = {} THEN Enrolled ELSE NotIn(Grouped))
  BY <1>1, OfGroup
<1>3. Detected("all") = Enrolled
  BY DEF Detected
<1>4. inForce = {} => MembersOf(inForce) = {}
  BY DEF MembersOf
<1>5. Selected(sel) = Enrolled \ MembersOf(inForce)
  BY <1>2, <1>3, <1>4 DEF NotIn, Grouped
<1>6. Cardinality(Enrolled \ MembersOf(inForce)) =
        Cardinality(Enrolled) - Cardinality(Enrolled \cap MembersOf(inForce))
  BY EnrolledFinite, FS_Difference
<1>7. Enrolled \cap MembersOf(inForce) = MembersOf(inForce) \cap Enrolled
  OBVIOUS
<1> QED BY <1>5, <1>6, <1>7 DEF Uncategorized, sel

LEMMA GroupsAgree ==
  ASSUME PagesInv, NEW g \in inForce, NoClient \notin MembersOf({g})
  PROVE  /\ Cardinality(Selected([status |-> "all", group |-> g])) = MemberCount(g)
         /\ Selected([status |-> "all", group |-> g]) = {c \in Enrolled : g \in CategoriesShown(c)}
<1> DEFINE sel == [status |-> "all", group |-> g]
           those == {j \in joined : j.group = g}
           shown == Enrolled \cap MembersOf({g})
           f == [j \in those |-> j.client]
<1>1. sel \in Selections /\ sel.group = g /\ g \in Groups /\ sel.status = "all"
  BY DEF Selections, PagesInv, PagesTypeOK
<1> HIDE DEF sel
<1>2. Selected(sel) = shown
  <2>1. Selected(sel) = Detected("all") \cap MembersOf({g})
    BY <1>1, OfGroup
  <2>2. Detected("all") = Enrolled
    BY DEF Detected
  <2> QED BY <2>1, <2>2
<1>3. MembersOf({g}) = {j.client : j \in those}
  BY DEF MembersOf
<1>4. f \in Bijection(those, shown)
  <2>1. \A j \in those : j.client \in shown /\ j.client # NoClient
    BY <1>3 DEF PagesInv, MembersThere
  <2>2. f \in [those -> shown]
    BY <2>1
  <2>3. \A j, k \in those : f[j] = f[k] => j = k
    BY <2>1 DEF PagesInv, JoinedOnce
  <2>4. \A c \in shown : \E j \in those : f[j] = c
    BY <1>3
  <2> HIDE DEF those, shown, f
  <2> QED BY <2>2, <2>3, <2>4 DEF Bijection, Injection, Surjection, IsInjective
<1>5. Cardinality(those) = Cardinality(shown)
  <2>1. IsFiniteSet(shown)
    BY EnrolledFinite, FS_Subset
  <2>2. f \in Injection(those, shown)
    BY <1>4 DEF Bijection
  <2>3. ExistsBijection(those, shown)
    BY <1>4 DEF ExistsBijection
  <2> HIDE DEF those, shown, f
  <2>4. IsFiniteSet(those)
    BY <2>1, <2>2, FS_Injection
  <2> QED BY <2>3, <2>4, FS_Bijection
<1>6. shown = {c \in Enrolled : g \in CategoriesShown(c)}
  BY DEF CategoriesShown
<1> QED BY <1>2, <1>5, <1>6 DEF sel, MemberCount

-----------------------------------------------------------------------------
(* The page of a client. *)

SomeReply == {"no", "yes"}
JoinedRow == [client : ListedIds, tenant : ListTenants \cup {"none"}, reply : SomeReply \cup {"none"}]
Answered(cs) ==
  {r \in [client : cs, tenant : ListTenants, reply : SomeReply] :
     replied[r.tenant][listEntry[r.client].ip] = r.reply}
NoAnswer(c) == [client |-> c, tenant |-> "none", reply |-> "none"]

LEMMA RowsJoined ==
  ASSUME PagesInv, NEW cs \in SUBSET Enrolled
  PROVE  /\ JoinedRows(cs) =
              Answered(cs) \cup {NoAnswer(c) : c \in {d \in cs : RepliesOf(listEntry[d].ip) = {}}}
         /\ JoinedRows(cs) \in SUBSET JoinedRow
         /\ \A r \in JoinedRows(cs) : r.client \in cs
<1>1. JoinedRows(cs) =
        Answered(cs) \cup {NoAnswer(c) : c \in {d \in cs : RepliesOf(listEntry[d].ip) = {}}}
  BY DEF JoinedRows, Answered, NoAnswer, SomeReply
<1>2. cs \subseteq ListedIds
  BY DEF PagesInv, PagesTypeOK
<1>3. \A r \in Answered(cs) : r \in JoinedRow /\ r.client \in cs
  BY <1>2 DEF Answered, JoinedRow
<1>4. \A c \in cs : NoAnswer(c) \in JoinedRow /\ NoAnswer(c).client = c
  BY <1>2 DEF NoAnswer, JoinedRow
<1> QED BY <1>1, <1>3, <1>4

LEMMA RowsFinite ==
  ASSUME PagesInv, NEW cs \in SUBSET Enrolled
  PROVE  IsFiniteSet(JoinedRows(cs))
<1> DEFINE T == ListedIds \X ((ListTenants \cup {"none"}) \X (SomeReply \cup {"none"}))
           f == [r \in JoinedRow |-> <<r.client, <<r.tenant, r.reply>>>>]
<1>1. IsFiniteSet(ListTenants \cup {"none"}) /\ IsFiniteSet(SomeReply \cup {"none"})
  <2>1. IsFiniteSet(ListTenants \cup {"none"})
    BY PageAssumption, FS_AddElement
  <2>2. IsFiniteSet({})
    BY FS_EmptySet
  <2>3. IsFiniteSet({} \cup {"no"})
    BY <2>2, FS_AddElement
  <2>4. IsFiniteSet(({} \cup {"no"}) \cup {"yes"})
    BY <2>3, FS_AddElement
  <2>5. IsFiniteSet((({} \cup {"no"}) \cup {"yes"}) \cup {"none"})
    BY <2>4, FS_AddElement
  <2>6. (({} \cup {"no"}) \cup {"yes"}) \cup {"none"} = SomeReply \cup {"none"}
    BY DEF SomeReply
  <2> QED BY <2>1, <2>5, <2>6
<1>2. IsFiniteSet((ListTenants \cup {"none"}) \X (SomeReply \cup {"none"}))
  BY <1>1, FS_Product
<1>3. IsFiniteSet(T)
  BY <1>2, PageAssumption, FS_Product
<1>4. f \in Injection(JoinedRow, T)
  <2>1. f \in [JoinedRow -> T]
    BY DEF JoinedRow
  <2>2. ASSUME NEW r \in JoinedRow, NEW s \in JoinedRow, f[r] = f[s] PROVE r = s
    BY <2>2 DEF JoinedRow
  <2> HIDE DEF f, T
  <2> QED BY <2>1, <2>2 DEF Injection, IsInjective
<1> HIDE DEF f, T
<1>5. IsFiniteSet(JoinedRow)
  BY <1>3, <1>4, FS_Injection
<1> QED BY <1>5, RowsJoined, FS_Subset

\* A plain client has one row, with the one answer its address has, if any.
LEMMA PlainRow ==
  ASSUME PagesInv, NEW c \in PlainClients, NEW cs \in SUBSET Enrolled, c \in cs
  PROVE  \E r \in JoinedRows(cs) :
           /\ {s \in JoinedRows(cs) : s.client = c} = {r}
           /\ {r.reply} = IF RepliesOf(listEntry[c].ip) = {} THEN {"none"}
                          ELSE RepliesOf(listEntry[c].ip)
<1> DEFINE ip == listEntry[c].ip
           T == {t \in ListTenants : replied[t][ip] # "none"}
<1>1. c \in Enrolled /\ ip \in ListIps /\ Cardinality(T) < 2
  BY DEF PlainClients, PagesInv, PagesTypeOK, Entry
<1>2. IsFiniteSet(T) /\ Cardinality(T) \in Nat
  BY PageAssumption, FS_Subset, FS_CardinalityType
<1>3. \A t \in ListTenants : replied[t][ip] \in {"none", "no", "yes"}
  BY <1>1 DEF PagesInv, PagesTypeOK
<1>4. {s \in JoinedRows(cs) : s.client = c} =
        {s \in Answered(cs) : s.client = c} \cup {s \in {NoAnswer(c)} : RepliesOf(ip) = {}}
  <2>1. \A d : NoAnswer(d).client = d
    BY DEF NoAnswer
  <2> DEFINE without == {d \in cs : RepliesOf(listEntry[d].ip) = {}}
  <2>2. JoinedRows(cs) = Answered(cs) \cup {NoAnswer(d) : d \in without}
    BY RowsJoined
  <2>3. c \in without <=> RepliesOf(ip) = {}
    OBVIOUS
  <2> HIDE DEF without, ip
  <2>4. {s \in {NoAnswer(d) : d \in without} : s.client = c}
          = {s \in {NoAnswer(c)} : RepliesOf(ip) = {}}
    BY <2>1, <2>3
  <2> QED BY <2>2, <2>4
<1>5. RepliesOf(ip) = {replied[t][ip] : t \in T}
  BY DEF RepliesOf
<1>6. \A s \in Answered(cs) : s.client = c =>
        s.tenant \in T /\ s = [client |-> c, tenant |-> s.tenant, reply |-> replied[s.tenant][ip]]
  BY DEF Answered, SomeReply
<1>7. CASE T = {}
  <2>1. RepliesOf(ip) = {}
    BY <1>5, <1>7
  <2>2. {s \in JoinedRows(cs) : s.client = c} = {NoAnswer(c)}
    <3>1. {s \in Answered(cs) : s.client = c} = {}
      BY <1>6, <1>7
    <3>2. {s \in {NoAnswer(c)} : RepliesOf(ip) = {}} = {NoAnswer(c)}
      BY <2>1
    <3>3. {s \in JoinedRows(cs) : s.client = c} = {} \cup {NoAnswer(c)}
      BY <1>4, <3>1, <3>2, Zenon
    <3>4. {} \cup {NoAnswer(c)} = {NoAnswer(c)}
      OBVIOUS
    <3> QED BY <3>3, <3>4, Zenon
  <2> QED BY <2>1, <2>2 DEF NoAnswer
<1>8. ASSUME NEW t, T = {t} PROVE
        \E r \in JoinedRows(cs) :
           /\ {s \in JoinedRows(cs) : s.client = c} = {r}
           /\ {r.reply} = IF RepliesOf(ip) = {} THEN {"none"} ELSE RepliesOf(ip)
  <2> DEFINE r == [client |-> c, tenant |-> t, reply |-> replied[t][ip]]
  <2>1. RepliesOf(ip) = {replied[t][ip]}
    BY <1>5, <1>8
  <2>2. t \in ListTenants /\ replied[t][ip] \in SomeReply
    BY <1>3, <1>8 DEF SomeReply
  <2>3. r \in Answered(cs) /\ r.client = c /\ r.reply = replied[t][ip]
    BY <2>2 DEF Answered
  <2>4. \A s \in Answered(cs) : s.client = c => s = r
    BY <1>6, <1>8
  <2> HIDE DEF r
  <2>5. {s \in JoinedRows(cs) : s.client = c} = {r}
    BY <1>4, <2>1, <2>3, <2>4
  <2> QED BY <2>1, <2>3, <2>5
<1>9. T = {} \/ \E t : T = {t}
  <2>1. Cardinality(T) = 0 \/ Cardinality(T) = 1
    BY <1>1, <1>2
  <2> HIDE DEF T
  <2> QED BY <1>2, <2>1, FS_EmptySet, FS_Singleton
<1> HIDE DEF ip, T
<1> QED BY <1>7, <1>8, <1>9 DEF ip

\* A row that ties with no other has one place.
LEMMA OnePlace ==
  ASSUME NEW rs, IsFiniteSet(rs), NEW r \in rs, ~AheadOf(r, r),
         \A s \in rs \ {r} : AheadOf(r, s) <=> ~AheadOf(s, r)
  PROVE  Places(r, rs) = {Cardinality({s \in rs : AheadOf(s, r)}) + 1}
<1> DEFINE B == {s \in rs : AheadOf(s, r)}
           A == {s \in rs : AheadOf(r, s)}
<1>1. B \cup A = rs \ {r} /\ B \cap A = {} /\ B \subseteq rs /\ A \subseteq rs
  OBVIOUS
<1>2. Places(r, rs) = (Cardinality(B) + 1)..(Cardinality(rs) - Cardinality(A))
  BY DEF Places
<1> HIDE DEF A, B
<1>3. IsFiniteSet(A) /\ IsFiniteSet(B)
  BY <1>1, FS_Subset
<1>4. /\ Cardinality(rs \ {r}) = Cardinality(rs) - 1
      /\ Cardinality(rs) \in Nat /\ Cardinality(A) \in Nat /\ Cardinality(B) \in Nat
  BY <1>3, FS_RemoveElement, FS_CardinalityType
<1>5. Cardinality(B \cup A) = Cardinality(B) + Cardinality(A)
  <2>1. Cardinality(B \cap A) = 0
    BY <1>1, FS_EmptySet
  <2>2. Cardinality(B \cup A) = Cardinality(B) + Cardinality(A) - Cardinality(B \cap A)
    BY <1>3, FS_Union
  <2> QED BY <1>4, <2>1, <2>2
<1>6. Cardinality(rs) - Cardinality(A) = Cardinality(B) + 1
  BY <1>1, <1>4, <1>5
<1>7. \A n \in Nat : n..n = {n}
  OBVIOUS
<1>8. Places(r, rs) = {Cardinality(B) + 1}
  <2>1. Cardinality(B) + 1 \in Nat
    BY <1>4
  <2> QED BY ONLY <1>2, <1>6, <1>7, <2>1
<1> QED BY <1>8 DEF B

LEMMA Rankable ==
  ASSUME NEW r \in JoinedRow
  PROVE  ReplyRank(r) \in Nat
<1>1. 0 \in Nat /\ 1 \in Nat /\ 2 \in Nat /\ "none" # "no"
  OBVIOUS
<1>2. CASE r.reply = "none"
  BY <1>1, <1>2, Zenon DEF ReplyRank
<1>3. CASE r.reply = "no"
  BY <1>1, <1>3, Zenon DEF ReplyRank
<1>4. CASE r.reply # "none" /\ r.reply # "no"
  BY <1>1, <1>4, Zenon DEF ReplyRank
<1> QED BY <1>2, <1>3, <1>4

\* However ties are broken, a plain client is on one page.
LEMMA OnePage ==
  ASSUME PagesInv, NEW c \in PlainClients, NEW cs \in SUBSET Enrolled, c \in cs
  PROVE  Cardinality(PagesAmong(c, cs)) = 1
<1> DEFINE rs == JoinedRows(cs)
<1>1. PICK r \in rs : {s \in rs : s.client = c} = {r}
  BY PlainRow
<1>2. \A s \in rs : s.client \in Enrolled /\ ReplyRank(s) \in Nat /\ MacAt(s) \in Nat
  <2>1. \A s \in rs : s \in JoinedRow /\ s.client \in Enrolled
    BY RowsJoined
  <2>2. \A d \in Enrolled : listEntry[d].mac \in Nat
    BY PageAssumption DEF PagesInv, PagesTypeOK, Entry
  <2> QED BY <2>1, <2>2, Rankable DEF MacAt
<1>3. r.client = c
  BY <1>1
<1>4. ASSUME NEW s \in rs \ {r} PROVE AheadOf(r, s) <=> ~AheadOf(s, r)
  <2>1. s.client # c
    BY <1>1
  <2>2. MacAt(s) # MacAt(r)
    BY <1>2, <1>3, <2>1 DEF PlainClients, MacAt
  <2>3. /\ ReplyRank(r) \in Nat /\ ReplyRank(s) \in Nat /\ MacAt(r) \in Nat /\ MacAt(s) \in Nat
    BY <1>2
  <2> QED BY <2>2, <2>3 DEF AheadOf
<1>5. ~AheadOf(r, r)
  BY <1>2 DEF AheadOf
<1> DEFINE b == Cardinality({s \in rs : AheadOf(s, r)}) + 1
<1>6. Places(r, rs) = {b}
  <2>1. IsFiniteSet(rs)
    BY RowsFinite
  <2> HIDE DEF rs
  <2> QED BY <1>4, <1>5, <2>1, OnePlace
<1> HIDE DEF b
<1>7. UNION {Places(s, rs) : s \in {q \in rs : q.client = c}} = {b}
  BY <1>1, <1>6
<1>8. PagesAmong(c, cs) = {(b - 1) \div PageLength}
  BY <1>7 DEF PagesAmong
<1> QED BY <1>8, FS_Singleton

\* On the page and in the file it has the same answer.
LEMMA SameReplies ==
  ASSUME PagesInv, NEW c \in PlainClients
  PROVE  ShownReplies(c, Enrolled) = ExportedReplies(c)
<1> DEFINE said == RepliesOf(listEntry[c].ip)
<1>1. c \in Enrolled /\ {d \in Enrolled : listEntry[d].mac = listEntry[c].mac} = {c}
  BY DEF PlainClients
<1>2. ShownReplies(c, Enrolled) = IF said = {} THEN {"none"} ELSE said
  <2>1. UNION {RepliesOf(listEntry[d].ip) : d \in {c}} = said
    OBVIOUS
  <2> QED BY <1>1, <2>1 DEF ShownReplies
<1>3. PICK r \in JoinedRows({c}) :
        /\ {s \in JoinedRows({c}) : s.client = c} = {r}
        /\ {r.reply} = IF said = {} THEN {"none"} ELSE said
  BY <1>1, PlainRow
<1>4. \A s \in JoinedRows({c}) : s.client = c
  BY <1>1, RowsJoined
<1>5. ExportedReplies(c) = {r.reply}
  BY <1>3, <1>4 DEF ExportedReplies
<1> QED BY <1>2, <1>3, <1>5

LEMMA PagesTold == PagesInv => PagesAgree
<1> SUFFICES ASSUME PagesInv PROVE PagesAgree
  OBVIOUS
<1>1. ASSUME NEW sel \in Selections
      PROVE  /\ ExportSelected(sel) = Selected(sel)
             /\ \A c \in PlainClients \cap Selected(sel) : Cardinality(PagesOf(sel, c)) = 1
  <2>1. Selected(sel) \subseteq Enrolled
    <3>1. Detected(sel.status) \subseteq Enrolled
      BY DEF Detected
    <3> QED BY <3>1 DEF Selected
  <2> QED BY <2>1, FileAsPages, OnePage DEF PagesOf
<1>2. ASSUME NEW c \in PlainClients
      PROVE  Cardinality(ListedOn(c)) = 1 /\ ShownReplies(c, Enrolled) = ExportedReplies(c)
  <2>1. c \in Enrolled
    BY DEF PlainClients
  <2> QED BY <2>1, OnePage, SameReplies DEF ListedOn
<1> QED BY <1>1, <1>2, FiguresAgree, GroupsAgree DEF PagesAgree

\* The pages of a selection, its file and the figures agree, for any list, members and answers
\* (list_clients_detailed, list_clients, export_csv, get_stats, list_categories).
THEOREM PagesAlwaysAgree == PagesSpec => []PagesAgree
BY PagesInvariant, PagesTold, PTL

-----------------------------------------------------------------------------
(* Stored comparisons. *)

\* A set of rows has each MAC of a set once.
OneRowEach(rows, macs) ==
  /\ {r.mac : r \in rows} = macs
  /\ \A r, s \in rows : r.mac = s.mac => r = s

\* A read that nobody overtook is about the list as it is, and knows what is stored.
FreshRead(g) ==
  /\ g.old = {s.save : s \in storedRows}
  /\ listed # {} => OneRowEach(g.rows, listed)

ReadsFresh == \A e \in Regenerators : regen[e].step = "read" /\ ~regen[e].late => FreshRead(regen[e])

\* What is stored is about the list, while nobody is about to replace it.
StoredShown ==
  (listed # {} /\ ~broken /\ \A e \in Regenerators : regen[e] = Resting)
    => /\ {s.row.mac : s \in storedRows} = listed
       /\ \A s, t \in storedRows : s.row.mac = t.row.mac => s = t

ComparisonsInv == ComparisonsTypeOK /\ ReadsFresh /\ StoredShown

ReadState ==
  [step : {"read"}, rows : SUBSET Compared, old : SUBSET (1..MaxSaves), late : BOOLEAN]

LEMMA RegenStates ==
  ASSUME NEW g \in {Resting, Pending} \cup ReadState
  PROVE  /\ g.step = "read" <=> g \in ReadState
         /\ g \in ReadState => g # Resting /\ g # Pending
         /\ Resting # Pending
BY DEF Resting, Pending, ReadState

MadeLate(g) == [g EXCEPT !.late = TRUE]
LEMMA MadeLateIsLate ==
  ASSUME NEW g \in ReadState
  PROVE  MadeLate(g) \in ReadState /\ MadeLate(g).late
BY DEF MadeLate, ReadState

LEMMA VerdictIsOne == \A old, new : Verdict(old, new) \in {"undetected", "changed", "same"}
BY DEF Verdict

LEMMA RecordedType == ComparisonsTypeOK => Recorded \subseteq Terminals
BY DEF ComparisonsTypeOK, Recorded, Record

\* Comparing has a row for each MAC.
LEMMA RowsAreCompared ==
  ASSUME ComparisonsTypeOK, NEW old, NEW new
  PROVE  RowsOf(old, new) \in SUBSET Compared /\ OneRowEach(RowsOf(old, new), ComparedMacs)
<1>1. ComparedMacs \subseteq Terminals
  BY RecordedType DEF ComparisonsTypeOK, ComparedMacs
<1>2. \A m \in ComparedMacs : [mac |-> m, verdict |-> Verdict(old[m], new[m])] \in Compared
  BY <1>1, VerdictIsOne DEF Compared
<1>3. RowsOf(old, new) \in SUBSET Compared
  BY <1>2 DEF RowsOf
<1>4. OneRowEach(RowsOf(old, new), ComparedMacs)
  <2> DEFINE Row(m) == [mac |-> m, verdict |-> Verdict(old[m], new[m])]
  <2>1. RowsOf(old, new) = {Row(m) : m \in ComparedMacs}
    BY DEF RowsOf
  <2>2. \A m : Row(m).mac = m
    OBVIOUS
  <2> HIDE DEF Row
  <2>3. {r.mac : r \in RowsOf(old, new)} = ComparedMacs
    BY <2>1, <2>2
  <2>4. \A r, s \in RowsOf(old, new) : r.mac = s.mac => r = s
    BY <2>1, <2>2
  <2> QED BY <2>3, <2>4 DEF OneRowEach
<1> QED BY <1>3, <1>4

\* What is known of the requests after a change by one of them.
LEMMA OutdatesStates ==
  ASSUME ComparisonsTypeOK, NEW slots \in SUBSET Regenerators
  PROVE  /\ Outdates(slots) \in [Regenerators -> {Resting, Pending} \cup ReadState]
         /\ \A e \in Regenerators :
              /\ e \in slots /\ Outdates(slots)[e].step = "read" => Outdates(slots)[e].late
              /\ e \notin slots => Outdates(slots)[e] = regen[e]
              /\ (Outdates(slots)[e] = Resting) <=> (regen[e] = Resting)
<1> DEFINE new == Outdates(slots)
<1>1. new = [e \in Regenerators |->
        IF e \in slots /\ regen[e].step = "read" THEN MadeLate(regen[e]) ELSE regen[e]]
  BY DEF Outdates, MadeLate
<1>2. \A e \in Regenerators : regen[e] \in {Resting, Pending} \cup ReadState
  BY DEF ComparisonsTypeOK, ReadState
<1>3. ASSUME NEW e \in Regenerators, e \in slots, regen[e].step = "read"
      PROVE  new[e] = MadeLate(regen[e]) /\ new[e] \in ReadState /\ new[e].late /\ regen[e] \in ReadState
  BY <1>1, <1>2, <1>3, RegenStates, MadeLateIsLate
<1>4. ASSUME NEW e \in Regenerators, ~(e \in slots /\ regen[e].step = "read")
      PROVE  new[e] = regen[e]
  BY <1>1, <1>4
<1> HIDE DEF new
<1>5. ASSUME NEW e \in Regenerators
      PROVE  /\ new[e] \in {Resting, Pending} \cup ReadState
             /\ e \in slots /\ new[e].step = "read" => new[e].late
             /\ e \notin slots => new[e] = regen[e]
             /\ (new[e] = Resting) <=> (regen[e] = Resting)
  <2>1. CASE e \in slots /\ regen[e].step = "read"
    BY <1>3, <2>1, RegenStates
  <2>2. CASE ~(e \in slots /\ regen[e].step = "read")
    BY <1>2, <1>4, <2>2
  <2> QED BY <2>1, <2>2
<1>6. new \in [Regenerators -> {Resting, Pending} \cup ReadState]
  BY <1>1, <1>5
<1> QED BY <1>5, <1>6 DEF new

LEMMA ComparisonsInitInv == ComparisonsInit => ComparisonsInv
<1> SUFFICES ASSUME ComparisonsInit PROVE ComparisonsInv
  OBVIOUS
<1>1. ComparisonsTypeOK
  <2>1. regen \in [Regenerators -> {Resting, Pending} \cup ReadState]
    BY DEF ComparisonsInit
  <2>2. 0 \in 0..MaxTick /\ 0 \in 0..MaxSaves
    BY ComparisonAssumption
  <2> QED BY <2>1, <2>2 DEF ComparisonsInit, ComparisonsTypeOK, ReadState
<1>2. ReadsFresh /\ StoredShown
  BY DEF ComparisonsInit, ReadsFresh, StoredShown, Resting
<1> QED BY <1>1, <1>2 DEF ComparisonsInv

\* A request that changes the list makes every read late, and is not at rest itself.
LEMMA ChangeKeeps ==
  ASSUME ComparisonsInv, NEW e \in Regenerators, Changes(e), UNCHANGED <<tick, saves, broken>>,
         listed' \subseteq Terminals, found' \subseteq Record, storedRows' \subseteq Stored
  PROVE  ComparisonsInv'
<1> DEFINE outdated == Outdates(Regenerators)
<1>1. /\ outdated \in [Regenerators -> {Resting, Pending} \cup ReadState]
      /\ \A d \in Regenerators : outdated[d].step = "read" => outdated[d].late
  BY OutdatesStates DEF ComparisonsInv
<1>2. regen' = [outdated EXCEPT ![e] = Pending]
  BY DEF Changes
<1> HIDE DEF outdated
<1>3. /\ regen' \in [Regenerators -> {Resting, Pending} \cup ReadState]
      /\ \A d \in Regenerators : regen'[d].step = "read" => regen'[d].late
      /\ regen'[e] = Pending
  BY <1>1, <1>2 DEF Pending
<1>4. ComparisonsTypeOK'
  BY <1>3 DEF ComparisonsInv, ComparisonsTypeOK, ReadState
<1>5. ReadsFresh'
  BY <1>3 DEF ReadsFresh
<1>6. StoredShown'
  BY <1>3 DEF StoredShown, Resting, Pending
<1> QED BY <1>4, <1>5, <1>6 DEF ComparisonsInv

LEMMA RoundKeeps ==
  ASSUME ComparisonsInv, NEW macs \in SUBSET Terminals, NEW see \in [Terminals -> Sightings],
         Round(macs, see)
  PROVE  ComparisonsInv'
<1>1. tick \in 0..MaxTick /\ tick < MaxTick /\ tick' = tick + 1 /\ MaxTick \in Nat
  BY ComparisonAssumption DEF ComparisonsInv, ComparisonsTypeOK, Round
<1>2. tick' \in 0..MaxTick
  BY <1>1
<1>3. [mac |-> Marker, at |-> tick, seen |-> NoRecord] \in Record
  BY <1>1 DEF Record
<1>4. \A m \in macs : [mac |-> m, at |-> tick, seen |-> see[m]] \in Record
  BY <1>1 DEF Record
<1>5. found' \subseteq Record
  BY <1>3, <1>4 DEF Round, ComparisonsInv, ComparisonsTypeOK
<1>6. UNCHANGED <<listed, storedRows, saves, regen, broken>>
  BY DEF Round
<1>7. ComparisonsTypeOK'
  BY <1>2, <1>5, <1>6 DEF ComparisonsInv, ComparisonsTypeOK
<1> QED BY <1>6, <1>7 DEF ComparisonsInv, ReadsFresh, FreshRead, StoredShown

LEMMA ReadKeeps ==
  ASSUME ComparisonsInv, NEW e \in Regenerators, ReadsLists(e)
  PROVE  ComparisonsInv'
<1> DEFINE read == [step |-> "read", rows |-> Generated, old |-> {s.save : s \in storedRows},
                    late |-> FALSE]
<1>1. regen' = [regen EXCEPT ![e] = read]
      /\ UNCHANGED <<tick, listed, found, storedRows, saves, broken>>
  BY DEF ReadsLists
<1>2. Generated \in SUBSET Compared /\ OneRowEach(Generated, ComparedMacs)
  <2> DEFINE new == IF listed = {} THEN SeenAt(tick) ELSE LaterAt(tick)
  <2>1. Generated = RowsOf(SeenAt(tick), new)
    BY DEF Generated
  <2> HIDE DEF new
  <2> QED BY <2>1, RowsAreCompared DEF ComparisonsInv
<1>3. {s.save : s \in storedRows} \in SUBSET (1..MaxSaves)
  BY DEF ComparisonsInv, ComparisonsTypeOK, Stored
<1>4. read \in ReadState /\ read.step = "read"
  BY <1>2, <1>3 DEF ReadState
<1>5. FreshRead(read)
  BY <1>2 DEF FreshRead, ComparedMacs
<1>6. read # Resting
  BY DEF Resting
<1> HIDE DEF read
<1>7. ComparisonsTypeOK'
  BY <1>1, <1>4 DEF ComparisonsInv, ComparisonsTypeOK, ReadState
<1>8. ReadsFresh'
  BY <1>1, <1>5 DEF ComparisonsInv, ComparisonsTypeOK, ReadsFresh, FreshRead
<1>9. StoredShown'
  BY <1>1, <1>6 DEF ComparisonsInv, ComparisonsTypeOK, StoredShown
<1> QED BY <1>7, <1>8, <1>9 DEF ComparisonsInv

LEMMA FailKeeps ==
  ASSUME ComparisonsInv, NEW e \in Regenerators, RegenerationFails(e)
  PROVE  ComparisonsInv'
<1>1. ComparisonsTypeOK'
  BY DEF ComparisonsInv, ComparisonsTypeOK, RegenerationFails
<1>2. ReadsFresh'
  BY DEF ComparisonsInv, ComparisonsTypeOK, ReadsFresh, FreshRead, RegenerationFails, Resting
<1>3. StoredShown'
  BY DEF StoredShown, RegenerationFails
<1> QED BY <1>1, <1>2, <1>3 DEF ComparisonsInv

\* What was stored goes, and what was read takes its place.
LEMMA SaveKeeps ==
  ASSUME ComparisonsInv, NEW e \in Regenerators, Saves(e)
  PROVE  ComparisonsInv'
<1> DEFINE g == regen[e]
           outdated == Outdates(Regenerators \ {e})
           made == {[save |-> saves + 1, row |-> r] : r \in g.rows}
<1>1. /\ storedRows' = {s \in storedRows : s.save \notin Replaced(g)} \cup made
      /\ broken' = (g.late \/ (broken /\ g.rows = {}))
      /\ saves' = saves + 1 /\ saves < MaxSaves
      /\ regen' = [outdated EXCEPT ![e] = Resting]
      /\ UNCHANGED <<tick, listed, found>>
      /\ g.step = "read"
  BY DEF Saves
<1>2. g \in ReadState
  BY <1>1, RegenStates DEF ComparisonsInv, ComparisonsTypeOK, ReadState
<1>3. /\ outdated \in [Regenerators -> {Resting, Pending} \cup ReadState]
      /\ \A d \in Regenerators \ {e} :
           /\ outdated[d].step = "read" => outdated[d].late
           /\ (outdated[d] = Resting) <=> (regen[d] = Resting)
  BY OutdatesStates DEF ComparisonsInv
<1>4. saves \in 0..MaxSaves /\ MaxSaves \in Nat
  BY ComparisonAssumption DEF ComparisonsInv, ComparisonsTypeOK
<1>5. made \subseteq Stored
  BY <1>1, <1>2, <1>4 DEF Stored, ReadState
<1>6. ~g.late => FreshRead(g)
  BY <1>1 DEF ComparisonsInv, ReadsFresh
<1>7. \A s \in made : s.row \in g.rows /\ s.save = saves + 1
  OBVIOUS
<1>8. \A r \in g.rows : \E s \in made : s.row = r
  <2> SUFFICES ASSUME NEW r \in g.rows PROVE \E s \in made : s.row = r
    OBVIOUS
  <2>1. [save |-> saves + 1, row |-> r] \in made
    OBVIOUS
  <2> QED BY <2>1
<1>9. \A s, t \in made : s.row = t.row => s = t
  OBVIOUS
<1>10. g.late \in BOOLEAN
  BY <1>2 DEF ReadState
<1> HIDE DEF g, outdated, made
<1>11. regen' \in [Regenerators -> {Resting, Pending} \cup ReadState]
       /\ \A d \in Regenerators : regen'[d].step = "read" => regen'[d].late
  BY <1>1, <1>3 DEF Resting
<1>12. ComparisonsTypeOK'
  <2>1. saves' \in 0..MaxSaves
    BY <1>1, <1>4
  <2>2. broken' \in BOOLEAN
    BY <1>1, <1>10
  <2>3. storedRows' \subseteq Stored
    BY <1>1, <1>5 DEF ComparisonsInv, ComparisonsTypeOK
  <2> QED BY <1>1, <1>11, <2>1, <2>2, <2>3 DEF ComparisonsInv, ComparisonsTypeOK, ReadState
<1>13. ReadsFresh'
  BY <1>11 DEF ReadsFresh
<1>14. StoredShown'
  <2> SUFFICES ASSUME listed' # {}, ~broken'
               PROVE  /\ {s.row.mac : s \in storedRows'} = listed'
                      /\ \A s, t \in storedRows' : s.row.mac = t.row.mac => s = t
    BY DEF StoredShown
  <2>1. ~g.late /\ OneRowEach(g.rows, listed) /\ g.old = {s.save : s \in storedRows}
    BY <1>1, <1>6 DEF FreshRead
  <2>2. g.rows # {}
    BY <1>1, <2>1 DEF OneRowEach
  <2>3. storedRows' = made
    BY <1>1, <2>1, <2>2 DEF Replaced
  <2>4. {s.row.mac : s \in made} = listed
    BY <1>7, <1>8, <2>1 DEF OneRowEach
  <2>5. \A s, t \in made : s.row.mac = t.row.mac => s = t
    BY <1>7, <1>9, <2>1 DEF OneRowEach
  <2> QED BY <1>1, <2>3, <2>4, <2>5
<1> QED BY <1>12, <1>13, <1>14 DEF ComparisonsInv

LEMMA ComparisonsStep == ComparisonsInv /\ [ComparisonsNext]_comparisonVars => ComparisonsInv'
<1> SUFFICES ASSUME ComparisonsInv, [ComparisonsNext]_comparisonVars PROVE ComparisonsInv'
  OBVIOUS
<1>1. ASSUME NEW e \in Regenerators, NEW macs \in SUBSET Terminals, EditsList(e, macs)
      PROVE ComparisonsInv'
  BY <1>1, ChangeKeeps DEF EditsList, ComparisonsInv, ComparisonsTypeOK
<1>2. ASSUME NEW e \in Regenerators, NEW m \in Terminals, RemovesOne(e, m) PROVE ComparisonsInv'
  BY <1>2, ChangeKeeps DEF RemovesOne, ComparisonsInv, ComparisonsTypeOK
<1>3. CASE UNCHANGED comparisonVars
  BY <1>3 DEF comparisonVars, ComparisonsInv, ComparisonsTypeOK, ReadsFresh, FreshRead, StoredShown
<1> QED BY <1>1, <1>2, <1>3, RoundKeeps, ReadKeeps, SaveKeeps, FailKeeps DEF ComparisonsNext

\* A read of generate_comparisons that nobody overtook is about the list as it is and knows
\* every stored row, which is why save_comparisons replaces them all: the inductive invariant.
THEOREM ComparisonsInvariant == ComparisonsSpec => []ComparisonsInv
BY ComparisonsInitInv, ComparisonsStep, PTL DEF ComparisonsSpec

\* Once the requests are through, and unless the last regeneration failed or was overtaken,
\* each listed MAC is in one stored row and nothing else is, for any list, any history of
\* records and any number of requests that regenerate_comparisons runs for.
THEOREM ListAlwaysShown == ComparisonsSpec => []ListShown
<1>1. ComparisonsInv => ListShown
  <2> SUFFICES ASSUME ComparisonsInv, listed # {}, ~broken, \A e \in Regenerators : regen[e] = Resting
               PROVE  /\ \A m \in listed : Cardinality({s \in storedRows : s.row.mac = m}) = 1
                      /\ {s.row.mac : s \in storedRows} = listed
                      /\ Added = Members \ listed
    BY DEF ListShown
  <2>1. /\ {s.row.mac : s \in storedRows} = listed
        /\ \A s, t \in storedRows : s.row.mac = t.row.mac => s = t
    BY DEF ComparisonsInv, StoredShown
  <2>2. ASSUME NEW m \in listed PROVE Cardinality({s \in storedRows : s.row.mac = m}) = 1
    <3>1. PICK s \in storedRows : s.row.mac = m
      BY <2>1
    <3>2. {t \in storedRows : t.row.mac = m} = {s}
      BY <2>1, <3>1
    <3> QED BY <3>2, FS_Singleton
  <2> QED BY <2>1, <2>2 DEF Added
<1> QED BY <1>1, ComparisonsInvariant, PTL

-----------------------------------------------------------------------------
(* What a case tells of changes. *)

\* Of some of the numbers up to n, one is the greatest.
LEMMA GreatestNumber ==
  ASSUME NEW n \in Nat, NEW T \in SUBSET (1..n), T # {}
  PROVE  /\ \E x \in T : \A y \in T : y <= x
         /\ \A x, z \in T : (\A y \in T : y <= x) /\ (\A y \in T : y <= z) => x = z
<1> DEFINE U == {n - x : x \in T}
<1>1. U \in SUBSET Nat /\ U # {}
  <2>1. \A x \in T : n - x \in Nat
    OBVIOUS
  <2> QED BY <2>1
<1>2. PICK u \in U : \A v \in U : u <= v
  BY <1>1, LeastNumber
<1>3. PICK x \in T : u = n - x
  OBVIOUS
<1>4. \A y \in T : n - x <= n - y
  BY <1>2, <1>3
<1>5. \A y \in T : y <= x
  BY <1>4
<1> QED BY <1>5

InOrder(s) == \A i, j \in DOMAIN s : i < j => s[i].at < s[j].at

\* The k-th of h is the last one before the observation o, and says the same.
Tells(h, k, o) ==
  /\ h[k].at <= o.at /\ \A l \in DOMAIN h : h[l].at <= o.at => l <= k
  /\ h[k].of = o.of

\* All of h are in r, and tell what r says.
Condenses(h, r) ==
  /\ \A k \in DOMAIN h : \E j \in DOMAIN r : r[j] = h[k]
  /\ \A j \in DOMAIN r : \E k \in DOMAIN h : Tells(h, k, r[j])

Away(a, s) == {i \in DOMAIN s : s[i].of[a] = NoSetting}
IsLast(i, S) == i \in S /\ \A j \in S : j <= i

LEMMA LastAway ==
  ASSUME NEW a \in Attributes, NEW s \in Seq(Observation), Away(a, s) # {}
  PROVE  \E i \in DOMAIN s :
           /\ IsLast(i, Away(a, s))
           /\ CameBack(a, s) = IF i = Len(s) THEN NoSetting ELSE s[i + 1].at
<1> DEFINE S == Away(a, s)  last == CHOOSE i \in S : \A j \in S : j <= i
<1>1. Len(s) \in Nat /\ DOMAIN s = 1..Len(s)
  BY LenProperties
<1>2. S \in SUBSET (1..Len(s)) /\ S # {}
  BY <1>1 DEF Away
<1>3. last \in S /\ \A j \in S : j <= last
  <2> HIDE DEF S
  <2>1. \E x \in S : \A y \in S : y <= x
    BY <1>1, <1>2, GreatestNumber
  <2> QED BY <2>1
<1>4. CameBack(a, s) = IF S = {} \/ last = Len(s) THEN NoSetting ELSE s[last + 1].at
  BY DEF CameBack, Away
<1> HIDE DEF S, last
<1>5. IsLast(last, S)
  BY <1>3 DEF IsLast
<1> QED BY <1>1, <1>2, <1>3, <1>4, <1>5 DEF S

\* A condensed history comes back from NoSetting when the whole one does.
LEMMA ComesBackAlike ==
  ASSUME NEW a \in Attributes, NEW h \in Seq(Observation), NEW r \in Seq(Observation),
         h # <<>>, InOrder(h), InOrder(r), Condenses(h, r)
  PROVE  CameBack(a, h) = CameBack(a, r)
<1>1. /\ Len(h) \in Nat \ {0} /\ DOMAIN h = 1..Len(h)
      /\ Len(r) \in Nat /\ DOMAIN r = 1..Len(r)
  BY LenProperties, EmptySeq
<1>2. /\ \A i \in DOMAIN h : h[i].at \in Nat
      /\ \A i \in DOMAIN r : r[i].at \in Nat
  <2>1. \A o \in Observation : o.at \in Nat
    BY FlagsAssumption DEF Observation
  <2> QED BY <1>1, <2>1
<1>3. PICK f \in DOMAIN r : r[f] = h[Len(h)]
  BY <1>1 DEF Condenses
<1>4. h[Len(h)].at <= r[Len(r)].at
  <2>1. f = Len(r) \/ f < Len(r)
    BY <1>1
  <2> QED BY <1>1, <1>2, <1>3, <2>1 DEF InOrder
<1>5. r[Len(r)].of = h[Len(h)].of
  <2>1. Len(r) \in DOMAIN r /\ Len(h) \in DOMAIN h
    BY <1>1, <1>3
  <2>2. PICK k \in DOMAIN h : Tells(h, k, r[Len(r)])
    BY <2>1 DEF Condenses
  <2>3. k = Len(h)
    BY <1>1, <1>4, <2>1, <2>2 DEF Tells
  <2> QED BY <2>2, <2>3 DEF Tells
<1>6. Away(a, h) = {} <=> Away(a, r) = {}
  <2>1. ASSUME NEW k \in Away(a, h) PROVE Away(a, r) # {}
    BY <2>1 DEF Away, Condenses
  <2>2. ASSUME NEW j \in Away(a, r) PROVE Away(a, h) # {}
    <3>1. PICK k \in DOMAIN h : Tells(h, k, r[j])
      BY DEF Away, Condenses
    <3> QED BY <3>1 DEF Away, Tells
  <2> QED BY <2>1, <2>2
<1>7. CASE Away(a, h) = {}
  <2>1. CameBack(a, h) = NoSetting
    BY <1>7 DEF CameBack, Away
  <2>2. CameBack(a, r) = NoSetting
    BY <1>6, <1>7 DEF CameBack, Away
  <2> QED BY <2>1, <2>2
<1>8. CASE Away(a, h) # {}
  <2>1. PICK p \in DOMAIN h :
          /\ IsLast(p, Away(a, h))
          /\ CameBack(a, h) = IF p = Len(h) THEN NoSetting ELSE h[p + 1].at
    BY <1>8, LastAway
  <2>2. PICK q \in DOMAIN r :
          /\ IsLast(q, Away(a, r))
          /\ CameBack(a, r) = IF q = Len(r) THEN NoSetting ELSE r[q + 1].at
    BY <1>6, <1>8, LastAway
  <2>3. p = Len(h) <=> q = Len(r)
    BY <1>1, <1>5, <2>1, <2>2 DEF IsLast, Away
  <2>4. ASSUME p # Len(h), q # Len(r) PROVE h[p + 1].at = r[q + 1].at
    <3>1. p + 1 \in DOMAIN h /\ q + 1 \in DOMAIN r /\ p \in Nat /\ q \in Nat
      BY <1>1, <2>1, <2>2, <2>4
    <3>2. PICK back \in DOMAIN r : r[back] = h[p + 1]
      BY <3>1 DEF Condenses
    <3>3. PICK gone \in DOMAIN r : r[gone] = h[p]
      BY <2>1 DEF Condenses
    <3>4. gone <= q
      BY <2>1, <2>2, <3>3 DEF IsLast, Away
    <3>5. ~(back <= q)
      <4> SUFFICES ASSUME back <= q PROVE FALSE
        OBVIOUS
      <4>1. PICK k \in DOMAIN h : Tells(h, k, r[q])
        BY <2>2 DEF Condenses
      <4>2. r[back].at <= r[q].at
        <5>1. back = q \/ back < q
          BY <1>1, <2>2, <3>2
        <5> QED BY <1>2, <2>2, <3>2, <5>1 DEF InOrder
      <4>3. p + 1 <= k
        BY <3>1, <3>2, <4>1, <4>2 DEF Tells
      <4>4. k \in Away(a, h)
        BY <2>2, <4>1 DEF Tells, IsLast, Away
      <4> QED BY <1>1, <2>1, <3>1, <4>3, <4>4 DEF IsLast
    <3>6. ~(q + 1 < back)
      <4> SUFFICES ASSUME q + 1 < back PROVE FALSE
        OBVIOUS
      <4>1. PICK k \in DOMAIN h : Tells(h, k, r[q + 1])
        BY <3>1 DEF Condenses
      <4>2. r[gone].at <= r[q + 1].at
        <5>1. gone < q + 1
          BY <1>1, <3>1, <3>3, <3>4
        <5> QED BY <1>2, <3>1, <3>3, <5>1 DEF InOrder
      <4>3. p <= k
        BY <2>1, <3>3, <4>1, <4>2 DEF Tells
      <4>4. r[q + 1].at < r[back].at
        BY <3>1, <3>2 DEF InOrder
      <4>5. ~(p + 1 < k)
        BY <1>2, <3>1, <3>2, <4>1, <4>4 DEF InOrder, Tells
      <4>6. k # p + 1
        BY <1>2, <3>1, <3>2, <4>1, <4>4 DEF Tells
      <4>7. k = p
        BY <1>1, <2>1, <3>1, <4>3, <4>5, <4>6
      <4>8. q + 1 \in Away(a, r)
        BY <2>1, <3>1, <4>1, <4>7 DEF Tells, IsLast, Away
      <4> QED BY <2>2, <3>1, <4>8 DEF IsLast
    <3>7. back = q + 1
      BY <1>1, <3>1, <3>2, <3>5, <3>6
    <3> QED BY <3>2, <3>7
  <2> QED BY <2>1, <2>2, <2>3, <2>4
<1> QED BY <1>7, <1>8

LEMMA ChangesAlike ==
  ASSUME NEW a \in Attributes, NEW h \in Seq(Observation), NEW r \in Seq(Observation),
         h # <<>>, InOrder(h), InOrder(r), Condenses(h, r)
  PROVE  HasChange(a, h) = HasChange(a, r)
<1> DEFINE V == {h[i].of[a] : i \in DOMAIN h}  W == {r[i].of[a] : i \in DOMAIN r}
<1>1. V = W
  <2>1. ASSUME NEW k \in DOMAIN h PROVE \E j \in DOMAIN r : r[j].of[a] = h[k].of[a]
    BY <2>1 DEF Condenses
  <2>2. ASSUME NEW j \in DOMAIN r PROVE \E k \in DOMAIN h : r[j].of[a] = h[k].of[a]
    BY <2>2 DEF Condenses, Tells
  <2>3. V \subseteq W
    <3> SUFFICES ASSUME NEW k \in DOMAIN h PROVE h[k].of[a] \in W
      OBVIOUS
    <3> QED BY <2>1
  <2>4. W \subseteq V
    <3> SUFFICES ASSUME NEW j \in DOMAIN r PROVE r[j].of[a] \in V
      OBVIOUS
    <3> QED BY <2>2
  <2> QED BY <2>3, <2>4
<1>2. CameBack(a, h) = CameBack(a, r)
  BY ComesBackAlike
<1> QED BY <1>1, <1>2 DEF HasChange

\* The records are observations in order, and since the oldest of them they tell what every
\* observation said.
FlagsInv ==
  /\ FlagsTypeOK
  /\ InOrder(observedSoFar) /\ InOrder(points)
  /\ \A j \in DOMAIN observedSoFar : observedSoFar[j].at <= lastChecked
  /\ lastChecked <= minute
  /\ \A k \in DOMAIN points : \E j \in DOMAIN observedSoFar : observedSoFar[j] = points[k]
  /\ \A j \in DOMAIN observedSoFar :
       points # <<>> /\ points[1].at <= observedSoFar[j].at =>
         \E k \in DOMAIN points : Tells(points, k, observedSoFar[j])

LEMMA FlagsInitInv == FlagsInit => FlagsInv
<1> SUFFICES ASSUME FlagsInit PROVE FlagsInv
  OBVIOUS
<1>1. FlagsTypeOK
  BY FlagsAssumption, EmptySeq DEF FlagsInit, FlagsTypeOK
<1>2. DOMAIN observedSoFar = {} /\ DOMAIN points = {}
  BY EmptySeq DEF FlagsInit
<1>3. lastChecked <= minute
  BY DEF FlagsInit
<1> QED BY <1>1, <1>2, <1>3 DEF FlagsInv, InOrder

LEMMA FlagsTypes ==
  ASSUME FlagsInv
  PROVE  /\ observedSoFar \in Seq(Observation) /\ points \in Seq(Observation)
         /\ Len(observedSoFar) \in Nat /\ DOMAIN observedSoFar = 1..Len(observedSoFar)
         /\ Len(points) \in Nat /\ DOMAIN points = 1..Len(points)
         /\ points # <<>> <=> Len(points) > 0
         /\ \A j \in DOMAIN observedSoFar : observedSoFar[j].at \in Nat
         /\ \A k \in DOMAIN points : points[k].at \in Nat
         /\ minute \in Nat /\ lastChecked \in Nat
<1>1. observedSoFar \in Seq(Observation) /\ minute \in Nat /\ lastChecked \in Nat
  BY FlagsAssumption DEF FlagsInv, FlagsTypeOK
<1>2. Range(observedSoFar) \subseteq Observation
  BY <1>1, LenProperties DEF Range
<1>3. points \in Seq(Observation)
  <2>1. points \in Seq(Range(observedSoFar))
    BY DEF FlagsInv, FlagsTypeOK
  <2> QED BY <1>2, <2>1
<1>4. \A o \in Observation : o.at \in Nat
  BY FlagsAssumption DEF Observation
<1>5. /\ Len(observedSoFar) \in Nat /\ DOMAIN observedSoFar = 1..Len(observedSoFar)
      /\ Len(points) \in Nat /\ DOMAIN points = 1..Len(points)
  BY <1>1, <1>3, LenProperties
<1>6. points # <<>> <=> Len(points) > 0
  BY <1>3, <1>5, EmptySeq
<1>7. /\ \A j \in DOMAIN observedSoFar : observedSoFar[j].at \in Nat
      /\ \A k \in DOMAIN points : points[k].at \in Nat
  BY <1>1, <1>3, <1>4, <1>5
<1> QED BY <1>1, <1>3, <1>5, <1>6, <1>7

\* The last record says what the last observation said.
LEMMA NewestTold ==
  ASSUME FlagsInv, points # <<>>
  PROVE  /\ observedSoFar # <<>>
         /\ points[Len(points)].at <= observedSoFar[Len(observedSoFar)].at
         /\ points[Len(points)].of = observedSoFar[Len(observedSoFar)].of
<1> DEFINE n == Len(points)  m == Len(observedSoFar)
<1>0. n \in 1..Len(points) /\ n \in DOMAIN points /\ 1 \in DOMAIN points
  BY FlagsTypes
<1>1. PICK j \in DOMAIN observedSoFar : observedSoFar[j] = points[n]
  BY <1>0 DEF FlagsInv
<1>2. m \in DOMAIN observedSoFar /\ (j = m \/ j < m)
  BY <1>1, FlagsTypes
<1>3. points[n].at <= observedSoFar[m].at
  BY <1>0, <1>1, <1>2, FlagsTypes DEF FlagsInv, InOrder
<1>4. points[1].at <= points[n].at
  <2>1. n = 1 \/ 1 < n
    BY <1>0
  <2> QED BY <1>0, <2>1, FlagsTypes DEF FlagsInv, InOrder
<1>5. points[1].at <= observedSoFar[m].at
  BY <1>0, <1>2, <1>3, <1>4, FlagsTypes
<1>6. PICK k \in DOMAIN points : Tells(points, k, observedSoFar[m])
  BY <1>2, <1>5 DEF FlagsInv
<1>7. k = n
  BY <1>0, <1>3, <1>6, FlagsTypes DEF Tells
<1>8. observedSoFar # <<>>
  BY <1>2, EmptySeq
<1> QED BY <1>3, <1>6, <1>7, <1>8 DEF Tells

\* A round.
LEMMA ObservesKeeps ==
  ASSUME FlagsInv, NEW d \in Attributed, Observes(d)
  PROVE  FlagsInv'
<1> DEFINE o == [at |-> minute + 1, of |-> d]
           m == Len(observedSoFar)
           n == Len(points)
           same == observedSoFar # <<>> /\ SameAsBefore(Last(observedSoFar).of, d)
<1>1. /\ Len(observedSoFar) < MaxObserved /\ minute < MaxClock /\ minute' = minute + 1
      /\ observedSoFar' = Append(observedSoFar, o)
      /\ points' = IF same THEN points ELSE Append(points, o)
      /\ lastChecked' = minute + 1 /\ tags' = tags
  BY DEF Observes
<1>2. minute + 1 \in 0..MaxClock
  BY <1>1, FlagsAssumption DEF FlagsInv, FlagsTypeOK
<1>3. o \in Observation /\ o.at = minute + 1 /\ o.of = d
  BY <1>2 DEF Observation, Attributed
<1>4. same => observedSoFar # <<>> /\ observedSoFar[m].of = d
  BY DEF SameAsBefore, Last
<1> HIDE DEF o, same
<1>5. /\ observedSoFar' \in Seq(Observation) /\ Len(observedSoFar') = m + 1
      /\ \A j \in 1..m : observedSoFar'[j] = observedSoFar[j]
      /\ observedSoFar'[m + 1] = o
      /\ DOMAIN observedSoFar' = 1..(m + 1)
  BY <1>1, <1>3, FlagsTypes, AppendProperties, LenProperties
<1>6. ~same => /\ points' \in Seq(Observation) /\ Len(points') = n + 1
               /\ \A k \in 1..n : points'[k] = points[k]
               /\ points'[n + 1] = o
               /\ DOMAIN points' = 1..(n + 1)
  BY <1>1, <1>3, FlagsTypes, AppendProperties, LenProperties
<1>7. /\ \A j \in 1..m : observedSoFar[j].at < o.at /\ observedSoFar[j].at \in Nat
      /\ \A k \in 1..n : points[k].at < o.at /\ points[k].at \in Nat
      /\ o.at \in Nat /\ m \in Nat /\ n \in Nat
  <2>1. \A j \in 1..m : observedSoFar[j].at < o.at
    BY <1>3, FlagsTypes DEF FlagsInv
  <2>2. \A k \in 1..n : \E j \in 1..m : points[k] = observedSoFar[j]
    BY FlagsTypes DEF FlagsInv
  <2>3. \A k \in 1..n : points[k].at < o.at
    BY <2>1, <2>2
  <2>4. o.at \in Nat /\ m \in Nat /\ n \in Nat
    BY <1>3, FlagsTypes
  <2>5. /\ \A j \in 1..m : observedSoFar[j].at \in Nat
        /\ \A k \in 1..n : points[k].at \in Nat
    BY FlagsTypes
  <2> QED BY <2>1, <2>3, <2>4, <2>5
<1>8. \A k \in DOMAIN points' : \E j \in DOMAIN observedSoFar' : observedSoFar'[j] = points'[k]
  <2>1. \A k \in 1..n : \E j \in 1..m : points[k] = observedSoFar[j]
    BY FlagsTypes DEF FlagsInv
  <2>2. CASE same
    BY <1>1, <1>5, <1>7, <2>1, <2>2, FlagsTypes
  <2>3. CASE ~same
    <3> SUFFICES ASSUME NEW k \in 1..(n + 1)
                 PROVE  \E j \in 1..(m + 1) : observedSoFar'[j] = points'[k]
      BY <1>5, <1>6, <2>3
    <3>1. CASE k = n + 1
      BY <1>5, <1>6, <1>7, <2>3, <3>1
    <3>2. CASE k \in 1..n
      BY <1>5, <1>6, <1>7, <2>1, <2>3, <3>2
    <3> QED BY <1>7, <3>1, <3>2
  <2> QED BY <2>2, <2>3
<1>9. FlagsTypeOK'
  <2>1. points' \in Seq(Observation)
    BY <1>1, <1>6, FlagsTypes
  <2>2. DOMAIN points' = 1..Len(points') /\ Len(points') \in Nat
    BY <2>1, LenProperties
  <2>3. \A k \in 1..Len(points') : points'[k] \in Range(observedSoFar')
    BY <1>8, <2>2 DEF Range
  <2>4. points' = [k \in 1..Len(points') |-> points'[k]]
    BY <2>1, <2>2
  <2>5. points' \in Seq(Range(observedSoFar'))
    BY <2>2, <2>3, <2>4, SeqDef
  <2>6. Len(observedSoFar') <= MaxObserved
    BY <1>1, <1>5, <1>7, FlagsAssumption
  <2> QED BY <1>1, <1>2, <1>5, <2>5, <2>6 DEF FlagsInv, FlagsTypeOK
<1>10. InOrder(observedSoFar')
  <2>1. \A i, j \in 1..m : i < j => observedSoFar[i].at < observedSoFar[j].at
    BY FlagsTypes DEF FlagsInv, InOrder
  <2> SUFFICES ASSUME NEW i \in 1..(m + 1), NEW j \in 1..(m + 1), i < j
               PROVE  observedSoFar'[i].at < observedSoFar'[j].at
    BY <1>5 DEF InOrder
  <2>2. i \in 1..m
    BY <1>7
  <2>3. CASE j \in 1..m
    <3>1. observedSoFar'[i] = observedSoFar[i] /\ observedSoFar'[j] = observedSoFar[j]
      BY <1>5, <2>2, <2>3
    <3>2. observedSoFar[i].at < observedSoFar[j].at
      BY <2>1, <2>2, <2>3
    <3> QED BY <3>1, <3>2
  <2>4. CASE j = m + 1
    <3>1. observedSoFar'[i] = observedSoFar[i]
      BY <1>5, <2>2
    <3>2. observedSoFar'[j] = o
      BY <1>5, <2>4
    <3>3. observedSoFar[i].at < o.at
      BY <1>7, <2>2
    <3> QED BY <3>1, <3>2, <3>3
  <2>5. m \in Nat
    BY <1>7
  <2>6. j = m + 1 \/ j \in 1..m
    BY <2>5
  <2> QED BY <2>3, <2>4, <2>6, Zenon
<1>11. InOrder(points')
  BY <1>1, <1>6, <1>7, FlagsTypes DEF FlagsInv, InOrder
<1>12. \A j \in DOMAIN observedSoFar' : observedSoFar'[j].at <= lastChecked'
  BY <1>1, <1>3, <1>5, <1>7
<1>13. lastChecked' <= minute'
  BY <1>1, <1>2
<1>14. ASSUME NEW j \in DOMAIN observedSoFar', points' # <<>>, points'[1].at <= observedSoFar'[j].at
       PROVE  \E k \in DOMAIN points' : Tells(points', k, observedSoFar'[j])
  <2>1. CASE j \in 1..m
    <3>1. points # <<>>
      BY <1>1, <1>3, <1>5, <1>6, <1>7, <1>14, <2>1, EmptySeq
    <3>2. 1 \in 1..n /\ points'[1] = points[1]
      BY <1>1, <1>6, <1>7, <3>1, FlagsTypes
    <3>3. PICK k \in 1..n : Tells(points, k, observedSoFar[j])
      BY <1>5, <1>14, <2>1, <3>1, <3>2, FlagsTypes DEF FlagsInv
    <3>4. CASE same
      BY <1>1, <1>5, <2>1, <3>3, <3>4, FlagsTypes
    <3>5. CASE ~same
      <4>1. Tells(points', k, observedSoFar[j])
        <5>1. points'[k] = points[k] /\ DOMAIN points' = 1..(n + 1)
          BY <1>6, <3>3, <3>5
        <5>2. \A l \in 1..n : points[l].at <= observedSoFar[j].at => l <= k
          BY <3>3, FlagsTypes DEF Tells
        <5>3. points'[n + 1].at > observedSoFar[j].at
          BY <1>6, <1>7, <2>1, <3>5
        <5>4. \A l \in 1..(n + 1) : points'[l].at <= observedSoFar[j].at => l <= k
          <6> SUFFICES ASSUME NEW l \in 1..(n + 1), points'[l].at <= observedSoFar[j].at
                       PROVE  l <= k
            OBVIOUS
          <6>1. l # n + 1
            BY <1>6, <1>7, <2>1, <3>5, <5>3
          <6>2. l \in 1..n
            BY <1>7, <6>1
          <6> QED BY <1>6, <3>5, <5>2, <6>2
        <5> QED BY <3>3, <5>1, <5>4 DEF Tells
      <4> QED BY <1>5, <1>6, <1>7, <2>1, <3>5, <4>1
    <3> QED BY <3>4, <3>5
  <2>2. CASE j = m + 1 /\ same
    <3>1. points # <<>> /\ points' = points
      BY <1>1, <1>14, <2>2
    <3>2. n \in 1..n /\ points[n].of = d
      BY <1>4, <2>2, <3>1, NewestTold, FlagsTypes
    <3>3. Tells(points, n, o)
      BY <1>3, <1>7, <3>2, FlagsTypes DEF Tells
    <3> QED BY <1>5, <2>2, <3>1, <3>2, <3>3, FlagsTypes
  <2>3. CASE j = m + 1 /\ ~same
    <3>1. Tells(points', n + 1, o)
      BY <1>3, <1>6, <1>7, <2>3 DEF Tells
    <3> QED BY <1>5, <1>6, <1>7, <2>3, <3>1
  <2> QED BY <1>5, <1>7, <2>1, <2>2, <2>3
<1> QED BY <1>8, <1>9, <1>10, <1>11, <1>12, <1>13, <1>14 DEF FlagsInv

\* Retention takes the oldest record.
LEMMA OldestGoesKeeps ==
  ASSUME FlagsInv, OldestGoes
  PROVE  FlagsInv'
<1> DEFINE n == Len(points)
<1>1. points # <<>> /\ points' = Tail(points)
      /\ UNCHANGED <<minute, observedSoFar, lastChecked, tags>>
  BY DEF OldestGoes
<1>2. n \in Nat /\ n > 0
  BY <1>1, FlagsTypes
<1>3. points \in Seq(Range(observedSoFar))
  BY DEF FlagsInv, FlagsTypeOK
<1>4. /\ points' \in Seq(Range(observedSoFar)) /\ Len(points') = n - 1
      /\ \A k \in 1..(n - 1) : points'[k] = points[k + 1]
  BY <1>1, <1>3, HeadTailProperties
<1>5. DOMAIN points' = 1..(n - 1)
  BY <1>4, LenProperties
<1>6. \A k \in 1..(n - 1) : k + 1 \in DOMAIN points
  BY <1>2, FlagsTypes
<1>7. FlagsTypeOK'
  BY <1>1, <1>4 DEF FlagsInv, FlagsTypeOK
<1>8. InOrder(points')
  <2> SUFFICES ASSUME NEW i \in 1..(n - 1), NEW j \in 1..(n - 1), i < j
               PROVE  points'[i].at < points'[j].at
    BY <1>5 DEF InOrder
  <2>1. i + 1 < j + 1 /\ i + 1 \in DOMAIN points /\ j + 1 \in DOMAIN points
    BY <1>6
  <2> QED BY <1>4, <2>1 DEF FlagsInv, InOrder
<1>9. \A k \in DOMAIN points' : \E j \in DOMAIN observedSoFar : observedSoFar[j] = points'[k]
  BY <1>4, <1>5, <1>6 DEF FlagsInv
<1>10. ASSUME NEW j \in DOMAIN observedSoFar, points' # <<>>, points'[1].at <= observedSoFar[j].at
       PROVE  \E k \in DOMAIN points' : Tells(points', k, observedSoFar[j])
  <2>1. n - 1 > 0
    BY <1>2, <1>4, <1>10, EmptySeq
  <2>2. 1 \in 1..(n - 1) /\ 2 \in DOMAIN points /\ 1 \in DOMAIN points /\ points'[1] = points[2]
    BY <1>2, <1>4, <2>1, FlagsTypes
  <2>3. points[1].at < points[2].at
    BY <2>2 DEF FlagsInv, InOrder
  <2>4. points[1].at <= observedSoFar[j].at
    BY <1>10, <2>2, <2>3, FlagsTypes
  <2>5. PICK k \in DOMAIN points : Tells(points, k, observedSoFar[j])
    BY <1>1, <2>4 DEF FlagsInv
  <2>6. 2 <= k
    BY <1>10, <2>2, <2>5 DEF Tells
  <2>7. k - 1 \in 1..(n - 1) /\ k = (k - 1) + 1 /\ k \in Nat
    BY <1>2, <2>5, <2>6, FlagsTypes
  <2>8. points'[k - 1] = points[k]
    BY <1>4, <2>7
  <2>9. \A l \in 1..(n - 1) : points'[l].at <= observedSoFar[j].at => l <= k - 1
    <3> SUFFICES ASSUME NEW l \in 1..(n - 1), points'[l].at <= observedSoFar[j].at PROVE l <= k - 1
      OBVIOUS
    <3>1. l + 1 <= k
      BY <1>4, <1>6, <2>5 DEF Tells
    <3> QED BY <2>7, <3>1
  <2> QED BY <1>5, <2>5, <2>7, <2>8, <2>9 DEF Tells
<1> QED BY <1>1, <1>7, <1>8, <1>9, <1>10 DEF FlagsInv

LEMMA FlagsStep == FlagsInv /\ [FlagsNext]_flagVars => FlagsInv'
<1> SUFFICES ASSUME FlagsInv, [FlagsNext]_flagVars PROVE FlagsInv'
  OBVIOUS
<1>1. CASE TimeGoesOn
  <2>1. minute' \in 0..MaxClock /\ minute' = minute + 1
        /\ UNCHANGED <<observedSoFar, points, lastChecked, tags>>
    BY <1>1, FlagsAssumption DEF TimeGoesOn, FlagsInv, FlagsTypeOK
  <2>2. lastChecked' <= minute'
    BY <2>1, FlagsTypes DEF FlagsInv
  <2> QED BY <2>1, <2>2 DEF FlagsInv, FlagsTypeOK
<1>2. CASE TagsUpdated
  <2>1. tags' \in [Attributes -> BOOLEAN]
    BY <1>2 DEF TagsUpdated, TagsNow, HasChange
  <2> QED BY <1>2, <2>1 DEF TagsUpdated, FlagsInv, FlagsTypeOK
<1>3. CASE UNCHANGED flagVars
  BY <1>3 DEF flagVars, FlagsInv, FlagsTypeOK
<1> QED BY <1>1, <1>2, <1>3, ObservesKeeps, OldestGoesKeeps DEF FlagsNext

\* The kept records tell what every observation since the oldest of them said, each from its
\* change to the next one (_save_changed_records): the inductive invariant.
THEOREM FlagsInvariant == FlagsSpec => []FlagsInv
BY FlagsInitInv, FlagsStep, PTL DEF FlagsSpec

\* What is remembered.
LEMMA RememberedIs ==
  ASSUME FlagsInv, points # <<>>
  PROVE  \E f \in DOMAIN observedSoFar :
           /\ observedSoFar[f] = points[1]
           /\ Remembered \in Seq(Observation)
           /\ Len(Remembered) = Len(observedSoFar) - f + 1
           /\ DOMAIN Remembered = 1..Len(Remembered)
           /\ \A j \in DOMAIN Remembered :
                /\ f + j - 1 \in f..Len(observedSoFar)
                /\ Remembered[j] = observedSoFar[f + j - 1]
<1> DEFINE f == CHOOSE i \in DOMAIN observedSoFar : observedSoFar[i] = Head(points)
<1>1. 1 \in DOMAIN points
  BY FlagsTypes
<1>2. Head(points) = points[1]
  BY FlagsTypes, HeadTailProperties
<1>3. \E i \in DOMAIN observedSoFar : observedSoFar[i] = Head(points)
  BY <1>1, <1>2 DEF FlagsInv
<1>4. f \in DOMAIN observedSoFar /\ observedSoFar[f] = points[1]
  BY <1>2, <1>3
<1>5. Remembered = SubSeq(observedSoFar, f, Len(observedSoFar))
  BY DEF Remembered
<1> HIDE DEF f
<1>6. \A i \in f..Len(observedSoFar) : observedSoFar[i] \in Observation
  BY <1>4, FlagsTypes
<1>7. /\ Remembered \in Seq(Observation)
      /\ Len(Remembered) = Len(observedSoFar) - f + 1
      /\ \A j \in 1..(Len(observedSoFar) - f + 1) : Remembered[j] = observedSoFar[f + j - 1]
  BY <1>4, <1>5, <1>6, FlagsTypes, SubSeqProperties
<1>8. DOMAIN Remembered = 1..Len(Remembered)
  BY <1>7, LenProperties
<1>9. \A j \in 1..(Len(observedSoFar) - f + 1) : f + j - 1 \in f..Len(observedSoFar)
  BY <1>4, FlagsTypes
<1> QED BY <1>4, <1>7, <1>8, <1>9

\* The records are a condensed form of it.
LEMMA PointsCondense ==
  ASSUME FlagsInv, points # <<>>
  PROVE  InOrder(Remembered) /\ Condenses(points, Remembered)
<1>1. PICK f \in DOMAIN observedSoFar :
        /\ observedSoFar[f] = points[1]
        /\ Len(Remembered) = Len(observedSoFar) - f + 1
        /\ DOMAIN Remembered = 1..Len(Remembered)
        /\ \A j \in DOMAIN Remembered :
             /\ f + j - 1 \in f..Len(observedSoFar)
             /\ Remembered[j] = observedSoFar[f + j - 1]
  BY RememberedIs
<1>2. f \in Nat /\ f > 0
  BY <1>1, FlagsTypes
<1>3. \A j \in DOMAIN Remembered : f + j - 1 \in DOMAIN observedSoFar /\ j \in Nat
  BY <1>1, <1>2, FlagsTypes
<1>4. InOrder(Remembered)
  <2> SUFFICES ASSUME NEW i \in DOMAIN Remembered, NEW j \in DOMAIN Remembered, i < j
               PROVE  Remembered[i].at < Remembered[j].at
    BY DEF InOrder
  <2>1. f + i - 1 < f + j - 1
    BY <1>2, <1>3
  <2> QED BY <1>1, <1>3, <2>1 DEF FlagsInv, InOrder
<1>5. ASSUME NEW k \in DOMAIN points PROVE \E j \in DOMAIN Remembered : Remembered[j] = points[k]
  <2>1. PICK i \in DOMAIN observedSoFar : observedSoFar[i] = points[k]
    BY DEF FlagsInv
  <2>2. points[1].at <= points[k].at
    <3>1. 1 \in DOMAIN points /\ (k = 1 \/ 1 < k)
      BY FlagsTypes
    <3> QED BY <3>1, FlagsTypes DEF FlagsInv, InOrder
  <2>3. ~(i < f)
    <3>1. observedSoFar[f].at \in Nat /\ observedSoFar[i].at \in Nat
      BY <1>1, <2>1, FlagsTypes
    <3>2. i < f => observedSoFar[i].at < observedSoFar[f].at
      BY <1>1, <2>1 DEF FlagsInv, InOrder
    <3> QED BY <1>1, <2>1, <2>2, <3>1, <3>2
  <2>4. i - f + 1 \in DOMAIN Remembered /\ f + (i - f + 1) - 1 = i
    BY <1>1, <1>2, <2>1, <2>3, FlagsTypes
  <2> QED BY <1>1, <2>1, <2>4
<1>6. ASSUME NEW j \in DOMAIN Remembered
      PROVE  \E k \in DOMAIN points : Tells(points, k, Remembered[j])
  <2> DEFINE i == f + j - 1
  <2>1. i \in DOMAIN observedSoFar /\ Remembered[j] = observedSoFar[i] /\ (i = f \/ f < i)
    BY <1>1, <1>2, <1>3
  <2> HIDE DEF i
  <2>2. points[1].at <= observedSoFar[i].at
    <3>1. observedSoFar[f].at \in Nat /\ observedSoFar[i].at \in Nat
      BY <1>1, <2>1, FlagsTypes
    <3>2. f < i => observedSoFar[f].at < observedSoFar[i].at
      BY <1>1, <2>1 DEF FlagsInv, InOrder
    <3> QED BY <1>1, <2>1, <3>1, <3>2
  <2> QED BY <2>1, <2>2 DEF FlagsInv
<1> QED BY <1>4, <1>5, <1>6 DEF Condenses

LEMMA TagsAlike ==
  ASSUME FlagsInv, NEW a \in Attributes
  PROVE  HasChange(a, points) = HasChange(a, Remembered)
<1>1. CASE points = <<>>
  BY <1>1 DEF Remembered
<1>2. CASE points # <<>>
  <2>1. Remembered \in Seq(Observation)
    BY <1>2, RememberedIs
  <2>2. InOrder(points) /\ points \in Seq(Observation)
    BY FlagsTypes DEF FlagsInv
  <2> QED BY <1>2, <2>1, <2>2, PointsCondense, ChangesAlike
<1> QED BY <1>1, <1>2

LEMMA ReadsBack == FlagsInv => TimelineReadsBack
<1> SUFFICES ASSUME FlagsInv PROVE TimelineReadsBack
  OBVIOUS
<1>1. ASSUME NEW a \in Attributes, NEW o \in Range(Remembered)
      PROVE  LET page == TimelinePage(a)
                 upTo == {i \in DOMAIN page.timeline : page.timeline[i].at <= o.at}
             IN  /\ o.at <= page.until
                 /\ \E i \in upTo : /\ \A j \in upTo : i <= j
                                  /\ page.timeline[i].value = o.of[a]
  <2> DEFINE n == Len(points)
             entries == [i \in DOMAIN points |-> [at |-> points[i].at, value |-> points[i].of[a]]]
             page == TimelinePage(a)
             upTo == {i \in DOMAIN page.timeline : page.timeline[i].at <= o.at}
  <2>1. PICK m \in DOMAIN Remembered : o = Remembered[m]
    BY DEF Range
  <2>2. points # <<>>
    BY <2>1, EmptySeq DEF Remembered
  <2>3. PICK k \in DOMAIN points : Tells(points, k, o)
    BY <2>1, <2>2, PointsCondense DEF Condenses
  <2>4. o.at <= lastChecked
    <3>1. PICK f \in DOMAIN observedSoFar : \A j \in DOMAIN Remembered :
            f + j - 1 \in f..Len(observedSoFar) /\ Remembered[j] = observedSoFar[f + j - 1]
      BY <2>2, RememberedIs
    <3>2. f + m - 1 \in DOMAIN observedSoFar
      BY <3>1, FlagsTypes
    <3> QED BY <2>1, <3>1, <3>2 DEF FlagsInv
  <2>5. n \in Nat /\ DOMAIN points = 1..n /\ k \in 1..n
    BY <2>3, FlagsTypes
  <2>6. Len(entries) = n /\ DOMAIN entries = 1..n
    BY <2>5
  <2>7. page.timeline = [i \in 1..n |-> entries[n - i + 1]] /\ page.until = lastChecked
    BY <2>6 DEF TimelinePage, Timeline, Reverse
  <2>8. \A i \in 1..n : n - i + 1 \in 1..n
    BY <2>5
  <2>9. \A i \in 1..n : /\ page.timeline[i].at = points[n - i + 1].at
                        /\ page.timeline[i].value = points[n - i + 1].of[a]
    BY <2>5, <2>7, <2>8
  <2> HIDE DEF page, entries
  <2> DEFINE i == n - k + 1
  <2>10. i \in 1..n /\ n - i + 1 = k
    BY <2>5
  <2>11. i \in upTo /\ page.timeline[i].value = o.of[a]
    BY <2>3, <2>7, <2>9, <2>10 DEF Tells
  <2>12. ASSUME NEW j \in upTo PROVE i <= j
    <3>1. j \in 1..n /\ points[n - j + 1].at <= o.at
      BY <2>7, <2>9, <2>12
    <3>2. n - j + 1 <= k
      BY <2>3, <2>5, <2>8, <3>1 DEF Tells
    <3> QED BY <2>5, <3>1, <3>2
  <2> QED BY <2>4, <2>7, <2>11, <2>12 DEF page
<1>2. ASSUME points # <<>> PROVE CaseDetail.snapshot = Last(observedSoFar).of
  BY <1>2, NewestTold DEF CaseDetail, Last
<1> QED BY <1>1, <1>2 DEF TimelineReadsBack

\* Tags, timelines and the snapshot of a case say what all observations of its client said
\* since the oldest record that is kept, for any attributes, values and any history of
\* rounds and retention (_detect_change, get_change_timeline, get_case_detail).
THEOREM ChangesAlwaysAsObserved == FlagsSpec => ChangesAsObserved
<1>1. FlagsInv /\ FlagsInv' /\ [FlagsNext]_flagVars => [TagsAsObserved /\ TimelineReadsBack']_flagVars
  <2> SUFFICES ASSUME FlagsInv, FlagsInv', [FlagsNext]_flagVars
               PROVE  TagsAsObserved /\ TimelineReadsBack'
    OBVIOUS
  <2>1. TimelineReadsBack'
    BY ReadsBack, PTL
  <2>2. TagsAsObserved
    <3> SUFFICES ASSUME tags' # tags PROVE tags' = [a \in Attributes |-> HasChange(a, Remembered)]
      BY DEF TagsAsObserved
    <3>1. tags' = [a \in Attributes |-> HasChange(a, points)]
      BY DEF FlagsNext, Observes, TimeGoesOn, OldestGoes, TagsUpdated, TagsNow, flagVars
    <3> QED BY <3>1, TagsAlike
  <2> QED BY <2>1, <2>2
<1> QED BY <1>1, FlagsInvariant, PTL DEF FlagsSpec, ChangesAsObserved

-----------------------------------------------------------------------------
(* Sets put in order. *)

\* The pairs order the set: they never loop and tell any two apart.
Orders(less, S) ==
  /\ \A x \in S : <<x, x>> \notin less
  /\ \A x, y, z \in S : <<x, y>> \in less /\ <<y, z>> \in less => <<x, z>> \in less
  /\ \A x, y \in S : x = y \/ <<x, y>> \in less \/ <<y, x>> \in less

\* A sequence in order has each of the set at its own place, and the places go with the pairs.
LEMMA SortedInOrder ==
  ASSUME NEW S, IsFiniteSet(S), NEW less, Orders(less, S)
  PROVE  /\ Cardinality(S) \in Nat
         /\ InOrderOf(S, less) \in [1..Cardinality(S) -> S]
         /\ PlaceIn(S, less) \in [S -> 1..Cardinality(S)]
         /\ \A x \in S : InOrderOf(S, less)[PlaceIn(S, less)[x]] = x
         /\ \A i \in 1..Cardinality(S) : PlaceIn(S, less)[InOrderOf(S, less)[i]] = i
         /\ \A x, y \in S : <<x, y>> \in less <=> PlaceIn(S, less)[x] < PlaceIn(S, less)[y]
<1> DEFINE n == Cardinality(S)  p == PlaceIn(S, less)  s == InOrderOf(S, less)
           B(x) == Preceding(S, less, x)
<1>1. n \in Nat
  BY FS_CardinalityType
<1>2. \A x \in S : B(x) \in SUBSET S /\ IsFiniteSet(B(x)) /\ Cardinality(B(x)) \in Nat
  <2> SUFFICES ASSUME NEW x \in S
               PROVE  B(x) \in SUBSET S /\ IsFiniteSet(B(x)) /\ Cardinality(B(x)) \in Nat
    OBVIOUS
  <2>1. B(x) \in SUBSET S
    BY DEF Preceding
  <2> QED BY <2>1, FS_Subset, FS_CardinalityType
<1>3. \A x \in S : p[x] = Cardinality(B(x)) + 1
  BY DEF PlaceIn
<1>4. p = [x \in S |-> Cardinality(B(x)) + 1]
  BY DEF PlaceIn
<1>5. ASSUME NEW x \in S PROVE Cardinality(B(x)) < n
  <2>1. x \notin B(x)
    BY DEF Preceding, Orders
  <2>2. Cardinality(B(x)) <= n /\ B(x) # S
    BY <1>2, <2>1, FS_Subset
  <2> HIDE DEF B
  <2>3. Cardinality(B(x)) # n
    BY <1>2, <2>2, FS_Subset
  <2> QED BY <1>1, <1>2, <2>2, <2>3
<1>6. ASSUME NEW x \in S, NEW y \in S, <<x, y>> \in less PROVE p[x] < p[y]
  <2>1. B(x) \in SUBSET B(y) /\ x \in B(y) /\ x \notin B(x)
    BY <1>6 DEF Preceding, Orders
  <2> HIDE DEF B
  <2>2. Cardinality(B(x)) <= Cardinality(B(y)) /\ Cardinality(B(x)) # Cardinality(B(y))
    BY <1>2, <2>1, FS_Subset
  <2> QED BY <1>2, <1>3, <2>2
<1> HIDE DEF B
<1>7. p \in [S -> 1..n]
  <2>1. \A x \in S : Cardinality(B(x)) + 1 \in 1..n
    BY <1>1, <1>2, <1>5
  <2> QED BY <1>4, <2>1
<1>8. \A x, y \in S : x = y \/ p[x] < p[y] \/ p[y] < p[x]
  BY <1>6 DEF Orders
<1> HIDE DEF p
<1>9. \A x, y \in S : p[x] = p[y] => x = y
  <2>1. \A x \in S : p[x] \in Int
    BY <1>7
  <2> QED BY <1>8, <2>1
<1>10. p \in Injection(S, 1..n)
  BY <1>7, <1>9, Fun_IsInj
<1>11. IsFiniteSet(1..n) /\ Cardinality(1..n) = n
  <2>1. 1 \in Int /\ n \in Int
    BY <1>1
  <2>2. IsFiniteSet(1..n) /\ Cardinality(1..n) = IF 1 > n THEN 0 ELSE n - 1 + 1
    BY <2>1, FS_Interval
  <2> QED BY <1>1, <2>2
<1>12. p \in Surjection(S, 1..n)
  BY <1>10, <1>11, FS_Injection
<1>13. \A i \in 1..n : \E x \in S : p[x] = i
  BY <1>12, Fun_SurjectionProperties
<1>14. s = [i \in 1..n |-> CHOOSE x \in S : p[x] = i]
  BY DEF InOrderOf, p
<1> HIDE DEF s
<1>15. \A i \in 1..n : s[i] \in S /\ p[s[i]] = i
  BY <1>13, <1>14
<1>16. \A x \in S : s[p[x]] = x
  BY <1>7, <1>9, <1>15
<1>17. s \in [1..n -> S]
  BY <1>14, <1>15
<1>18. \A x, y \in S : <<x, y>> \in less <=> p[x] < p[y]
  <2> SUFFICES ASSUME NEW x \in S, NEW y \in S, p[x] < p[y] PROVE <<x, y>> \in less
    BY <1>6
  <2>1. p[x] \in Int /\ p[y] \in Int
    BY <1>7
  <2>2. x # y /\ ~(p[y] < p[x])
    BY <2>1
  <2>3. ~(<<y, x>> \in less)
    BY <1>6, <2>2
  <2> QED BY <2>2, <2>3 DEF Orders
<1> QED BY <1>1, <1>7, <1>15, <1>16, <1>17, <1>18 DEF p, s

-----------------------------------------------------------------------------
(* Checkpoints. *)

\* Rounds have times of their own, and a round has one record of a MAC at most.
RecordsOnce ==
  /\ \A r \in found : r.at < tick
  /\ \A r, s \in found : r.mac = s.mac /\ r.at = s.at => r = s

LEMMA RecordsOnceStep ==
  ASSUME ComparisonsTypeOK, RecordsOnce, [ComparisonsNext]_comparisonVars
  PROVE  RecordsOnce'
<1>0. /\ tick \in Nat /\ \A r \in found : r.at \in Nat
  BY ComparisonAssumption DEF ComparisonsTypeOK, Record
<1>1. ASSUME NEW macs \in SUBSET Terminals, NEW see \in [Terminals -> Sightings], Round(macs, see)
      PROVE  RecordsOnce'
  <2> DEFINE new == IF listed = {} THEN {[mac |-> Marker, at |-> tick, seen |-> NoRecord]}
                    ELSE {[mac |-> m, at |-> tick, seen |-> see[m]] : m \in macs \cap listed}
  <2>1. tick' = tick + 1 /\ \A r \in found' : r \in found \/ r \in new
    BY <1>1 DEF Round
  <2>2. \A r \in new : r.at = tick
    OBVIOUS
  <2>3. \A r, s \in new : r.mac = s.mac => r = s
    OBVIOUS
  <2> HIDE DEF new
  <2>4. \A r \in found' : r.at < tick'
    BY <1>0, <2>1, <2>2 DEF RecordsOnce
  <2>5. ASSUME NEW r \in found', NEW s \in found', r.mac = s.mac, r.at = s.at PROVE r = s
    <3>1. \A q \in found : q.at # tick
      BY <1>0 DEF RecordsOnce
    <3>2. (r \in found /\ s \in found) \/ (r \in new /\ s \in new)
      BY <2>1, <2>2, <2>5, <3>1
    <3> QED BY <2>3, <2>5, <3>2 DEF RecordsOnce
  <2> QED BY <2>4, <2>5 DEF RecordsOnce
<1>2. ASSUME NEW e \in Regenerators,
             \/ \E macs \in SUBSET Terminals : EditsList(e, macs)
             \/ \E m \in Terminals : RemovesOne(e, m)
             \/ ReadsLists(e) \/ Saves(e) \/ RegenerationFails(e)
      PROVE  RecordsOnce'
  BY <1>2 DEF EditsList, RemovesOne, ReadsLists, Saves, RegenerationFails, RecordsOnce
<1>3. CASE UNCHANGED comparisonVars
  BY <1>3 DEF comparisonVars, RecordsOnce
<1> QED BY <1>1, <1>2, <1>3 DEF ComparisonsNext

\* The records of a MAC up to a time.
UpTo(m, t) == {r \in found : r.mac = m /\ r.at <= t}
Earlier(rs) == {p \in rs \X rs : p[1].at < p[2].at}

LEMMA RecordsAreOrdered ==
  ASSUME ComparisonsTypeOK, RecordsOnce, NEW m, NEW t
  PROVE  /\ IsFiniteSet(UpTo(m, t)) /\ Orders(Earlier(UpTo(m, t)), UpTo(m, t))
         /\ \A r \in UpTo(m, t) : r.at \in 0..MaxTick
<1> DEFINE rs == UpTo(m, t)  f == [r \in rs |-> r.at]
<1>1. \A r \in rs : r.at \in 0..MaxTick /\ r.at \in Nat
  BY ComparisonAssumption DEF ComparisonsTypeOK, Record, UpTo
<1>2. \A r, s \in rs : r.at = s.at => r = s
  BY DEF UpTo, RecordsOnce
<1> HIDE DEF rs
<1>3. f \in Injection(rs, 0..MaxTick)
  BY <1>1, <1>2, Fun_IsInj
<1>4. IsFiniteSet(0..MaxTick)
  BY ComparisonAssumption, FS_Interval
<1>5. IsFiniteSet(rs)
  BY <1>3, <1>4, FS_Injection
<1>6. \A x, y \in rs : <<x, y>> \in Earlier(rs) <=> x.at < y.at
  BY DEF Earlier
<1>7. Orders(Earlier(rs), rs)
  BY <1>1, <1>2, <1>6 DEF Orders
<1> QED BY <1>1, <1>5, <1>7 DEF rs

\* The newest record of a MAC at a time is unique.
LEMMA NewestIs ==
  ASSUME ComparisonsTypeOK, RecordsOnce, NEW m, NEW t
  PROVE  /\ UpTo(m, t) = {} => Newest(m, t) = NoRecord
         /\ \A x \in UpTo(m, t) :
              (\A r \in UpTo(m, t) : r.at <= x.at) => Newest(m, t) = x.seen
<1> DEFINE rs == UpTo(m, t)  new == CHOOSE r \in rs : \A s \in rs : s.at <= r.at
<1>1. Newest(m, t) = IF rs = {} THEN NoRecord ELSE new.seen
  BY DEF Newest, UpTo
<1>2. ASSUME NEW x \in rs, \A r \in rs : r.at <= x.at PROVE x = new
  <2> HIDE DEF rs
  <2>1. new \in rs /\ \A s \in rs : s.at <= new.at
    BY <1>2
  <2> HIDE DEF new
  <2>2. \A r \in rs : r.at \in Nat
    BY ComparisonAssumption, RecordsAreOrdered DEF rs
  <2>3. x.at = new.at
    BY <1>2, <2>1, <2>2
  <2> QED BY <1>2, <2>1, <2>3 DEF rs, UpTo, RecordsOnce
<1> QED BY <1>1, <1>2

\* The bisection finds it among the records up to a later time.
LEMMA BisectFindsNewest ==
  ASSUME ComparisonsTypeOK, RecordsOnce, NEW m, NEW t \in Nat, NEW u \in Nat, t <= u
  PROVE  LET s == Ascending(m, u)  i == Bisect(s, t)
         IN  Newest(m, t) = IF i = 0 THEN NoRecord ELSE s[i].seen
<1> DEFINE rs == UpTo(m, u)  less == Earlier(rs)  n == Cardinality(rs)
           s == Ascending(m, u)  p == PlaceIn(rs, less)
           I == {i \in DOMAIN s : s[i].at <= t}
<1>1. IsFiniteSet(rs) /\ Orders(less, rs) /\ \A r \in rs : r.at \in Nat
  BY ComparisonAssumption, RecordsAreOrdered
<1>2. s = InOrderOf(rs, less)
  BY DEF Ascending, UpTo, Earlier
<1>3. Bisect(s, t) = Cardinality(I)
  BY DEF Bisect
<1>4. UpTo(m, t) = {r \in rs : r.at <= t}
  <2>1. \A r \in found : r.at \in Nat
    BY ComparisonAssumption DEF ComparisonsTypeOK, Record
  <2> QED BY <2>1 DEF UpTo
<1>5. \A x, y \in rs : <<x, y>> \in less <=> x.at < y.at
  BY DEF Earlier
<1> HIDE DEF rs, less, s, p
<1>6. /\ n \in Nat /\ s \in [1..n -> rs] /\ p \in [rs -> 1..n]
      /\ \A x \in rs : s[p[x]] = x
      /\ \A i \in 1..n : p[s[i]] = i
      /\ \A x, y \in rs : x.at < y.at <=> p[x] < p[y]
  BY <1>1, <1>2, <1>5, SortedInOrder DEF p
<1>7. I \in SUBSET (1..n) /\ \A i \in 1..n : i \in I <=> s[i].at <= t
  BY <1>6
<1> HIDE DEF n, I
<1>8. CASE I = {}
  <2>1. UpTo(m, t) = {}
    BY <1>4, <1>6, <1>7, <1>8
  <2>2. Bisect(s, t) = 0
    BY <1>3, <1>8, FS_EmptySet
  <2> QED BY <2>1, <2>2, NewestIs DEF s
<1>9. CASE I # {}
  <2>1. PICK k \in I : \A i \in I : i <= k
    BY <1>6, <1>7, <1>9, GreatestNumber
  <2>2. k \in 1..n /\ s[k] \in rs /\ s[k].at <= t /\ s[k].at \in Nat /\ p[s[k]] = k
    BY <1>1, <1>6, <1>7
  <2>3. ASSUME NEW i \in 1..k PROVE i \in I
    <3>1. i \in 1..n /\ s[i] \in rs /\ s[i].at \in Nat /\ p[s[i]] = i
      BY <1>1, <1>6, <2>2
    <3>2. ~(p[s[k]] < p[s[i]])
      BY <2>2, <3>1
    <3>3. ~(s[k].at < s[i].at)
      BY <1>6, <2>2, <3>1, <3>2
    <3>4. s[i].at <= t
      BY <2>2, <3>1, <3>3
    <3> QED BY <1>7, <3>1, <3>4
  <2>4. I = 1..k
    <3>1. ASSUME NEW i \in I PROVE i \in 1..k
      <4>1. i \in 1..n /\ i <= k
        BY <1>7, <2>1
      <4> QED BY <1>6, <2>2, <4>1
    <3>2. \A i : i \in I <=> i \in 1..k
      BY ONLY <2>3, <3>1, Zenon
    <3> QED BY ONLY <3>2, Zenon
  <2>5. Bisect(s, t) = k
    BY <1>3, <1>6, <2>2, <2>4, FS_Interval
  <2>6. s[k] \in UpTo(m, t)
    BY <1>4, <2>2
  <2>7. ASSUME NEW r \in UpTo(m, t) PROVE r.at <= s[k].at
    <3>1. r \in rs /\ r.at <= t /\ r.at \in Nat /\ p[r] \in 1..n /\ s[p[r]] = r
      BY <1>1, <1>4, <1>6
    <3>2. p[r] <= k
      BY <1>7, <2>1, <3>1
    <3>3. ~(p[s[k]] < p[r])
      BY <1>6, <2>2, <3>1, <3>2
    <3>4. ~(s[k].at < r.at)
      BY <1>6, <2>2, <3>1, <3>3
    <3> QED BY <2>2, <3>1, <3>4
  <2>8. Newest(m, t) = s[k].seen
    BY <2>6, <2>7, NewestIs
  <2>9. k # 0
    BY <1>6, <2>2
  <2> QED BY <2>5, <2>8, <2>9 DEF s
<1> QED BY <1>8, <1>9

-----------------------------------------------------------------------------
(* The pages of a checkpoint. *)

\* The last checkpoint is not before any of them.
LEMMA LatestIs ==
  ASSUME ComparisonsTypeOK, NEW t \in ValidCheckpoints
  PROVE  t \in Nat /\ Latest(ValidCheckpoints) \in Nat /\ t <= Latest(ValidCheckpoints)
<1> DEFINE T == ValidCheckpoints
<1>1. \A r \in found : r.at \in 0..MaxTick
  BY DEF ComparisonsTypeOK, Record
<1>2. T \subseteq TimePoints
  BY DEF ValidCheckpoints, Checkpoints
<1>3. T \subseteq 0..MaxTick
  BY <1>1, <1>2 DEF TimePoints
<1> HIDE DEF T
<1> DEFINE U == {u + 1 : u \in T}
<1>4. U \in SUBSET (1..(MaxTick + 1)) /\ t + 1 \in U /\ MaxTick + 1 \in Nat
  BY <1>3, ComparisonAssumption DEF T
<1>5. U # {}
  BY <1>4
<1> HIDE DEF U
<1>6. PICK x \in U : \A y \in U : y <= x
  BY <1>4, <1>5, GreatestNumber
<1>7. PICK u \in T : x = u + 1
  BY DEF U
<1>8. \A v \in T : v + 1 <= u + 1
  BY <1>6, <1>7 DEF U
<1>9. \A v \in T : v <= u
  BY <1>3, <1>8, ComparisonAssumption
<1>10. Latest(T) \in T /\ \A v \in T : v <= Latest(T)
  BY <1>9 DEF Latest
<1>11. t \in T
  BY DEF T
<1>12. t \in Nat /\ Latest(T) \in Nat /\ t <= Latest(T)
  <2>1. MaxTick \in Nat
    BY ComparisonAssumption
  <2>2. t \in 0..MaxTick /\ Latest(T) \in 0..MaxTick
    BY <1>3, <1>10, <1>11
  <2>3. t <= Latest(T)
    BY <1>10, <1>11
  <2> QED BY ONLY <2>1, <2>2, <2>3
<1> QED BY <1>12 DEF T

\* Bisecting the records of each MAC compares a checkpoint as its own page does.
LEMMA SameComparison ==
  ASSUME ComparisonsTypeOK, RecordsOnce, NEW t \in ValidCheckpoints
  PROVE  AllDiffs(ValidCheckpoints)[t] = Diff(t)
<1> DEFINE u == Latest(ValidCheckpoints)
           old == [m \in Terminals |-> LET s == Ascending(m, u)
                                           i == Bisect(s, t)
                                       IN  IF i = 0 THEN NoRecord ELSE s[i].seen]
<1>1. t \in Nat /\ u \in Nat /\ t <= u
  BY LatestIs
<1>2. AllDiffs(ValidCheckpoints)[t] = RowsOf(old, LaterAt(Current))
  BY DEF AllDiffs
<1> HIDE DEF u
<1>3. \A m \in Terminals : old[m] = SeenAt(t)[m]
  BY <1>1, BisectFindsNewest DEF SeenAt
<1> HIDE DEF old
<1>4. ComparedMacs \subseteq Terminals
  BY RecordedType DEF ComparisonsTypeOK, ComparedMacs
<1>5. RowsOf(old, LaterAt(Current)) = RowsOf(SeenAt(t), LaterAt(Current))
  BY <1>3, <1>4 DEF RowsOf
<1> QED BY <1>2, <1>5 DEF Diff

LEMMA RowsAreFinite ==
  ASSUME NEW rows \in SUBSET Compared, \A r, s \in rows : r.mac = s.mac => r = s
  PROVE  /\ IsFiniteSet(rows) /\ IsFiniteSet({r.mac : r \in rows})
         /\ Cardinality({r.mac : r \in rows}) = Cardinality(rows)
<1> DEFINE macs == {r.mac : r \in rows}  f == [r \in rows |-> r.mac]
<1>1. macs \in SUBSET Terminals
  BY DEF Compared
<1>2. IsFiniteSet(macs)
  BY <1>1, FS_Subset, ComparisonAssumption
<1>3. f \in [rows -> macs] /\ \A r, s \in rows : f[r] = f[s] => r = s
  OBVIOUS
<1>4. \A m \in macs : \E r \in rows : f[r] = m
  OBVIOUS
<1> HIDE DEF macs, f
<1>5. f \in Injection(rows, macs) /\ f \in Surjection(rows, macs)
  BY <1>3, <1>4, Fun_IsInj, Fun_IsSurj
<1>6. IsFiniteSet(rows) /\ Cardinality(rows) = Cardinality(macs)
  BY <1>2, <1>5, FS_Injection
<1> QED BY <1>2, <1>6 DEF macs

\* The issues on a card are those of the page, when every member of a category is compared.
LEMMA IssuesAlike ==
  ASSUME NEW rows \in SUBSET Compared, \A r, s \in rows : r.mac = s.mac => r = s,
         Members \subseteq {r.mac : r \in rows}
  PROVE  /\ CardsOf(rows).all.issues = Tally(rows).issues
         /\ CardsOf(rows).grouped.issues = Tally(rows).grouped
<1> DEFINE issues == {r \in rows : r.verdict # "same"}
           grouped == {r \in issues : r.mac \in Members}
           Of(macs) == {r.mac : r \in {q \in rows : q.mac \in macs /\ q.verdict \in {"undetected", "changed"}}}
           missing(macs) == (macs \cap Members) \ {r.mac : r \in rows}
<1>1. /\ CardsOf(rows).all.issues = Cardinality(Of(Terminals) \cup missing(Terminals))
      /\ CardsOf(rows).grouped.issues = Cardinality(Of(Members) \cup missing(Members))
      /\ Tally(rows).issues = Cardinality(issues)
      /\ Tally(rows).grouped = Cardinality(grouped)
  BY DEF CardsOf, CategoryCard, Tally
<1>2. missing(Terminals) = {} /\ missing(Members) = {}
  OBVIOUS
<1>3. \A r \in rows : r.mac \in Terminals /\ r.verdict \in {"undetected", "changed", "same"}
  BY DEF Compared
<1>4. Of(Terminals) = {r.mac : r \in issues} /\ Of(Members) = {r.mac : r \in grouped}
  BY <1>3
<1> HIDE DEF Of, missing
<1>5. Cardinality({r.mac : r \in issues}) = Cardinality(issues)
  BY RowsAreFinite
<1>6. Cardinality({r.mac : r \in grouped}) = Cardinality(grouped)
  BY RowsAreFinite
<1> QED BY <1>1, <1>2, <1>4, <1>5, <1>6

\* The card of all MACs has those of categories and the others.
LEMMA CardsAddUp ==
  ASSUME NEW rows \in SUBSET Compared
  PROVE  CardsOf(rows).all.total = CardsOf(rows).grouped.total + CardsOf(rows).rest.total
<1> DEFINE M == {r.mac : r \in rows}  others == Terminals \ Members
           Of(macs) == {r.mac : r \in {q \in rows : q.mac \in macs
                                          /\ q.verdict \in {"undetected", "changed", "same"}}}
           missing(macs) == (macs \cap Members) \ M
<1>1. /\ CardsOf(rows).all.total = Cardinality(Of(Terminals) \cup missing(Terminals))
      /\ CardsOf(rows).grouped.total = Cardinality(Of(Members) \cup missing(Members))
      /\ CardsOf(rows).rest.total = Cardinality(Of(others) \cup missing(others))
  BY DEF CardsOf, CategoryCard
<1>2. \A r \in rows : r.mac \in Terminals /\ r.verdict \in {"undetected", "changed", "same"}
  BY DEF Compared
<1>3. \A macs : Of(macs) = M \cap macs
  BY <1>2
<1>4. M \subseteq Terminals /\ Members \subseteq Terminals
  BY <1>2, ComparisonAssumption
<1> HIDE DEF Of, M
<1>5. /\ Of(Terminals) \cup missing(Terminals) = Members \cup (M \ Members)
      /\ Of(Members) \cup missing(Members) = Members
      /\ Of(others) \cup missing(others) = M \ Members
  BY <1>3, <1>4
<1> HIDE DEF missing, others
<1>6. IsFiniteSet(Members) /\ IsFiniteSet(M \ Members)
  BY <1>4, FS_Subset, ComparisonAssumption
<1>7. Members \cap (M \ Members) = {} /\ Cardinality({}) = 0
  BY FS_EmptySet
<1>8. Cardinality(Members \cup (M \ Members))
        = Cardinality(Members) + Cardinality(M \ Members) - Cardinality({})
  BY <1>6, <1>7, FS_Union
<1>9. Cardinality(Members) \in Nat /\ Cardinality(M \ Members) \in Nat
  BY <1>6, FS_CardinalityType
<1> DEFINE a == Cardinality(Members)  b == Cardinality(M \ Members)
<1>10. Cardinality(Members \cup (M \ Members)) = a + b - 0
  BY <1>7, <1>8
<1>11. Cardinality(Members \cup (M \ Members)) = a + b
  BY <1>9, <1>10
<1>12. /\ CardsOf(rows).all.total = Cardinality(Members \cup (M \ Members))
       /\ CardsOf(rows).grouped.total = a
       /\ CardsOf(rows).rest.total = b
  BY ONLY <1>1, <1>5, Zenon
<1> QED BY ONLY <1>11, <1>12, Zenon

\* Whoever computes the numbers of a checkpoint, for any records, list, members and
\* checkpoints: its own page, the bisection of the summaries, and the cards of the categories
\* (get_diff, get_checkpoint_summaries, get_category_stats).
THEOREM SummariesAlwaysAgree == ComparisonsSpec => []SummariesAgree
<1>1. ComparisonsInit => RecordsOnce
  BY DEF ComparisonsInit, RecordsOnce
<1>2. ComparisonsInv /\ RecordsOnce /\ [ComparisonsNext]_comparisonVars => RecordsOnce'
  BY RecordsOnceStep DEF ComparisonsInv
<1>3. ComparisonsInv /\ RecordsOnce => SummariesAgree
  <2> SUFFICES ASSUME ComparisonsTypeOK, RecordsOnce, NEW t \in ValidCheckpoints
               PROVE  /\ Summaries[t] = DiffPage(t)
                      /\ Members \subseteq ComparedMacs =>
                           /\ CardsAt(t).all.issues = DiffPage(t).issues
                           /\ CardsAt(t).grouped.issues = DiffPage(t).grouped
                      /\ \A cards \in {CardsAt(t), StoredCards} :
                           cards.all.total = cards.grouped.total + cards.rest.total
    BY DEF SummariesAgree, ComparisonsInv
  <2>1. Summaries[t] = DiffPage(t)
    BY SameComparison DEF Summaries, DiffPage
  <2>2. Diff(t) \in SUBSET Compared /\ OneRowEach(Diff(t), ComparedMacs)
    BY RowsAreCompared DEF Diff
  <2>3. ASSUME Members \subseteq ComparedMacs
        PROVE  /\ CardsAt(t).all.issues = DiffPage(t).issues
               /\ CardsAt(t).grouped.issues = DiffPage(t).grouped
    BY <2>2, <2>3, IssuesAlike DEF CardsAt, DiffPage, OneRowEach
  <2>4. CardsAt(t).all.total = CardsAt(t).grouped.total + CardsAt(t).rest.total
    BY <2>2, CardsAddUp DEF CardsAt
  <2>5. {s.row : s \in storedRows} \in SUBSET Compared
    BY DEF ComparisonsTypeOK, Stored
  <2>6. StoredCards.all.total = StoredCards.grouped.total + StoredCards.rest.total
    BY <2>5, CardsAddUp DEF StoredCards
  <2> QED BY <2>1, <2>3, <2>4, <2>6
<1> QED BY <1>1, <1>2, <1>3, ComparisonsInvariant, PTL DEF ComparisonsSpec

-----------------------------------------------------------------------------
(* The case page. *)

\* The cases are finitely many cards, and what is noted is noted of one of them.
NotesInv ==
  /\ noted \in 0..MaxNotes /\ DOMAIN notes \subseteq 1..noted
  /\ \A n \in DOMAIN notes : notes[n] \in Note
  /\ NotesHaveCase
BoardInv ==
  /\ DOMAIN board \subseteq CaseIds /\ IsFiniteSet(DOMAIN board)
  /\ \A c \in DOMAIN board : board[c] \in Card
  /\ NotesInv

LEMMA BoardInitInv == BoardInit => BoardInv
<1> SUFFICES ASSUME BoardInit PROVE BoardInv
  OBVIOUS
<1>1. DOMAIN board = {} /\ DOMAIN notes = {} /\ noted = 0
  BY DEF BoardInit
<1>2. NotesInv
  BY <1>1, BoardAssumption DEF NotesInv, NotesHaveCase
<1> QED BY <1>1, <1>2, FS_EmptySet DEF BoardInv

\* Notes stay what they are when no case goes.
LEMMA NotesStay ==
  ASSUME NotesInv, UNCHANGED <<notes, noted>>, DOMAIN board \subseteq DOMAIN board'
  PROVE  NotesInv'
BY DEF NotesInv, NotesHaveCase, Note

\* The requests of a user about notes.
LEMMA NotesStep ==
  ASSUME BoardInv, NEW who \in Persons, NoteRequests(who)
  PROVE  NotesInv' /\ UNCHANGED board
<1>0. UNCHANGED board
  BY DEF NoteRequests, AddNote, UpdateNote, DeleteNote
<1>n. NotesInv
  BY DEF BoardInv
<1>t. /\ noted \in Nat /\ noted <= MaxNotes /\ MaxNotes \in Nat
      /\ \A n \in DOMAIN notes : n \in Nat /\ 1 <= n /\ n <= noted
  BY <1>n, BoardAssumption DEF NotesInv
<1>1. ASSUME NEW c \in CaseIds, AddNote(c, who) PROVE NotesInv'
  <2> DEFINE n1 == [of |-> c, author |-> who, edited |-> FALSE]
  <2>1. /\ c \in DOMAIN board /\ noted < MaxNotes /\ noted' = noted + 1
        /\ DOMAIN notes' = DOMAIN notes \cup {noted'}
        /\ \A n \in DOMAIN notes' : notes'[n] = IF n = noted' THEN n1 ELSE notes[n]
    BY <1>1 DEF AddNote
  <2>2. n1 \in Note /\ n1.of = c
    BY DEF Note
  <2> HIDE DEF n1
  <2>3. noted' \in Nat /\ noted' <= MaxNotes /\ DOMAIN notes' \subseteq 1..noted'
    BY <1>t, <2>1
  <2>4. \A n \in DOMAIN notes' : notes'[n] \in Note /\ notes'[n].of \in DOMAIN board
    BY <1>n, <2>1, <2>2 DEF NotesInv, NotesHaveCase
  <2> QED BY <1>0, <1>t, <2>3, <2>4 DEF NotesInv, NotesHaveCase
<1>2. ASSUME NEW i \in 1..MaxNotes, UpdateNote(i, who) PROVE NotesInv'
  <2>1. /\ i \in DOMAIN notes /\ UNCHANGED noted
        /\ DOMAIN notes' = DOMAIN notes
        /\ \A n \in DOMAIN notes :
             notes'[n] = IF n = i THEN [notes[i] EXCEPT !.edited = TRUE] ELSE notes[n]
    BY <1>2 DEF UpdateNote, MayEdit
  <2>2. notes[i] \in Note
    BY <1>n, <2>1 DEF NotesInv
  <2>3. /\ [notes[i] EXCEPT !.edited = TRUE] \in Note
        /\ [notes[i] EXCEPT !.edited = TRUE].of = notes[i].of
    BY <2>2 DEF Note
  <2> QED BY <1>0, <1>n, <2>1, <2>3 DEF NotesInv, NotesHaveCase
<1>3. ASSUME NEW i \in 1..MaxNotes, DeleteNote(i, who) PROVE NotesInv'
  <2>1. /\ UNCHANGED noted /\ DOMAIN notes' \subseteq DOMAIN notes
        /\ \A n \in DOMAIN notes' : notes'[n] = notes[n]
    BY <1>3 DEF DeleteNote
  <2> QED BY <1>0, <1>n, <2>1 DEF NotesInv, NotesHaveCase
<1> QED BY <1>0, <1>1, <1>2, <1>3 DEF NoteRequests

LEMMA BoardStep == BoardInv /\ [BoardNext]_boardVars => BoardInv'
<1> SUFFICES ASSUME BoardInv, [BoardNext]_boardVars PROVE BoardInv'
  OBVIOUS
<1>1. ASSUME NEW c \in CaseIds, CardMade(c) PROVE BoardInv'
  <2>1. /\ DOMAIN board' = DOMAIN board \cup {c} /\ UNCHANGED <<notes, noted>>
        /\ \A d \in DOMAIN board' : board'[d] = IF d = c THEN NewCard ELSE board[d]
    BY <1>1 DEF CardMade
  <2>2. NewCard \in Card
    BY BoardAssumption DEF NewCard, Card, CaseStatuses
  <2>3. IsFiniteSet(DOMAIN board')
    BY <2>1, FS_AddElement DEF BoardInv
  <2>4. NotesInv'
    BY <2>1, NotesStay DEF BoardInv
  <2> QED BY <2>1, <2>2, <2>3, <2>4 DEF BoardInv
<1>2. ASSUME NEW c \in CaseIds, CardGone(c) PROVE BoardInv'
  <2>1. /\ DOMAIN board' = DOMAIN board \ {c}
        /\ \A d \in DOMAIN board' : board'[d] = board[d]
    BY <1>2 DEF CardGone
  <2>2. IsFiniteSet(DOMAIN board')
    BY <2>1, FS_RemoveElement DEF BoardInv
  <2>3. /\ DOMAIN notes' = {n \in DOMAIN notes : notes[n].of # c} /\ UNCHANGED noted
        /\ \A n \in DOMAIN notes' : notes'[n] = notes[n]
    BY <1>2 DEF CardGone
  <2>4. NotesInv'
    BY <2>1, <2>3 DEF BoardInv, NotesInv, NotesHaveCase
  <2> QED BY <2>1, <2>2, <2>4 DEF BoardInv
<1>3. ASSUME NEW c \in CaseIds, CardChanges(c) PROVE BoardInv'
  <2>1. PICK k \in Card : board' = [board EXCEPT ![c] = k]
    <3>1. board[c] \in Card
      BY <1>3 DEF CardChanges, BoardInv
    <3>2. ASSUME NEW s \in CaseStatuses PROVE [board[c] EXCEPT !.status = s] \in Card
      BY <3>1 DEF Card
    <3>3. ASSUME NEW who \in Persons PROVE [board[c] EXCEPT !.assignee = who] \in Card
      BY <3>1 DEF Card
    <3>4. ASSUME NEW answers \in BOOLEAN PROVE [board[c] EXCEPT !.reachable = answers] \in Card
      BY <3>1 DEF Card
    <3>5. ASSUME NEW ts \in SUBSET TagNames PROVE [board[c] EXCEPT !.tags = ts] \in Card
      BY <3>1 DEF Card
    <3> QED BY <1>3, <3>2, <3>3, <3>4, <3>5 DEF CardChanges
  <2>2. /\ DOMAIN board' = DOMAIN board
        /\ \A d \in DOMAIN board' : board'[d] = IF d = c THEN k ELSE board[d]
    BY <2>1
  <2>3. NotesInv'
    BY <1>3, <2>2, NotesStay DEF BoardInv, CardChanges
  <2> QED BY <2>2, <2>3 DEF BoardInv
<1>4. CASE UNCHANGED boardVars
  <2>1. NotesInv'
    BY <1>4, NotesStay DEF BoardInv, boardVars
  <2> QED BY <1>4, <2>1 DEF BoardInv, boardVars
<1>5. ASSUME NEW who \in Persons, NoteRequests(who) PROVE BoardInv'
  BY <1>5, NotesStep DEF BoardInv
<1> QED BY <1>1, <1>2, <1>3, <1>4, <1>5 DEF BoardNext

\* The cases of the page are finitely many and each has the columns of its table, and notes
\* are of one of them, through all that users and rounds write (sync_cases, update_case,
\* add_note, delete_note): the inductive invariant.
THEOREM BoardInvariant == BoardSpec => []BoardInv
BY BoardInitInv, BoardStep, PTL DEF BoardSpec

\* The case page is well typed, for any cases, persons and notes.
THEOREM BoardTyped == BoardSpec => []BoardTypeOK
<1>1. BoardInv => BoardTypeOK
  BY DEF BoardInv, NotesInv, BoardTypeOK
<1> QED BY <1>1, BoardInvariant, PTL

-----------------------------------------------------------------------------
(* The order of the page. *)

KeyLength == Cardinality(TagNames) + 5

LEMMA Joined ==
  ASSUME NEW s \in Seq(Int), NEW t \in Seq(Int)
  PROVE  /\ s \o t \in Seq(Int) /\ Len(s \o t) = Len(s) + Len(t)
         /\ \A i \in 1..(Len(s) + Len(t)) :
              (s \o t)[i] = IF i <= Len(s) THEN s[i] ELSE t[i - Len(s)]
BY ConcatProperties

\* The key of a case has numbers of its own only at the end: the MAC, and how the database
\* breaks the ties of this request.
LEMMA Keys ==
  ASSUME BoardInv, NEW c \in DOMAIN board, NEW turn \in Nat
  PROVE  /\ KeyLength \in Nat /\ Key(c, turn) \in [1..KeyLength -> Int]
         /\ Key(c, turn)[KeyLength] = AsItLikes(c, turn)
         /\ Key(c, turn)[KeyLength - 1] = MacRank(c)
         /\ \A i \in 1..(KeyLength - 1) : \A other \in Nat : Key(c, turn)[i] = Key(c, other)[i]
<1> DEFINE k == board[c]  N == Cardinality(TagNames)
           a == <<IF k.tags = {} THEN 1 ELSE 0, Cardinality(TagNames) - Cardinality(k.tags)>>
           b == [t \in 1..Cardinality(TagNames) |-> IF t \in k.tags THEN 0 ELSE 1]
           p == IF k.reachable = NoPing THEN 0 ELSE IF k.reachable = FALSE THEN 1 ELSE 2
           end(t) == <<MacRank(c), AsItLikes(c, t)>>
<1>1. N \in Nat /\ Cardinality(k.tags) \in Nat /\ c \in Nat /\ MacRank(c) \in Nat
  <2>1. k.tags \in SUBSET TagNames /\ c \in CaseIds
    BY DEF BoardInv, Card
  <2>2. IsFiniteSet(k.tags)
    BY <2>1, BoardAssumption, FS_Subset
  <2> QED BY <2>1, <2>2, BoardAssumption, FS_CardinalityType
<1>2. a \in Seq(Int) /\ Len(a) = 2
  BY <1>1
<1>3. b \in Seq(Int) /\ Len(b) = N
  BY <1>1
<1>4. <<p>> \in Seq(Int) /\ Len(<<p>>) = 1
  OBVIOUS
<1>5. \A t \in Nat : /\ end(t) \in Seq(Int) /\ Len(end(t)) = 2
                     /\ end(t)[1] = MacRank(c) /\ end(t)[2] = AsItLikes(c, t)
  BY <1>1 DEF AsItLikes
<1>6. SortKey(c) = a \o b \o <<p>>
  BY DEF SortKey
<1> HIDE DEF a, b, p, end
<1>7. SortKey(c) \in Seq(Int) /\ Len(SortKey(c)) = N + 3
  <2>1. a \o b \in Seq(Int) /\ Len(a \o b) = Len(a) + Len(b)
    BY <1>2, <1>3, Joined, Zenon
  <2>2. SortKey(c) \in Seq(Int) /\ Len(SortKey(c)) = Len(a \o b) + Len(<<p>>)
    BY <1>4, <1>6, <2>1, Joined, Zenon
  <2>3. Len(SortKey(c)) = (2 + N) + 1
    BY <1>2, <1>3, <1>4, <2>1, <2>2, Zenon
  <2> QED BY <1>1, <2>2, <2>3
<1>8. \A t \in Nat : /\ Key(c, t) \in Seq(Int) /\ Len(Key(c, t)) = KeyLength
                     /\ \A i \in 1..KeyLength : Key(c, t)[i] =
                          IF i <= N + 3 THEN SortKey(c)[i] ELSE end(t)[i - (N + 3)]
  <2> SUFFICES ASSUME NEW t \in Nat
               PROVE  /\ Key(c, t) \in Seq(Int) /\ Len(Key(c, t)) = KeyLength
                      /\ \A i \in 1..KeyLength : Key(c, t)[i] =
                           IF i <= N + 3 THEN SortKey(c)[i] ELSE end(t)[i - (N + 3)]
    OBVIOUS
  <2>1. Key(c, t) = SortKey(c) \o end(t)
    BY DEF Key, end
  <2>2. Len(end(t)) = 2 /\ end(t) \in Seq(Int)
    BY <1>5
  <2>3. Len(SortKey(c)) + Len(end(t)) = KeyLength /\ KeyLength = N + 3 + 2
    BY <1>1, <1>7, <2>2 DEF KeyLength
  <2> HIDE DEF N
  <2>4. /\ Key(c, t) \in Seq(Int) /\ Len(Key(c, t)) = Len(SortKey(c)) + Len(end(t))
        /\ \A i \in 1..(Len(SortKey(c)) + Len(end(t))) : Key(c, t)[i] =
             IF i <= Len(SortKey(c)) THEN SortKey(c)[i] ELSE end(t)[i - Len(SortKey(c))]
    <3> DEFINE x == SortKey(c)  y == end(t)
    <3>1. x \in Seq(Int) /\ y \in Seq(Int)
      BY <1>7, <2>2
    <3> HIDE DEF x, y
    <3>2. /\ x \o y \in Seq(Int) /\ Len(x \o y) = Len(x) + Len(y)
          /\ \A i \in 1..(Len(x) + Len(y)) :
               (x \o y)[i] = IF i <= Len(x) THEN x[i] ELSE y[i - Len(x)]
      BY ONLY <3>1, Joined
    <3>3. Key(c, t) = x \o y
      BY <2>1 DEF x, y
    <3> QED BY ONLY <3>2, <3>3, Zenon DEF x, y
  <2> QED BY <1>7, <2>3, <2>4, Zenon
<1>9. \A t \in Nat : Key(c, t)[KeyLength] = end(t)[2] /\ Key(c, t)[KeyLength - 1] = end(t)[1]
  <2>1. /\ KeyLength \in 1..KeyLength /\ ~(KeyLength <= N + 3) /\ KeyLength - (N + 3) = 2
        /\ KeyLength - 1 \in 1..KeyLength /\ ~(KeyLength - 1 <= N + 3)
        /\ (KeyLength - 1) - (N + 3) = 1
    BY <1>1 DEF KeyLength
  <2> SUFFICES ASSUME NEW t \in Nat
               PROVE  Key(c, t)[KeyLength] = end(t)[2] /\ Key(c, t)[KeyLength - 1] = end(t)[1]
    OBVIOUS
  <2>2. Key(c, t)[KeyLength] = end(t)[KeyLength - (N + 3)]
    BY <1>8, <2>1, Zenon
  <2>3. Key(c, t)[KeyLength - 1] = end(t)[(KeyLength - 1) - (N + 3)]
    BY <1>8, <2>1, Zenon
  <2> QED BY <2>1, <2>2, <2>3, Zenon
<1>10. ASSUME NEW i \in 1..(KeyLength - 1), NEW other \in Nat PROVE Key(c, turn)[i] = Key(c, other)[i]
  <2>1. CASE i <= N + 3
    <3>1. i \in 1..KeyLength
      BY <1>1 DEF KeyLength
    <3>2. Key(c, turn)[i] = SortKey(c)[i] /\ Key(c, other)[i] = SortKey(c)[i]
      BY <1>8, <2>1, <3>1, Zenon
    <3> QED BY <3>2
  <2>2. CASE i > N + 3
    <3>1. i = KeyLength - 1
      BY <1>1, <2>2 DEF KeyLength
    <3> QED BY <1>5, <1>9, <3>1
  <2> QED BY <1>1, <2>1, <2>2 DEF KeyLength
<1>11. KeyLength \in Nat
  BY <1>1 DEF KeyLength
<1>12. Key(c, turn) \in [1..KeyLength -> Int]
  BY <1>8, LenProperties
<1> QED BY <1>5, <1>9, <1>10, <1>11, <1>12

\* Lexicographic order.
LEMMA LexOrder ==
  ASSUME NEW L \in Nat, NEW x \in [1..L -> Int], NEW y \in [1..L -> Int], NEW z \in [1..L -> Int]
  PROVE  /\ ~Precedes(x, x)
         /\ Precedes(x, y) /\ Precedes(y, z) => Precedes(x, z)
         /\ x = y \/ Precedes(x, y) \/ Precedes(y, x)
<1>1. ~Precedes(x, x)
  BY DEF Precedes
<1>2. ASSUME Precedes(x, y), Precedes(y, z) PROVE Precedes(x, z)
  <2>1. PICK i \in 1..L : x[i] < y[i] /\ \A h \in 1..(i - 1) : x[h] = y[h]
    BY <1>2 DEF Precedes
  <2>2. PICK j \in 1..L : y[j] < z[j] /\ \A h \in 1..(j - 1) : y[h] = z[h]
    BY <1>2 DEF Precedes
  <2>3. PICK m \in 1..L : m = IF i <= j THEN i ELSE j
    OBVIOUS
  <2>4. x[m] < z[m]
    <3>1. x[m] \in Int /\ y[m] \in Int /\ z[m] \in Int
      OBVIOUS
    <3>2. CASE i < j
      BY <2>1, <2>2, <2>3, <3>1, <3>2
    <3>3. CASE j < i
      BY <2>1, <2>2, <2>3, <3>1, <3>3
    <3>4. CASE i = j
      BY <2>1, <2>2, <2>3, <3>1, <3>4
    <3> QED BY <3>2, <3>3, <3>4
  <2>5. \A h \in 1..(m - 1) : x[h] = z[h]
    BY <2>1, <2>2, <2>3
  <2> QED BY <2>4, <2>5 DEF Precedes
<1>3. ASSUME x # y PROVE Precedes(x, y) \/ Precedes(y, x)
  <2> DEFINE D == {i \in 1..L : x[i] # y[i]}
  <2>1. D # {} /\ D \in SUBSET Nat
    <3>1. (\A i \in 1..L : x[i] = y[i]) => x = y
      OBVIOUS
    <3> HIDE DEF D
    <3>2. PICK i \in 1..L : x[i] # y[i]
      BY <1>3, <3>1
    <3>3. i \in D /\ D \in SUBSET (1..L)
      BY <3>2 DEF D
    <3> QED BY <3>3
  <2>2. PICK i \in D : \A j \in D : i <= j
    BY <2>1, LeastNumber
  <2>3. i \in 1..L /\ x[i] # y[i] /\ x[i] \in Int /\ y[i] \in Int
    OBVIOUS
  <2>4. \A h \in 1..(i - 1) : x[h] = y[h] /\ y[h] = x[h]
    BY <2>2, <2>3
  <2>5. x[i] < y[i] \/ y[i] < x[i]
    BY <2>3
  <2> QED BY <2>3, <2>4, <2>5 DEF Precedes
<1> QED BY <1>1, <1>2, <1>3

ByKey(cases, turn) == {p \in cases \X cases : Precedes(Key(p[1], turn), Key(p[2], turn))}

LEMMA KeysOrder ==
  ASSUME BoardInv, NEW cases \in SUBSET DOMAIN board, NEW turn \in Nat
  PROVE  Orders(ByKey(cases, turn), cases)
<1> DEFINE K(c) == Key(c, turn)
<1>1. \A c \in cases : K(c) \in [1..KeyLength -> Int] /\ KeyLength \in Nat
  BY Keys
<1>2. ASSUME NEW c \in cases, NEW d \in cases, c # d PROVE K(c) # K(d)
  <2>1. K(c)[KeyLength] = AsItLikes(c, turn) /\ K(d)[KeyLength] = AsItLikes(d, turn)
    BY Keys
  <2>2. c \in Nat /\ d \in Nat
    BY BoardAssumption DEF BoardInv
  <2>3. AsItLikes(c, turn) # AsItLikes(d, turn)
    BY <1>2, <2>2 DEF AsItLikes
  <2> QED BY <2>1, <2>3
<1>3. \A c, d \in cases : <<c, d>> \in ByKey(cases, turn) <=> Precedes(K(c), K(d))
  BY DEF ByKey
<1> HIDE DEF K
<1>4. \A c \in cases : ~Precedes(K(c), K(c))
  BY <1>1, LexOrder
<1>5. \A c, d, e \in cases : Precedes(K(c), K(d)) /\ Precedes(K(d), K(e)) => Precedes(K(c), K(e))
  BY <1>1, LexOrder
<1>6. \A c, d \in cases : c = d \/ Precedes(K(c), K(d)) \/ Precedes(K(d), K(c))
  BY <1>1, <1>2, LexOrder
<1> QED BY <1>3, <1>4, <1>5, <1>6 DEF Orders

\* A case whose MAC is its own has the same place for every request.
LEMMA SamePlace ==
  ASSUME BoardInv, NEW cases \in SUBSET DOMAIN board, NEW c \in cases,
         \A d \in cases \ {c} : MacRank(d) # MacRank(c), NEW t \in Nat, NEW u \in Nat
  PROVE  PlaceIn(cases, ByKey(cases, t))[c] = PlaceIn(cases, ByKey(cases, u))[c]
<1>1. ASSUME NEW d \in cases, NEW v \in Nat, NEW w \in Nat, Precedes(Key(d, v), Key(c, v))
      PROVE  Precedes(Key(d, w), Key(c, w))
  <2>1. /\ KeyLength \in Nat
        /\ DOMAIN Key(d, v) = 1..KeyLength /\ DOMAIN Key(d, w) = 1..KeyLength
        /\ Key(c, v)[KeyLength - 1] = MacRank(c) /\ Key(d, v)[KeyLength - 1] = MacRank(d)
        /\ \A i \in 1..(KeyLength - 1) : /\ Key(c, v)[i] = Key(c, w)[i]
                                         /\ Key(d, v)[i] = Key(d, w)[i]
    BY Keys
  <2>2. PICK i \in 1..KeyLength : /\ Key(d, v)[i] < Key(c, v)[i]
                                  /\ \A h \in 1..(i - 1) : Key(d, v)[h] = Key(c, v)[h]
    BY <1>1, <2>1 DEF Precedes
  <2>3. d # c
    BY <1>1, Keys, LexOrder
  <2>4. KeyLength - 1 > 0
    <3>1. Cardinality(TagNames) \in Nat
      BY BoardAssumption, FS_CardinalityType
    <3> QED BY <3>1 DEF KeyLength
  <2>5. i # KeyLength
    <3> SUFFICES ASSUME i = KeyLength PROVE FALSE
      OBVIOUS
    <3>1. MacRank(d) = MacRank(c)
      BY <2>1, <2>2, <2>4
    <3> QED BY <2>3, <3>1
  <2>6. i \in 1..(KeyLength - 1) /\ \A h \in 1..(i - 1) : h \in 1..(KeyLength - 1)
    BY <2>1, <2>5
  <2> QED BY <2>1, <2>2, <2>6 DEF Precedes
<1>2. \A d \in cases : Precedes(Key(d, t), Key(c, t)) <=> Precedes(Key(d, u), Key(c, u))
  BY <1>1
<1>3. Preceding(cases, ByKey(cases, t), c) = Preceding(cases, ByKey(cases, u), c)
  BY <1>2 DEF Preceding, ByKey
<1> QED BY <1>3 DEF PlaceIn

-----------------------------------------------------------------------------
(* Pages. *)

\* The rows of a page are those between its ends.
LEMMA OnPage ==
  ASSUME BoardInv, NEW cases \in SUBSET DOMAIN board, NEW c \in cases,
         NEW page \in Nat \ {0}, NEW size \in Nat \ {0}, NEW turn \in Nat
  PROVE  LET q == PlaceIn(cases, ByKey(cases, turn))[c]
         IN  /\ q \in 1..Cardinality(cases)
             /\ c \in Range(PageOf(cases, page, size, turn))
                  <=> (page - 1) * size < q /\ q <= page * size
<1> DEFINE n == Cardinality(cases)  less == ByKey(cases, turn)
           rows == InOrderOf(cases, less)  place == PlaceIn(cases, less)
           a == (page - 1) * size + 1  e == page * size  b == Min({e, Len(rows)})
           shown == SubSeq(rows, a, b)
<1>1. IsFiniteSet(cases) /\ Orders(less, cases)
  BY FS_Subset, KeysOrder DEF BoardInv
<1>2. PageOf(cases, page, size, turn) = shown
  BY DEF PageOf, ByKey
<1> HIDE DEF less
<1>3. /\ n \in Nat /\ rows \in [1..n -> cases] /\ place \in [cases -> 1..n]
      /\ \A x \in cases : rows[place[x]] = x
      /\ \A i \in 1..n : place[rows[i]] = i
  BY <1>1, SortedInOrder
<1> HIDE DEF rows, place, n
<1>4. Len(rows) = n
  BY <1>3
<1>5. a \in Nat \ {0} /\ e \in Nat /\ a - 1 = (page - 1) * size
  OBVIOUS
<1> HIDE DEF a, e
<1>6. b \in Nat /\ b <= e /\ b <= n /\ (b = e \/ b = n)
  <2>1. \E x \in {e, n} : \A y \in {e, n} : x <= y
    BY <1>3, <1>5
  <2>2. b \in {e, n} /\ \A y \in {e, n} : b <= y
    BY <1>4, <2>1 DEF Min
  <2> QED BY <1>3, <1>5, <2>2
<1> HIDE DEF b
<1>7. \A i \in a..b : i \in 1..n /\ rows[i] \in cases
  BY <1>3, <1>5, <1>6
<1>8. /\ shown \in Seq(cases) /\ Len(shown) = IF a <= b THEN b - a + 1 ELSE 0
      /\ \A i \in 1..(b - a + 1) : shown[i] = rows[a + i - 1]
  BY <1>5, <1>6, <1>7, SubSeqProperties
<1>9. DOMAIN shown = 1..Len(shown) /\ Len(shown) \in Nat
  BY <1>8, LenProperties
<1> HIDE DEF shown
<1>10. c \in Range(shown) <=> place[c] \in a..b
  <2>1. ASSUME place[c] \in a..b PROVE c \in Range(shown)
    <3>1. /\ place[c] - a + 1 \in 1..(b - a + 1) /\ a + (place[c] - a + 1) - 1 = place[c]
          /\ a <= b
      BY <1>5, <1>6, <2>1
    <3>2. shown[place[c] - a + 1] = c
      BY <1>3, <1>8, <3>1
    <3> QED BY <1>8, <1>9, <3>1, <3>2 DEF Range
  <2>2. ASSUME c \in Range(shown) PROVE place[c] \in a..b
    <3>1. PICK i \in 1..Len(shown) : c = shown[i]
      BY <1>9, <2>2 DEF Range
    <3>2. i \in 1..(b - a + 1) /\ a + i - 1 \in a..b
      BY <1>5, <1>6, <1>8, <3>1
    <3>3. c = rows[a + i - 1] /\ a + i - 1 \in 1..n
      BY <1>7, <1>8, <3>1, <3>2
    <3> QED BY <1>3, <3>2, <3>3
  <2> QED BY <2>1, <2>2
<1>11. place[c] \in 1..n
  BY <1>3
<1>12. place[c] \in a..b <=> a - 1 < place[c] /\ place[c] <= e
  BY <1>3, <1>5, <1>6, <1>11
<1>13. a - 1 = (page - 1) * size /\ e = page * size
  BY <1>5 DEF e
<1>14. c \in Range(shown) <=> (page - 1) * size < place[c] /\ place[c] <= page * size
  BY ONLY <1>10, <1>12, <1>13
<1> QED BY <1>2, <1>11, <1>14 DEF place, n, less

LEMMA Times ==
  ASSUME NEW a \in Nat, NEW b \in Nat, NEW s \in Nat, a <= b
  PROVE  a * s \in Nat /\ b * s \in Nat /\ a * s <= b * s
OBVIOUS

LEMMA LastPage ==
  ASSUME NEW n \in Nat, NEW s \in Nat \ {0}
  PROVE  (n + s - 1) \div s \in Nat /\ n <= ((n + s - 1) \div s) * s
OBVIOUS

\* One page has a place between its ends.
LEMMA BoardPage ==
  ASSUME NEW n \in Nat, NEW s \in Nat \ {0}, NEW q \in 1..n
  PROVE  \E p \in 1..((n + s - 1) \div s) :
           \A o \in 1..((n + s - 1) \div s) : ((o - 1) * s < q /\ q <= o * s) <=> o = p
<1> DEFINE pages == (n + s - 1) \div s  P == {o \in Nat : q <= o * s}
<1>1. pages \in Nat /\ n <= pages * s /\ q \in Nat /\ q <= n /\ q > 0 /\ pages * s \in Nat
  BY LastPage
<1> HIDE DEF pages
<1>2. pages \in P
  BY <1>1
<1>3. PICK p \in P : \A o \in P : p <= o
  <2>1. P \in SUBSET Nat /\ P # {}
    BY <1>2
  <2> QED BY <2>1, LeastNumber
<1>4. p \in Nat /\ p <= pages /\ q <= p * s
  BY <1>2, <1>3
<1>5. p # 0
  BY <1>1, <1>4
<1>6. p - 1 \in Nat /\ p - 1 \notin P
  BY <1>3, <1>4, <1>5
<1>7. (p - 1) * s < q
  <2>1. (p - 1) * s \in Nat /\ ~(q <= (p - 1) * s)
    BY <1>6
  <2> QED BY <1>1, <2>1
<1>8. ASSUME NEW o \in 1..pages, (o - 1) * s < q, q <= o * s PROVE o = p
  <2>1. o \in Nat /\ o - 1 \in Nat
    BY <1>1
  <2>2. CASE o < p
    <3>1. o * s <= (p - 1) * s /\ o * s \in Nat /\ (p - 1) * s \in Nat
      BY <1>4, <1>6, <2>1, <2>2, Times
    <3> QED BY <1>1, <1>7, <1>8, <3>1
  <2>3. CASE p < o
    <3>1. p * s <= (o - 1) * s /\ p * s \in Nat /\ (o - 1) * s \in Nat
      BY <1>4, <2>1, <2>3, Times
    <3> QED BY <1>1, <1>4, <1>8, <3>1
  <2> QED BY <1>4, <2>1, <2>2, <2>3
<1>9. p \in 1..pages
  BY <1>1, <1>4, <1>5
<1> QED BY <1>4, <1>7, <1>8, <1>9 DEF pages

\* Turning the pages shows a case whose MAC is its own once.
LEMMA ShownOnce ==
  ASSUME BoardInv, NEW cases \in SUBSET DOMAIN board, NEW size \in 1..Cardinality(cases),
         NEW c \in cases, \A d \in cases \ {c} : MacRank(d) # MacRank(c)
  PROVE  Cardinality({p \in 1..PagesIn(cases, size) : c \in Range(PageOf(cases, p, size, p))}) = 1
<1> DEFINE n == Cardinality(cases)  q == PlaceIn(cases, ByKey(cases, 0))[c]
           pages == (n + size - 1) \div size
           P == {p \in 1..PagesIn(cases, size) : c \in Range(PageOf(cases, p, size, p))}
<1>1. IsFiniteSet(cases) /\ n \in Nat /\ size \in Nat \ {0}
  BY FS_Subset, FS_CardinalityType DEF BoardInv
<1>2. PagesIn(cases, size) = pages /\ pages \in Nat
  BY <1>1, LastPage DEF PagesIn
<1>3. q \in 1..n
  BY <1>1, OnPage
<1>4. PICK p \in 1..pages : \A o \in 1..pages :
        ((o - 1) * size < q /\ q <= o * size) <=> o = p
  BY <1>1, <1>3, BoardPage
<1>5. ASSUME NEW o \in 1..pages PROVE c \in Range(PageOf(cases, o, size, o)) <=> o = p
  <2>1. o \in Nat \ {0}
    BY <1>2
  <2>2. PlaceIn(cases, ByKey(cases, o))[c] = q
    BY <2>1, SamePlace
  <2>3. c \in Range(PageOf(cases, o, size, o)) <=> (o - 1) * size < q /\ q <= o * size
    BY <1>1, <2>1, <2>2, OnPage
  <2> QED BY <1>4, <2>3
<1> HIDE DEF pages
<1>6. P = {p}
  BY <1>2, <1>4, <1>5
<1> QED BY <1>6, FS_Singleton

-----------------------------------------------------------------------------
(* Exports and counters. *)

LEMMA ExportsAlike ==
  ASSUME BoardInv, NEW f \in Filters
  PROVE  Exported(f) = Passing(f)
<1> SUFFICES ASSUME NEW c \in DOMAIN board PROVE c \in Exported(f) <=> c \in Passing(f)
  BY DEF Exported, Passing
<1> DEFINE ofStatus == IF f.status # NotAsked THEN board[c].status = f.status
                       ELSE f.closed \/ board[c].status \notin Closed
           pings == IF f.reachable = NotAsked THEN BOOLEAN \cup {NoPing}
                    ELSE IF f.reachable = TRUE THEN {TRUE} ELSE {FALSE, NoPing}
           answer == IF f.reachable = TRUE THEN board[c].reachable = TRUE
                     ELSE board[c].reachable # TRUE
<1>1. board[c].reachable \in BOOLEAN \cup {NoPing} /\ NoPing # TRUE
  BY BoardAssumption, Zenon DEF BoardInv, Card
<1>2. c \in Exported(f) <=>
        /\ ofStatus
        /\ f.assignee # NotAsked => board[c].assignee = f.assignee
        /\ board[c].reachable \in pings
  BY DEF Exported
<1>3. c \in Passing(f) <=>
        /\ f.assignee \in {NotAsked, board[c].assignee}
        /\ ofStatus
        /\ f.reachable # NotAsked => answer
  BY DEF Passing
<1>4. (f.assignee # NotAsked => board[c].assignee = f.assignee)
        <=> f.assignee \in {NotAsked, board[c].assignee}
  BY Zenon
<1>5. board[c].reachable \in pings <=> (f.reachable # NotAsked => answer)
  BY <1>1, Zenon
<1> HIDE DEF ofStatus, pings, answer
<1> QED BY ONLY <1>2, <1>3, <1>4, <1>5

OfStatus(s) == {c \in DOMAIN board : board[c].status = s}

\* Each counter is the number of the cases that its list has.
LEMMA CountersAlike ==
  ASSUME BoardInv
  PROVE  /\ Counters.active = TotalOf(AllOpen)
         /\ Counters.unreachable = TotalOf([AllOpen EXCEPT !.reachable = FALSE])
         /\ \A s \in CaseStatuses : CountOf(s) = TotalOf([AllOpen EXCEPT !.status = s])
<1> DEFINE open == {c \in DOMAIN board : board[c].status \notin Closed}
           R == OfStatus("RESOLVED")  I == OfStatus("IGNORED")
<1>1. /\ Counters.active = Cardinality(DOMAIN board) - Cardinality(R) - Cardinality(I)
      /\ Counters.unreachable
           = Cardinality({c \in DOMAIN board : /\ board[c].status \notin Closed
                                               /\ board[c].reachable # TRUE})
      /\ \A s : CountOf(s) = Cardinality(OfStatus(s))
  BY DEF Counters, CountOf, OfStatus
<1>2. Passing(AllOpen) = open
  BY DEF Passing, AllOpen
<1>3. Cardinality(open) = Cardinality(DOMAIN board) - Cardinality(R) - Cardinality(I)
  <2>1. open = DOMAIN board \ (R \cup I) /\ R \subseteq DOMAIN board /\ I \subseteq DOMAIN board
    BY DEF OfStatus, Closed
  <2>2. R \cap I = {} /\ DOMAIN board \cap (R \cup I) = R \cup I
    BY <2>1 DEF OfStatus
  <2> HIDE DEF open, R, I
  <2>3. IsFiniteSet(R) /\ IsFiniteSet(I) /\ IsFiniteSet(DOMAIN board)
    BY <2>1, FS_Subset DEF BoardInv
  <2>4. /\ Cardinality(R) \in Nat /\ Cardinality(I) \in Nat /\ Cardinality(DOMAIN board) \in Nat
        /\ Cardinality({}) = 0
    BY <2>3, FS_CardinalityType, FS_EmptySet
  <2>5. Cardinality(R \cup I) = Cardinality(R) + Cardinality(I) - Cardinality(R \cap I)
    BY <2>3, FS_Union
  <2>6. Cardinality(open) = Cardinality(DOMAIN board) - Cardinality(DOMAIN board \cap (R \cup I))
    BY <2>1, <2>3, FS_Difference
  <2>7. Cardinality(R \cup I) = Cardinality(R) + Cardinality(I) - 0
    BY ONLY <2>2, <2>4, <2>5, Zenon
  <2>8. Cardinality(open) = Cardinality(DOMAIN board) - (Cardinality(R) + Cardinality(I) - 0)
    BY ONLY <2>2, <2>6, <2>7, Zenon
  <2> QED BY <2>4, <2>8
<1>4. Counters.active = TotalOf(AllOpen)
  BY ONLY <1>1, <1>2, <1>3, Zenon DEF TotalOf
<1>5. Passing([AllOpen EXCEPT !.reachable = FALSE])
        = {c \in DOMAIN board : board[c].status \notin Closed /\ board[c].reachable # TRUE}
  <2> DEFINE f == [AllOpen EXCEPT !.reachable = FALSE]
  <2>1. /\ f.status = NotAsked /\ f.assignee = NotAsked /\ f.closed = FALSE
        /\ f.reachable = FALSE /\ FALSE # NotAsked /\ FALSE # TRUE
    BY BoardAssumption, Zenon DEF AllOpen
  <2> HIDE DEF f
  <2>2. \A c \in DOMAIN board : c \in Passing(f)
          <=> board[c].status \notin Closed /\ board[c].reachable # TRUE
    BY <2>1, Zenon DEF Passing
  <2>3. Passing(f) \subseteq DOMAIN board
    BY DEF Passing
  <2> QED BY <2>2, <2>3, Zenon DEF f
<1>6. ASSUME NEW s \in CaseStatuses
      PROVE  Passing([AllOpen EXCEPT !.status = s]) = OfStatus(s)
  <2> DEFINE f == [AllOpen EXCEPT !.status = s]
  <2>1. f.status = s /\ f.assignee = NotAsked /\ f.reachable = NotAsked /\ s # NotAsked
    BY BoardAssumption DEF AllOpen
  <2> HIDE DEF f
  <2>2. Passing(f) = OfStatus(s)
    BY <2>1 DEF Passing, OfStatus
  <2> QED BY <2>2 DEF f
<1>7. Counters.unreachable = TotalOf([AllOpen EXCEPT !.reachable = FALSE])
  BY ONLY <1>1, <1>5, Zenon DEF TotalOf
<1>8. \A s \in CaseStatuses : CountOf(s) = TotalOf([AllOpen EXCEPT !.status = s])
  BY ONLY <1>1, <1>6, Zenon DEF TotalOf
<1> QED BY <1>4, <1>7, <1>8

\* For any cases, MACs, tags and page sizes: a list has the cases of its export, turning its
\* pages shows every case whose MAC is its own once although each page is a query that
\* breaks ties anew, and the counters are the totals of their lists (get_cases,
\* export_cases_csv, get_case_stats).
THEOREM BoardAlwaysAgrees == BoardSpec => []BoardAgrees
<1>1. BoardInv => BoardAgrees
  BY ExportsAlike, CountersAlike, ShownOnce, Zenon DEF BoardAgrees
<1> QED BY <1>1, BoardInvariant, PTL
=============================================================================
