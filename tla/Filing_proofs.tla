---------------------------- MODULE Filing_proofs ----------------------------
(***************************************************************************)
(* Proofs about the classification rules and what is filed by them, for    *)
(* any traces a measurement may return.                                    *)
(***************************************************************************)
EXTENDS Tracing, TLAPS, FiniteSetTheorems, SequenceTheorems

LEMMA MinIs ==
    ASSUME NEW S \in SUBSET Nat, S # {}
    PROVE  Min(S) \in S /\ \A j \in S : Min(S) <= j
<1> DEFINE Less == {p \in Nat \X Nat : p[1] < p[2]}
<1>1. IsWellFoundedOn(Less, Nat)
  BY NatLessThanWellFounded DEF OpToRel
<1>2. PICK k \in S : \A j \in S : <<j, k>> \notin Less
  BY <1>1, WFMin
<1>3. ASSUME NEW j \in S PROVE k <= j
  <2>1. k \in Nat /\ j \in Nat /\ <<j, k>> \notin Less
    BY <1>2
  <2>2. <<j, k>> \in Nat \X Nat /\ <<j, k>>[1] = j /\ <<j, k>>[2] = k
    BY <2>1
  <2>3. ~ (j < k)
    BY <2>1, <2>2
  <2> QED
    BY <2>1, <2>3
<1> QED
  BY <1>3 DEF Min
-----------------------------------------------------------------------------
Below(places, i) == {j \in places : j <= i}

\* How many places there are up to one.
LEMMA CountsUp ==
    ASSUME NEW n \in Nat, NEW places \in SUBSET (1..n)
    PROVE  /\ IsFiniteSet(places) /\ Cardinality(places) \in Nat
           /\ \A i \in Nat : Cardinality(Below(places, i)) \in 0..Cardinality(places)
           /\ Cardinality(Below(places, 0)) = 0
           /\ Cardinality(Below(places, n)) = Cardinality(places)
<1>1. IsFiniteSet(places) /\ Cardinality(places) \in Nat
  <2>1. IsFiniteSet(1..n)
    BY FS_Interval
  <2>2. IsFiniteSet(places)
    BY <2>1, FS_Subset
  <2> QED
    BY <2>2, FS_CardinalityType
<1>2. ASSUME NEW i \in Nat
      PROVE  /\ IsFiniteSet(Below(places, i))
             /\ Cardinality(Below(places, i)) \in 0..Cardinality(places)
  <2>1. Below(places, i) \in SUBSET places
    BY DEF Below
  <2>2. IsFiniteSet(Below(places, i)) /\ Cardinality(Below(places, i)) <= Cardinality(places)
    BY <1>1, <2>1, FS_Subset
  <2>3. Cardinality(Below(places, i)) \in Nat
    BY <2>2, FS_CardinalityType
  <2> QED
    BY <1>1, <2>2, <2>3
<1>3. Below(places, 0) = {} /\ Below(places, n) = places
  <2>1. \A j \in places : ~(j <= 0) /\ j <= n
    OBVIOUS
  <2> QED
    BY <2>1 DEF Below
<1> QED
  BY <1>1, <1>2, <1>3, FS_EmptySet

LEMMA CountStep ==
    ASSUME NEW n \in Nat, NEW places \in SUBSET (1..n), NEW i \in Nat
    PROVE  Cardinality(Below(places, i + 1)) =
             IF i + 1 \in places THEN Cardinality(Below(places, i)) + 1 ELSE Cardinality(Below(places, i))
<1>1. IsFiniteSet(Below(places, i))
  <2>1. Below(places, i) \in SUBSET places
    BY DEF Below
  <2> QED
    BY <2>1, CountsUp, FS_Subset
<1>2. \A j \in places : j <= i + 1 <=> j <= i \/ j = i + 1
  OBVIOUS
<1>3. CASE i + 1 \in places
  <2>1. Below(places, i + 1) = Below(places, i) \cup {i + 1} /\ i + 1 \notin Below(places, i)
    <3>1. ~(i + 1 <= i)
      OBVIOUS
    <3> QED
      BY <1>2, <1>3, <3>1 DEF Below
  <2> QED
    BY <1>1, <1>3, <2>1, FS_AddElement
<1>4. CASE i + 1 \notin places
  <2>1. Below(places, i + 1) = Below(places, i)
    BY <1>2, <1>4 DEF Below
  <2> QED
    BY <1>4, <2>1
<1> QED
  BY <1>3, <1>4

\* The m-th of some places is there, and each place is the m-th for some m.
LEMMA PlacesCount ==
    ASSUME NEW n \in Nat, NEW places \in SUBSET (1..n)
    PROVE  /\ \A m \in 1..Cardinality(places) :
                \E i \in places : Cardinality(Below(places, i)) = m
           /\ \A i \in places : /\ Cardinality(Below(places, i)) \in 1..Cardinality(places)
                                /\ \A j \in places : Cardinality(Below(places, i)) = Cardinality(Below(places, j)) => i = j
<1> DEFINE C(i) == Cardinality(Below(places, i))
           N == Cardinality(places)
<1>0. /\ N \in Nat /\ C(0) = 0 /\ C(n) = N
      /\ \A i \in Nat : C(i) \in 0..N /\ C(i + 1) = IF i + 1 \in places THEN C(i) + 1 ELSE C(i)
  <2>1. N \in Nat /\ C(0) = 0 /\ C(n) = N
    BY CountsUp
  <2>2. \A i \in Nat : C(i) \in 0..N
    BY CountsUp
  <2>3. ASSUME NEW i \in Nat PROVE C(i + 1) = IF i + 1 \in places THEN C(i) + 1 ELSE C(i)
    BY CountStep
  <2> QED
    BY <2>1, <2>2, <2>3
<1>1. ASSUME NEW m \in 1..N PROVE \E i \in places : C(i) = m
  <2> HIDE DEF C, N
  <2> DEFINE S == {i \in Nat : C(i) >= m}
  <2>1. n \in S /\ 0 \notin S
    BY <1>0
  <2>2. PICK k \in S : \A j \in S : k <= j
    BY <2>1, MinIs
  <2>3. PICK i \in Nat : k = i + 1
    <3>1. k \in Nat /\ k # 0
      BY <2>1, <2>2
    <3>2. k - 1 \in Nat /\ k = (k - 1) + 1
      BY <3>1
    <3> QED
      BY <3>2
  <2>4. ~(C(i) >= m)
    <3>1. i \notin S
      BY <2>2, <2>3
    <3> QED
      BY <3>1
  <2>5. C(i) \in 0..N /\ C(i + 1) = IF i + 1 \in places THEN C(i) + 1 ELSE C(i)
    BY <1>0
  <2>6. C(i + 1) >= m
    BY <2>2, <2>3
  <2>7. C(i) \in Nat /\ m \in Nat
    BY <1>0, <2>5
  <2>8. i + 1 \in places /\ C(i + 1) = m
    BY <2>4, <2>5, <2>6, <2>7
  <2> QED
    BY <2>8
<1>2. ASSUME NEW i \in places PROVE C(i) \in 1..N
  <2> HIDE DEF C, N
  <2>1. PICK k \in Nat : i = k + 1
    <3>1. i \in 1..n
      OBVIOUS
    <3>2. i - 1 \in Nat /\ i = (i - 1) + 1
      BY <3>1
    <3> QED
      BY <3>2
  <2>2. C(k) \in 0..N /\ C(k + 1) = C(k) + 1 /\ C(k + 1) \in 0..N
    BY <1>0, <2>1
  <2> QED
    BY <1>0, <2>1, <2>2
<1>3. ASSUME NEW i \in places, NEW j \in places, i < j, C(i) = C(j) PROVE FALSE
  <2>1. Below(places, i) \in SUBSET Below(places, j) /\ j \in Below(places, j) /\ j \notin Below(places, i)
    <3>1. i \in Nat /\ j \in Nat /\ \A k \in places : k \in Nat
      OBVIOUS
    <3>2. \A k \in places : k <= i => k <= j
      BY <1>3, <3>1
    <3>3. j <= j /\ ~(j <= i)
      BY <1>3, <3>1
    <3> QED
      BY <3>2, <3>3 DEF Below
  <2>2. IsFiniteSet(Below(places, j))
    <3>1. Below(places, j) \in SUBSET places
      BY DEF Below
    <3> QED
      BY <3>1, CountsUp, FS_Subset
  <2> QED
    BY <1>3, <2>1, <2>2, FS_Subset
<1>4. \A i, j \in places : i < j \/ j < i \/ i = j
  OBVIOUS
<1> QED
  BY <1>1, <1>2, <1>3, <1>4

\* What is chosen from a sequence is a sequence of just what is at the places.
LEMMA ChosenIs ==
    ASSUME NEW s, s \in Seq(Range(s)), NEW places \in SUBSET (DOMAIN s)
    PROVE  /\ Chosen(s, places) \in Seq(Range(Chosen(s, places)))
           /\ Range(Chosen(s, places)) = {s[i] : i \in places}
           /\ Chosen(s, places) = <<>> <=> places = {}
           /\ \A m \in DOMAIN Chosen(s, places) : Chosen(s, places)[m] \in {s[i] : i \in places}
<1> DEFINE N == Cardinality(places)
           Nth(m) == CHOOSE i \in places : Cardinality(Below(places, i)) = m
           chosen == Chosen(s, places)
<1>1. Len(s) \in Nat /\ places \in SUBSET (1..Len(s))
  OBVIOUS
<1>2. chosen = [m \in 1..N |-> s[Nth(m)]]
  BY DEF Chosen, Below
<1>3. ASSUME NEW m \in 1..N PROVE Nth(m) \in places /\ Cardinality(Below(places, Nth(m))) = m
  <2>1. \E i \in places : Cardinality(Below(places, i)) = m
    BY <1>1, PlacesCount
  <2> QED
    BY <2>1
<1>4. ASSUME NEW i \in places PROVE \E m \in 1..N : Nth(m) = i
  <2>1. Cardinality(Below(places, i)) \in 1..N
    BY <1>1, PlacesCount
  <2>2. \A j \in places : Cardinality(Below(places, i)) = Cardinality(Below(places, j)) => i = j
    BY <1>1, PlacesCount
  <2> DEFINE m == Cardinality(Below(places, i))
  <2>3. Nth(m) \in places /\ Cardinality(Below(places, Nth(m))) = m
    BY <1>3, <2>1
  <2>4. Nth(m) = i
    BY <2>2, <2>3
  <2> QED
    BY <2>1, <2>4
<1>5. N \in Nat /\ IsFiniteSet(places)
  BY <1>1, CountsUp
<1> HIDE DEF Nth, chosen
<1>6. Range(chosen) = {s[i] : i \in places}
  BY <1>2, <1>3, <1>4 DEF Range
<1>7. chosen \in Seq(Range(chosen))
  <2>1. chosen \in [1..N -> Range(chosen)]
    BY <1>2 DEF Range
  <2> QED
    BY <1>5, <2>1
<1>8. chosen = <<>> <=> places = {}
  <2>1. N = 0 <=> places = {}
    BY <1>5, FS_EmptySet
  <2>2. chosen = <<>> <=> N = 0
    BY <1>2, <1>5
  <2> QED
    BY <2>1, <2>2
<1>9. \A m \in DOMAIN chosen : chosen[m] \in {s[i] : i \in places}
  BY <1>2, <1>3
<1> QED
  BY <1>6, <1>7, <1>8, <1>9 DEF chosen

\* Clean traces are some of the traces.
LEMMA CleanIs ==
    ASSUME NEW ps, Readable(ps)
    PROVE  Readable(Clean(ps)) /\ Range(Clean(ps)) \subseteq Range(ps)
<1> DEFINE places == {i \in DOMAIN ps : ps[i].first = "local"}
<1>1. places \in SUBSET (DOMAIN ps) /\ ps \in Seq(Range(ps)) /\ Clean(ps) = Chosen(ps, places)
  BY DEF Readable, Clean
<1>2. Clean(ps) \in Seq(Range(Clean(ps))) /\ Range(Clean(ps)) = {ps[i] : i \in places}
  BY <1>1, ChosenIs
<1>3. Range(Clean(ps)) \subseteq Range(ps)
  BY <1>2 DEF Range
<1> QED
  BY <1>2, <1>3 DEF Readable
-----------------------------------------------------------------------------
LEMMA CrossingPlaces ==
    ASSUME NEW p, p.crossings \in Seq(Range(p.crossings))
    PROVE  HubCrossings(p) \in SUBSET Nat
<1>1. DOMAIN p.crossings = 1..Len(p.crossings) /\ Len(p.crossings) \in Nat
  OBVIOUS
<1>2. DOMAIN p.crossings \in SUBSET Nat
  BY <1>1
<1> QED
  BY <1>2 DEF HubCrossings

\* An exchange gives a detour just if a trace crosses one in a hub city.
LEMMA IxpPicked ==
    ASSUME NEW ps, Readable(ps)
    PROVE  /\ IxpPick(ps) = None <=> \A p \in Range(ps) : HubCrossings(p) = {}
           /\ IxpPick(ps) # None => \E c \in City : IxpPick(ps) = [by |-> "ixp", city |-> c]
<1> DEFINE crossing == {i \in DOMAIN ps : HubCrossings(ps[i]) # {}}
           first == ps[Min(crossing)]
           city == first.crossings[Min(HubCrossings(first))].city
<1>1. IxpPick(ps) = IF crossing = {} THEN None ELSE [by |-> "ixp", city |-> city]
  BY DEF IxpPick
<1>2. crossing = {} <=> \A p \in Range(ps) : HubCrossings(p) = {}
  BY DEF Range
<1>3. ASSUME crossing # {} PROVE city \in City
  <2>1. crossing \in SUBSET Nat
    BY DEF Readable
  <2>2. Min(crossing) \in crossing
    BY <1>3, <2>1, MinIs
  <2>3. first \in Range(ps) /\ HubCrossings(first) # {}
    BY <2>2 DEF Range
  <2>4. first.crossings \in Seq(Range(first.crossings))
    BY <2>3 DEF Readable
  <2>5. HubCrossings(first) \in SUBSET Nat
    BY <2>4, CrossingPlaces
  <2>6. Min(HubCrossings(first)) \in HubCrossings(first)
    BY <2>3, <2>5, MinIs
  <2> QED
    BY <2>6 DEF HubCrossings
<1>4. crossing # {} => [by |-> "ixp", city |-> city] # None
  BY <1>3, ClassifierAssumption
<1> HIDE DEF crossing, city
<1> QED
  BY <1>1, <1>2, <1>3, <1>4

\* A router gives one just if those of foreign networks are in one city.
LEMMA RouterPicked ==
    ASSUME NEW ps, Readable(ps)
    PROVE  /\ HubCities(ps) \subseteq City /\ IsFiniteSet(HubCities(ps))
           /\ RouterPick(ps) # None <=> \E c \in City : HubCities(ps) = {c}
           /\ \A c \in City : HubCities(ps) = {c} => RouterPick(ps) = [by |-> "router", city |-> c]
<1>1. ASSUME NEW c \in HubCities(ps) PROVE c \in City
  <2>1. PICK h \in RouterHubs(ps) : c = h.city /\ HubVerdict(h) = "ok"
    BY DEF HubCities
  <2>2. PICK p \in Range(ps) : p.hub = h /\ p.hub # None
    BY DEF RouterHubs
  <2>3. h.floor = "ok"
    BY <2>1 DEF HubVerdict
  <2> QED
    BY <2>1, <2>2, <2>3 DEF Readable
<1>2. IsFiniteSet(HubCities(ps))
  <2> DEFINE places == {i \in DOMAIN ps : ps[i].hub \in RouterHubs(ps) /\ HubVerdict(ps[i].hub) = "ok"}
             f == [i \in places |-> ps[i].hub.city]
  <2>1. Len(ps) \in Nat /\ places \in SUBSET (1..Len(ps))
    BY DEF Readable
  <2>2. IsFiniteSet(places)
    BY <2>1, CountsUp
  <2>3. f \in Surjection(places, HubCities(ps))
    <3>1. \A c \in HubCities(ps) : \E i \in places : f[i] = c
      BY DEF HubCities, RouterHubs, Range
    <3>2. f \in [places -> HubCities(ps)]
      BY DEF HubCities
    <3> QED
      BY <3>1, <3>2 DEF Surjection
  <2> QED
    BY <2>2, <2>3, FS_Surjection
<1>3. \A S : IsFiniteSet(S) => (Cardinality(S) = 1 <=> \E c : S = {c})
  BY FS_Singleton
<1>4. RouterPick(ps) = IF Cardinality(HubCities(ps)) # 1 THEN None
                       ELSE [by |-> "router", city |-> CHOOSE c \in HubCities(ps) : TRUE]
  BY DEF RouterPick
<1>5. \A c \in City : [by |-> "router", city |-> c] # None
  BY ClassifierAssumption
<1>6. \A c : HubCities(ps) = {c} => (CHOOSE d \in HubCities(ps) : TRUE) = c
  OBVIOUS
<1>7. \A c \in City : HubCities(ps) = {c} => RouterPick(ps) = [by |-> "router", city |-> c]
  BY <1>2, <1>3, <1>4, <1>6
<1>8. RouterPick(ps) # None => \E c \in City : HubCities(ps) = {c}
  BY <1>1, <1>2, <1>3, <1>4
<1> QED
  BY <1>1, <1>2, <1>5, <1>7, <1>8
-----------------------------------------------------------------------------
(***************************************************************************)
(* The rules, for any traces at all.                                       *)
(***************************************************************************)
\* Probes in another order give the same detour, if no exchange gives one.
LEMMA OrderIsIrrelevant ==
    ASSUME NEW ps, NEW qs, Range(ps) = Range(qs), IxpPick(ps) = None, IxpPick(qs) = None
    PROVE  Detour(ps) = Detour(qs)
<1>1. RouterHubs(ps) = RouterHubs(qs)
  BY DEF RouterHubs
<1>2. HubCities(ps) = HubCities(qs)
  BY <1>1 DEF HubCities
<1>3. DetourPick(ps) = DetourPick(qs)
  BY <1>2 DEF DetourPick, RouterPick
<1>4. \A pick : ClaimVerdict(ps, pick) = ClaimVerdict(qs, pick)
  BY DEF ClaimVerdict, ClaimProbes
<1> QED
  BY <1>3, <1>4 DEF Detour

LEMMA ReversedRange ==
    ASSUME NEW s, s \in Seq(Range(s))
    PROVE  Range(Reversed(s)) = Range(s) /\ Reversed(s) \in Seq(Range(s))
<1>1. Len(s) \in Nat /\ DOMAIN s = 1..Len(s) /\ \A i \in 1..Len(s) : s[i] \in Range(s)
  BY DEF Range
<1>2. \A i \in 1..Len(s) : Len(s) + 1 - i \in 1..Len(s) /\ Len(s) + 1 - (Len(s) + 1 - i) = i
  BY <1>1
<1>3. DOMAIN Reversed(s) = 1..Len(s) /\ \A i \in 1..Len(s) : Reversed(s)[i] = s[Len(s) + 1 - i]
  BY <1>1 DEF Reversed
<1>4. ASSUME NEW x PROVE x \in Range(Reversed(s)) <=> x \in Range(s)
  <2>1. ASSUME NEW i \in 1..Len(s) PROVE \E j \in 1..Len(s) : Reversed(s)[j] = s[i]
    BY <1>2, <1>3
  <2>2. ASSUME NEW j \in 1..Len(s) PROVE \E i \in 1..Len(s) : Reversed(s)[j] = s[i]
    BY <1>2, <1>3
  <2>3. /\ Range(s) = {s[i] : i \in 1..Len(s)}
        /\ Range(Reversed(s)) = {Reversed(s)[i] : i \in 1..Len(s)}
    BY <1>1, <1>3 DEF Range
  <2> DEFINE n == Len(s)
             r == Reversed(s)
             A == Range(s)
             B == Range(r)
  <2>4. /\ \A i \in 1..n : (\E j \in 1..n : r[j] = s[i]) /\ (\E j \in 1..n : r[i] = s[j])
        /\ A = {s[i] : i \in 1..n} /\ B = {r[i] : i \in 1..n}
    BY <2>1, <2>2, <2>3
  <2> HIDE DEF n, r, A, B
  <2>5. x \in B <=> x \in A
    BY <2>4
  <2> QED
    BY <2>5 DEF r, A, B
<1>5. Reversed(s) \in Seq(Range(s))
  <2>1. \A i \in 1..Len(s) : s[Len(s) + 1 - i] \in Range(s)
    BY <1>1, <1>2
  <2>2. Reversed(s) = [i \in 1..Len(s) |-> s[Len(s) + 1 - i]]
    BY <1>1 DEF Reversed
  <2> DEFINE n == Len(s)
             R == Range(s)
             e(i) == s[Len(s) + 1 - i]
  <2>3. n \in Nat /\ \A i \in 1..n : e(i) \in R
    BY <1>1, <2>1
  <2> HIDE DEF n, R, e
  <2>4. [i \in 1..n |-> e(i)] \in Seq(R)
    BY <2>3
  <2> QED
    BY <2>2, <2>4 DEF n, R, e
<1>6. Range(Reversed(s)) = Range(s)
  BY <1>4
<1> QED
  BY <1>5, <1>6

LEMMA ReversedIxp ==
    ASSUME NEW ps, Readable(ps), IxpPick(ps) = None
    PROVE  IxpPick(Reversed(ps)) = None
<1>1. ps \in Seq(Range(ps))
  BY DEF Readable
<1>2. Range(Reversed(ps)) = Range(ps) /\ Reversed(ps) \in Seq(Range(ps))
  BY <1>1, ReversedRange
<1>3. Readable(Reversed(ps))
  BY <1>2 DEF Readable
<1>4. \A p \in Range(ps) : HubCrossings(p) = {}
  BY IxpPicked
<1> QED
  BY <1>2, <1>3, <1>4, IxpPicked

\* What a detour that is filed says: a city with coordinates.
LEMMA DetourIs ==
    ASSUME NEW ps, Readable(ps), Detour(ps) # None
    PROVE  /\ Detour(ps) = DetourPick(ps) /\ Detour(ps).city \in City
           /\ Detour(ps).by \in {"ixp", "router"}
           /\ ClaimVerdict(ps, Detour(ps)) # "impossible"
           /\ Detour(ps).by = "router" => /\ IxpPick(ps) = None
                                          /\ HubCities(ps) = {Detour(ps).city}
<1>1. Detour(ps) = DetourPick(ps) /\ ClaimVerdict(ps, Detour(ps)) # "impossible"
  BY DEF Detour
<1>2. CASE IxpPick(ps) # None
  <2>1. PICK c \in City : IxpPick(ps) = [by |-> "ixp", city |-> c]
    BY <1>2, IxpPicked
  <2>2. Detour(ps) = [by |-> "ixp", city |-> c]
    BY <1>1, <1>2, <2>1 DEF DetourPick
  <2> QED
    BY <1>1, <2>2
<1>3. CASE IxpPick(ps) = None
  <2>1. Detour(ps) = RouterPick(ps)
    BY <1>1, <1>3 DEF DetourPick
  <2>2. PICK c \in City : HubCities(ps) = {c}
    BY <2>1, RouterPicked
  <2>3. Detour(ps) = [by |-> "router", city |-> c]
    BY <2>1, <2>2, RouterPicked
  <2> QED
    BY <1>1, <1>3, <2>2, <2>3
<1> QED
  BY <1>2, <1>3

\* A detour that a probe at its hub contradicts is filed only if another there
\* supports it.
LEMMA ImpossibleNeedsSupport ==
    ASSUME NEW ps, Readable(ps), Detour(ps) # None,
           NEW p \in Range(ps), CrossesHub(p, Detour(ps)), p.floors[Detour(ps).city] = "impossible"
    PROVE  \E q \in Range(ps) : CrossesHub(q, Detour(ps)) /\ q.floors[Detour(ps).city] = "ok"
<1> DEFINE d == Detour(ps)
           crossed == {q \in Range(ps) : CrossesHub(q, d)}
           said == {q.floors[d.city] : q \in crossed} \ {"no_hop"}
<1>1. p \in crossed /\ ClaimProbes(ps, d) = crossed
  BY DEF ClaimProbes
<1>2. "impossible" \in said
  BY <1>1
<1>3. ClaimVerdict(ps, d) # "impossible"
  BY DetourIs
<1>4. said # {"impossible"}
  <2>1. SUFFICES ASSUME said = {"impossible"} PROVE FALSE
    OBVIOUS
  <2>2. {q.floors[d.city] : q \in ClaimProbes(ps, d)} \ {"no_hop"} = {"impossible"}
    BY <1>1, <2>1
  <2> HIDE DEF d
  <2>3. ClaimVerdict(ps, d) = "impossible"
    BY <2>2 DEF ClaimVerdict
  <2> QED
    BY <1>3, <2>3 DEF d
<1>5. PICK q \in crossed : q.floors[d.city] \notin {"no_hop", "impossible"}
  BY <1>2, <1>4
<1>6. q.floors[d.city] \in {"ok", "impossible", "no_hop"}
  <2>1. d.city \in City
    BY DetourIs
  <2> QED
    BY <1>5, <2>1 DEF Readable
<1> QED
  BY <1>5, <1>6

\* The router a detour rests on, if on any.
LEMMA RouterDetour ==
    ASSUME NEW ps, Readable(ps), Detour(ps) # None, Detour(ps).by = "router"
    PROVE  /\ \E p \in Range(ps) : p.hub # None /\ p.hub.city = Detour(ps).city /\ p.hub.floor = "ok"
           /\ \A p \in Range(ps) :
                p.hub # None /\ p.hub.floor = "ok" /\ p.hub.owners \subseteq Asn \ Fishbowl
                  /\ Cardinality(p.hub.owners) = 1 => p.hub.city = Detour(ps).city
           /\ \E p \in Range(ps) : p.hub # None /\ p.hub.city = Detour(ps).city
                  /\ p.hub.owners # {} /\ p.hub.owners \cap Fishbowl = {}
<1> DEFINE c == Detour(ps).city
<1>1. IxpPick(ps) = None /\ HubCities(ps) = {c}
  BY DetourIs
<1>2. \A p \in Range(ps) : p.hub # None => p.hub \in RouterHubs(ps)
  BY <1>1 DEF RouterHubs
<1>3. PICK h \in RouterHubs(ps) : h.city = c /\ HubVerdict(h) = "ok"
  BY <1>1 DEF HubCities
<1>4. PICK p \in Range(ps) : p.hub = h /\ p.hub # None
  BY <1>3 DEF RouterHubs
<1>5. h.floor = "ok" /\ h.owners \cap Fishbowl = {} /\ Cardinality(h.owners) = 1
  BY <1>3 DEF HubVerdict
<1>6. h.owners # {}
  <2>1. Cardinality({}) = 0
    BY FS_EmptySet
  <2> QED
    BY <1>5, <2>1
<1>7. ASSUME NEW q \in Range(ps), q.hub # None, q.hub.floor = "ok",
             q.hub.owners \subseteq Asn \ Fishbowl, Cardinality(q.hub.owners) = 1
      PROVE  q.hub.city = c
  <2>1. q.hub \in RouterHubs(ps)
    BY <1>2, <1>7
  <2>2. q.hub.owners \cap Fishbowl = {}
    BY <1>7
  <2>3. HubVerdict(q.hub) = "ok"
    BY <1>7, <2>2 DEF HubVerdict
  <2>4. q.hub.city \in HubCities(ps)
    BY <2>1, <2>3 DEF HubCities
  <2> QED
    BY <1>1, <2>4
<1> QED
  BY <1>3, <1>4, <1>5, <1>6, <1>7

\* Nothing filed and nothing escalated: nothing to look at.
LEMMA QuietIs ==
    ASSUME NEW ps, Readable(ps), Groups(ps) = {}, Escalations(ps) = {}, NEW p \in Range(ps)
    PROVE  /\ p.loop # "new" /\ p.hub = None
           /\ \A x \in Range(p.crossings) :
                /\ x.in # "TBA"
                /\ x.in = "local" => ~x.slow
                /\ x.in = "out" => PassedOver(x)
           /\ Unread(p) \/ ExternalUpstream(p)
<1>1. /\ \A h \in RouterHubs(ps) : HubVerdict(h) = "ok"
      /\ ~(\E q \in Range(ps) : q.loop = "new") /\ ~(Cardinality(HubCities(ps)) > 1)
      /\ ~TbaCrossed(ps) /\ ~SlowLocal(ps) /\ Claim(ps) # "impossible"
  <2>1. \A h \in RouterHubs(ps) : HubVerdict(h) = "ok"
    BY DEF Escalations
  <2> DEFINE Because(r) ==
        CASE r = "loop" -> \E q \in Range(ps) : q.loop = "new"
          [] r = "several_cities" -> Cardinality(HubCities(ps)) > 1
          [] r = "tba" -> TbaCrossed(ps)
          [] r = "slow_local" -> SlowLocal(ps)
          [] r = "infeasible" -> Claim(ps) = "impossible"
          [] r = "mixed" -> Claim(ps) = "mixed"
  <2>2. \A r \in {"loop", "several_cities", "tba", "slow_local", "infeasible", "mixed"} : ~Because(r)
    BY DEF Escalations
  <2>3. /\ ~Because("loop") /\ ~Because("several_cities") /\ ~Because("tba")
        /\ ~Because("slow_local") /\ ~Because("infeasible")
    <3> HIDE DEF Because
    <3> QED
      BY <2>2
  <2> QED
    BY <2>1, <2>3
<1>2. Detour(ps) = None
  BY DEF Groups
<1>3. DetourPick(ps) = None
  BY <1>1, <1>2 DEF Detour, Claim
<1>4. IxpPick(ps) = None /\ RouterPick(ps) = None
  BY <1>3 DEF DetourPick
<1>5. p.hub = None
  <2>1. SUFFICES ASSUME p.hub # None PROVE FALSE
    OBVIOUS
  <2>2. p.hub \in RouterHubs(ps)
    BY <1>4, <2>1 DEF RouterHubs
  <2>3. p.hub.city \in HubCities(ps)
    BY <1>1, <2>2 DEF HubCities
  <2>4. IsFiniteSet(HubCities(ps)) /\ HubCities(ps) \subseteq City
    BY RouterPicked
  <2>5. Cardinality(HubCities(ps)) \in Nat /\ Cardinality(HubCities(ps)) # 0
    BY <2>3, <2>4, FS_CardinalityType, FS_EmptySet
  <2>6. Cardinality(HubCities(ps)) = 1
    BY <1>1, <2>5
  <2>7. PICK c : HubCities(ps) = {c}
    BY <2>4, <2>6, FS_Singleton
  <2> QED
    BY <1>4, <2>4, <2>7, RouterPicked
<1>6. ASSUME NEW x \in Range(p.crossings)
      PROVE  /\ x.in # "TBA"
             /\ x.in = "local" => ~x.slow
             /\ x.in = "out" => PassedOver(x)
  <2>1. x.in # "TBA" /\ ~(x.in = "local" /\ x.slow)
    BY <1>1, <1>3 DEF TbaCrossed, Crosses, SlowLocal
  <2>2. HubCrossings(p) = {}
    BY <1>4, IxpPicked
  <2>3. ~(x.in = "out" /\ x.city \in City)
    BY <2>2 DEF HubCrossings, Range
  <2> QED
    BY <2>1, <2>3 DEF PassedOver
<1>7. Unread(p) \/ ExternalUpstream(p)
  <2> DEFINE shown == {i \in DOMAIN ps : ShowsTransit(ps[i])}
             places == {i \in DOMAIN ps : ShowsCandidate(ps[i])}
  <2>1. TransitPick(ps) = None /\ Range(CandidatePicks(ps)) = {}
    BY <1>2 DEF Groups
  <2>2. shown = {}
    <3>1. SUFFICES ASSUME shown # {} PROVE FALSE
      OBVIOUS
    <3>2. shown \in SUBSET Nat
      BY DEF Readable
    <3>3. Min(shown) \in shown
      <4> HIDE DEF shown
      <4> QED
        BY <3>1, <3>2, MinIs
    <3>4. TransitPick(ps) = ps[Min(shown)].up
      BY <3>1 DEF TransitPick
    <3> QED
      BY <2>1, <3>3, <3>4, ClassifierAssumption DEF ShowsTransit
  <2>3. places = {}
    <3>1. CandidatePicks(ps) = Chosen(ps, places) /\ places \in SUBSET (DOMAIN ps) /\ ps \in Seq(Range(ps))
      BY DEF CandidatePicks, Readable
    <3>2. Range(CandidatePicks(ps)) = {ps[i] : i \in places}
      BY <3>1, ChosenIs
    <3> HIDE DEF places
    <3> QED
      BY <2>1, <3>2
  <2>4. ~ShowsTransit(p) /\ ~ShowsCandidate(p)
    BY <2>2, <2>3 DEF Range
  <2> QED
    BY <2>4 DEF ShowsTransit, ShowsCandidate, Unread, ExternalUpstream
<1> QED
  BY <1>1, <1>5, <1>6, <1>7

\* The probes in a group, and why a new finding is filed.
LEMMA ThroughIs ==
    ASSUME NEW ps, ps \in Seq(Range(ps)), NEW up, \E p \in Range(ps) : p.up = up
    PROVE  /\ Through(ps, up) \in Seq(Range(Through(ps, up))) /\ Through(ps, up) # <<>>
           /\ \A n \in DOMAIN Through(ps, up) : Through(ps, up)[n].up = up
<1> DEFINE places == {i \in DOMAIN ps : ps[i].up = up}
<1>1. Through(ps, up) = Chosen(ps, places) /\ places \in SUBSET (DOMAIN ps)
  BY DEF Through
<1>2. places # {}
  BY DEF Range
<1>3. \A i \in places : ps[i].up = up
  OBVIOUS
<1> HIDE DEF places
<1>4. /\ Chosen(ps, places) \in Seq(Range(Chosen(ps, places))) /\ Chosen(ps, places) # <<>>
      /\ \A m \in DOMAIN Chosen(ps, places) : Chosen(ps, places)[m] \in {ps[i] : i \in places}
  BY <1>1, <1>2, ChosenIs
<1> QED
  BY <1>1, <1>3, <1>4

LEMMA TransitIs ==
    ASSUME NEW ps, Readable(ps), TransitPick(ps) # None
    PROVE  \E p \in Range(ps) : p.up = TransitPick(ps)
<1> DEFINE picks == {i \in DOMAIN ps : ShowsTransit(ps[i])}
<1>1. picks # {} /\ TransitPick(ps) = ps[Min(picks)].up
  BY DEF TransitPick
<1>2. picks \in SUBSET Nat
  BY DEF Readable
<1>3. Min(picks) \in DOMAIN ps
  BY <1>1, <1>2, MinIs
<1> QED
  BY <1>1, <1>3 DEF Range

LEMMA GroupIs ==
    ASSUME NEW ps, Readable(ps), NEW g \in Groups(ps)
    PROVE  /\ g.kind \in Kinds /\ g.probes \in Seq(Range(g.probes)) /\ g.probes # <<>>
           /\ g.kind # "detour" => \A n \in DOMAIN g.probes : g.probes[n].up = g.up
<1>0. ps \in Seq(Range(ps))
  BY DEF Readable
<1>1. CASE Detour(ps) # None
  <2>1. CASE g = Group("detour", None, ps, TRUE)
    <3>1. ps # <<>>
      <4>1. SUFFICES ASSUME ps = <<>> PROVE FALSE
        OBVIOUS
      <4>2. Range(ps) = {}
        BY <4>1 DEF Range
      <4>3. IxpPick(ps) = None
        BY <4>2, IxpPicked
      <4>4. HubCities(ps) = {}
        BY <4>2 DEF HubCities, RouterHubs
      <4>5. RouterPick(ps) = None
        BY <4>4, RouterPicked
      <4> QED
        BY <1>1, <4>3, <4>5 DEF Detour, DetourPick
    <3> QED
      BY <1>0, <1>1, <2>1, <3>1 DEF Group, Kinds
  <2>2. CASE g # Group("detour", None, ps, TRUE)
    <3>1. TransitPick(ps) # None /\ g = Group("transit", TransitPick(ps), Through(ps, TransitPick(ps)), FALSE)
      BY <1>1, <2>2 DEF Groups
    <3> QED
      BY <1>0, <3>1, TransitIs, ThroughIs DEF Group, Kinds
  <2> QED
    BY <2>1, <2>2
<1>2. CASE Detour(ps) = None /\ TransitPick(ps) # None
  <2>1. g = Group("transit", TransitPick(ps), Through(ps, TransitPick(ps)), TRUE)
    BY <1>2 DEF Groups
  <2> QED
    BY <1>0, <1>2, <2>1, TransitIs, ThroughIs DEF Group, Kinds
<1>3. CASE Detour(ps) = None /\ TransitPick(ps) = None
  <2> DEFINE picks == CandidatePicks(ps)
             places == {i \in DOMAIN ps : ShowsCandidate(ps[i])}
  <2>1. PICK p \in Range(picks) : g = Group("candidate", p.up, Through(picks, p.up), TRUE)
    BY <1>3 DEF Groups
  <2>2. picks = Chosen(ps, places) /\ places \in SUBSET (DOMAIN ps)
    BY DEF CandidatePicks
  <2>3. picks \in Seq(Range(picks))
    BY <1>0, <2>2, ChosenIs
  <2> HIDE DEF picks
  <2>4. /\ Through(picks, p.up) \in Seq(Range(Through(picks, p.up))) /\ Through(picks, p.up) # <<>>
        /\ \A n \in DOMAIN Through(picks, p.up) : Through(picks, p.up)[n].up = p.up
    BY <2>3, ThroughIs
  <2> QED
    BY <1>3, <2>1, <2>4 DEF Group, Kinds
<1> QED
  BY <1>1, <1>2, <1>3
-----------------------------------------------------------------------------
(***************************************************************************)
(* Filing, whatever readable traces the measurements return.               *)
(***************************************************************************)
MeasureAny == \E traces : Readable(traces) /\ Measure({traces})
FilingStep == MeasureAny \/ Advance

Filings == Init /\ [][FilingStep]_vars

\* The database: rows under ids of their own, all of them given out.
RowsHold ==
    /\ nextId \in Nat \ {0}
    /\ \A f \in findings :
         f \in [id : 1..(nextId - 1), kind : Kinds, cc : {f.cc}, asn : {f.asn}, tgt : {f.tgt}]
    /\ \A f, g \in findings : f.id = g.id => f = g

\* The measurement that is being filed.
RunHolds ==
    /\ runs \in Nat
    /\ run.stage = "idle" => run = NoRun
    /\ run.stage # "idle" =>
         /\ run \in [stage : {"file", "escalate"}, src : {run.src}, tgt : {run.tgt},
                     retest : Ids \cup {Fresh}, traces : {run.traces}, since : {run.since},
                     groups : SUBSET Groups(Clean(run.traces)), finding : {run.finding},
                     left : Seq(Range(run.left))]
         /\ Readable(run.traces)
         /\ run.retest # Fresh => Row(run.retest).tgt = run.tgt
         /\ run.stage = "escalate" => run.left = <<>>

\* A step adds findings, or gives one a kind.
StoreStep ==
    \/ UNCHANGED <<findings, nextId>>
    \/ \E kind \in Kinds : \E cc, asn, t : CreateFinding(kind, cc, asn, t)
    \/ \E i \in Ids : Row(i).kind = "candidate" /\ MarkAspaChecked(i)

\* What is said of a finding stays true of it.
Grows ==
    \A i \in Ids : /\ i \in Ids' /\ Row(i)'.id = i /\ Row(i)'.cc = Row(i).cc /\ Row(i)'.asn = Row(i).asn
                   /\ Row(i)'.tgt = Row(i).tgt /\ (Row(i)'.kind = "detour" <=> Row(i).kind = "detour")
                   /\ Row(i)'.kind # Row(i).kind => Row(i).kind = "candidate" /\ Row(i)'.kind = "transit"

LEMMA RowIs ==
    ASSUME RowsHold
    PROVE  /\ \A i \in Ids : Row(i) \in findings /\ Row(i).id = i /\ i \in 1..(nextId - 1)
           /\ \A f \in findings : Row(f.id) = f /\ f.id \in Ids
           /\ Fresh \notin Ids /\ nextId \notin Ids
<1>1. ASSUME NEW i \in Ids PROVE Row(i) \in findings /\ Row(i).id = i /\ i \in 1..(nextId - 1)
  <2>1. PICK f \in findings : f.id = i
    BY DEF Ids
  <2>2. Row(i) \in findings /\ Row(i).id = i
    BY <2>1 DEF Row
  <2> QED
    BY <2>1, <2>2 DEF RowsHold
<1>2. ASSUME NEW f \in findings PROVE Row(f.id) = f /\ f.id \in Ids
  <2>1. f.id \in Ids
    BY DEF Ids
  <2> QED
    BY <1>1, <2>1 DEF RowsHold
<1>3. nextId \in Nat
  BY DEF RowsHold
<1>4. \A i \in 1..(nextId - 1) : i # 0 /\ i # nextId
  BY <1>3
<1> QED
  BY <1>1, <1>2, <1>4 DEF Fresh

LEMMA StoreGrows ==
    ASSUME RowsHold, StoreStep
    PROVE  /\ RowsHold' /\ Grows
           /\ \A i \in Ids' : i \in Ids \/ (i = nextId /\ nextId' = nextId + 1)
<1>0. nextId \in Nat \ {0}
  BY DEF RowsHold
<1>1. CASE UNCHANGED <<findings, nextId>>
  <2>1. Ids' = Ids /\ \A i : Row(i)' = Row(i)
    BY <1>1 DEF Ids, Row
  <2>2. RowsHold'
    BY <1>1 DEF RowsHold
  <2> QED
    BY <2>1, <2>2, RowIs DEF Grows
<1>2. ASSUME NEW kind \in Kinds, NEW cc, NEW asn, NEW t, CreateFinding(kind, cc, asn, t)
      PROVE  /\ RowsHold' /\ Grows
             /\ \A i \in Ids' : i \in Ids \/ (i = nextId /\ nextId' = nextId + 1)
  <2> DEFINE row == [id |-> nextId, kind |-> kind, cc |-> cc, asn |-> asn, tgt |-> t]
  <2>1. findings' = findings \cup {row} /\ nextId' = nextId + 1
    BY <1>2 DEF CreateFinding
  <2>2. \A f \in findings : f.id \in 1..(nextId - 1) /\ f.id # nextId
    BY <1>0 DEF RowsHold
  <2>3. \A f \in findings' :
          f \in [id : 1..(nextId' - 1), kind : Kinds, cc : {f.cc}, asn : {f.asn}, tgt : {f.tgt}]
    <3>1. 1..(nextId - 1) \in SUBSET (1..(nextId' - 1)) /\ nextId \in 1..(nextId' - 1)
      BY <1>0, <2>1
    <3>2. row \in [id : 1..(nextId' - 1), kind : Kinds, cc : {row.cc}, asn : {row.asn}, tgt : {row.tgt}]
      BY <3>1
    <3>3. ASSUME NEW f \in findings
          PROVE  f \in [id : 1..(nextId' - 1), kind : Kinds, cc : {f.cc}, asn : {f.asn}, tgt : {f.tgt}]
      <4>1. f \in [id : 1..(nextId - 1), kind : Kinds, cc : {f.cc}, asn : {f.asn}, tgt : {f.tgt}]
        BY DEF RowsHold
      <4> QED
        BY <3>1, <4>1
    <3> QED
      BY <2>1, <3>2, <3>3
  <2>4. \A f, g \in findings' : f.id = g.id => f = g
    BY <2>1, <2>2 DEF RowsHold
  <2>5. RowsHold'
    BY <1>0, <2>1, <2>3, <2>4 DEF RowsHold
  <2>6. ASSUME NEW i \in Ids PROVE i \in Ids' /\ Row(i)' = Row(i)
    <3>1. Row(i) \in findings /\ Row(i).id = i
      BY RowIs
    <3>2. Row(i) \in findings'
      BY <2>1, <3>1
    <3>3. \A f \in findings' : f.id = i => f = Row(i)
      BY <2>4, <3>1, <3>2
    <3>4. (CHOOSE f \in findings' : f.id = i) = Row(i)
      BY <3>1, <3>2, <3>3
    <3>5. i \in Ids'
      BY <3>1, <3>2 DEF Ids
    <3> QED
      BY <3>4, <3>5 DEF Row
  <2>7. \A i \in Ids' : i \in Ids \/ (i = nextId /\ nextId' = nextId + 1)
    BY <2>1 DEF Ids
  <2> QED
    BY <2>5, <2>6, <2>7, RowIs DEF Grows
<1>3. ASSUME NEW j \in Ids, Row(j).kind = "candidate", MarkAspaChecked(j)
      PROVE  /\ RowsHold' /\ Grows
             /\ \A i \in Ids' : i \in Ids \/ (i = nextId /\ nextId' = nextId + 1)
  <2> DEFINE old == Row(j)
             row == [old EXCEPT !.kind = "transit"]
  <2>1. findings' = (findings \ {old}) \cup {row} /\ nextId' = nextId
    BY <1>3 DEF MarkAspaChecked
  <2>2. old \in findings /\ old.id = j
    BY RowIs
  <2>3. old \in [id : 1..(nextId - 1), kind : Kinds, cc : {old.cc}, asn : {old.asn}, tgt : {old.tgt}]
    BY <2>2 DEF RowsHold
  <2> HIDE DEF old
  <2>4. /\ row.id = j /\ row.kind = "transit" /\ row.cc = old.cc /\ row.asn = old.asn /\ row.tgt = old.tgt
        /\ row \in [id : 1..(nextId - 1), kind : Kinds, cc : {row.cc}, asn : {row.asn}, tgt : {row.tgt}]
    BY <2>2, <2>3 DEF Kinds
  <2> HIDE DEF row
  <2>5. \A f \in findings' :
          f \in [id : 1..(nextId' - 1), kind : Kinds, cc : {f.cc}, asn : {f.asn}, tgt : {f.tgt}]
    BY <2>1, <2>4 DEF RowsHold
  <2>6. \A f, g \in findings : f.id = g.id => f = g
    BY DEF RowsHold
  <2>7. \A f, g \in findings' : f.id = g.id => f = g
    BY <2>1, <2>2, <2>4, <2>6
  <2>8. RowsHold'
    BY <1>0, <2>1, <2>5, <2>7 DEF RowsHold
  <2>9. ASSUME NEW i \in Ids PROVE i \in Ids' /\ Row(i)' = IF i = j THEN row ELSE Row(i)
    <3>1. Row(i) \in findings /\ Row(i).id = i
      BY RowIs
    <3> DEFINE new == IF i = j THEN row ELSE Row(i)
    <3>2. new \in findings' /\ new.id = i
      BY <2>1, <2>2, <2>4, <3>1
    <3> HIDE DEF new
    <3>3. \A f \in findings' : f.id = i => f = new
      BY <2>7, <3>2
    <3>4. (CHOOSE f \in findings' : f.id = i) = new
      BY <3>2, <3>3
    <3>5. i \in Ids'
      BY <3>2 DEF Ids
    <3> QED
      BY <3>4, <3>5 DEF Row, new
  <2>10. \A i \in Ids' : i \in Ids
    BY <2>1, <2>2, <2>4 DEF Ids
  <2>11. Grows
    <3>1. Row(j) = old
      BY DEF old
    <3> QED
      BY <1>3, <2>4, <2>9, <3>1, RowIs DEF Grows
  <2> QED
    BY <2>8, <2>10, <2>11
<1> QED
  BY <1>1, <1>2, <1>3 DEF StoreStep
-----------------------------------------------------------------------------
LEMMA TailIs ==
    ASSUME NEW s, s \in Seq(Range(s)), s # <<>>
    PROVE  /\ Tail(s) \in Seq(Range(Tail(s))) /\ Head(s) = s[1] /\ 1 \in DOMAIN s
           /\ DOMAIN Tail(s) = 1..(Len(s) - 1) /\ Len(s) \in Nat
           /\ \A n \in DOMAIN Tail(s) : n + 1 \in DOMAIN s /\ Tail(s)[n] = s[n + 1]
<1>1. Len(s) \in Nat /\ Len(s) # 0 /\ DOMAIN s = 1..Len(s)
  OBVIOUS
<1>2. Tail(s) \in Seq(Range(s)) /\ Len(Tail(s)) = Len(s) - 1
  OBVIOUS
<1>3. DOMAIN Tail(s) = 1..(Len(s) - 1)
  BY <1>1, <1>2
<1>4. \A n \in 1..(Len(s) - 1) : Tail(s)[n] = s[n + 1] /\ n + 1 \in 1..Len(s)
  BY <1>1
<1>5. Tail(s) \in Seq(Range(Tail(s)))
  <2> DEFINE t == Tail(s)
             R == Range(s)
  <2>1. t \in Seq(R) /\ Len(t) \in Nat
    BY <1>2
  <2>2. Range(t) = {t[n] : n \in DOMAIN t}
    BY DEF Range
  <2> HIDE DEF t, R
  <2>3. DOMAIN t = 1..Len(t) /\ t = [n \in 1..Len(t) |-> t[n]]
    BY <2>1
  <2>4. t \in Seq(Range(t))
    BY <2>1, <2>2, <2>3
  <2> QED
    BY <2>4 DEF t
<1>6. Head(s) = s[1] /\ 1 \in DOMAIN s
  BY <1>1
<1> QED
  BY <1>1, <1>3, <1>4, <1>5, <1>6

\* The group that is filed next.
LEMMA FiledGroup ==
    ASSUME RunHolds, run.stage = "file", NEW g \in run.groups
    PROVE  /\ Readable(Clean(run.traces)) /\ g \in Groups(Clean(run.traces))
           /\ g.kind \in Kinds /\ g.probes \in Seq(Range(g.probes)) /\ g.probes # <<>>
           /\ g.kind # "detour" => \A n \in DOMAIN g.probes : g.probes[n].up = g.up
<1>1. Readable(run.traces) /\ run.groups \in SUBSET Groups(Clean(run.traces))
  BY DEF RunHolds
<1>2. Readable(Clean(run.traces))
  BY <1>1, CleanIs
<1> DEFINE clean == Clean(run.traces)
<1>3. Readable(clean) /\ g \in Groups(clean)
  BY <1>1, <1>2
<1> HIDE DEF clean
<1>4. /\ g.kind \in Kinds /\ g.probes \in Seq(Range(g.probes)) /\ g.probes # <<>>
      /\ g.kind # "detour" => \A n \in DOMAIN g.probes : g.probes[n].up = g.up
  BY <1>3, GroupIs
<1> QED
  BY <1>3, <1>4 DEF clean

LEMMA StepsStore ==
    ASSUME RunHolds, FilingStep
    PROVE  StoreStep
<1>1. CASE MeasureAny
  BY <1>1 DEF MeasureAny, Measure, Classify, StoreStep, store
<1>2. CASE FileGroup
  <2>1. PICK g \in run.groups : run.stage = "file" /\ (Extend(g) \/ Create(g) \/ Skip(g))
    BY <1>2 DEF FileGroup
  <2>2. CASE Create(g)
    <3>1. g.kind \in Kinds
      BY <2>1, FiledGroup
    <3> QED
      BY <2>2, <3>1 DEF Create, StoreStep
  <2> QED
    BY <2>1, <2>2 DEF Extend, Skip, StoreStep, store
<1>3. CASE Corroborate
  BY <1>3 DEF Corroborate, AddCorroboration, StoreStep
<1>4. CASE MarkTested \/ Finish \/ Raise
  BY <1>4 DEF MarkTested, Finish, Raise, StoreStep, store
<1>5. CASE \E i \in Ids : Promote(i)
  BY <1>5 DEF Promote, StoreStep
<1> QED
  BY <1>1, <1>2, <1>3, <1>4, <1>5 DEF FilingStep, Advance

LEMMA RunGoesOn ==
    ASSUME RunHolds, Grows, run.stage = "file", runs' = runs,
           NEW st \in {"file", "escalate"}, NEW G, G \subseteq run.groups, NEW F,
           NEW L, L \in Seq(Range(L)),
           run' = [run EXCEPT !.stage = st, !.groups = G, !.finding = F, !.left = L],
           run'.stage = "escalate" => run'.left = <<>>
    PROVE  RunHolds'
<1>1. /\ run \in [stage : {"file", "escalate"}, src : {run.src}, tgt : {run.tgt},
                  retest : Ids \cup {Fresh}, traces : {run.traces}, since : {run.since},
                  groups : SUBSET Groups(Clean(run.traces)), finding : {run.finding},
                  left : Seq(Range(run.left))]
      /\ Readable(run.traces) /\ (run.retest # Fresh => Row(run.retest).tgt = run.tgt)
      /\ runs \in Nat
  BY DEF RunHolds
<1>2. /\ run'.stage = st /\ run'.src = run.src /\ run'.tgt = run.tgt /\ run'.retest = run.retest
      /\ run'.traces = run.traces /\ run'.groups = G /\ run'.finding = F /\ run'.left = L
  BY <1>1
<1>3. run'.retest \in Ids' \cup {Fresh}
  BY <1>1, <1>2 DEF Grows
<1>5. (run.retest # Fresh => Row(run.retest).tgt = run.tgt)'
  <2>1. \A i \in Ids : (CHOOSE f \in findings' : f.id = i).tgt = Row(i).tgt
    BY DEF Grows, Row
  <2>2. SUFFICES ASSUME run'.retest # Fresh
                 PROVE  (CHOOSE f \in findings' : f.id = run'.retest).tgt = run'.tgt
    BY DEF Row, Fresh
  <2>3. run.retest \in Ids /\ run'.retest = run.retest /\ run'.tgt = run.tgt
    BY <1>1, <1>2, <2>2
  <2>4. Row(run.retest).tgt = run.tgt
    BY <1>1, <1>2, <2>2
  <2> QED
    BY <2>1, <2>3, <2>4
<1>4. run' \in [stage : {"file", "escalate"}, src : {run'.src}, tgt : {run'.tgt},
                retest : Ids' \cup {Fresh}, traces : {run'.traces}, since : {run'.since},
                groups : SUBSET Groups(Clean(run'.traces)), finding : {run'.finding},
                left : Seq(Range(run'.left))]
  BY <1>1, <1>2, <1>3
<1>6. run'.stage # "idle" /\ (run'.stage = "escalate" => run'.left = <<>>) /\ Readable(run'.traces)
  BY <1>1, <1>2
<1>7. (run.stage # "idle" => (run.retest # Fresh => Row(run.retest).tgt = run.tgt))' /\ runs' \in Nat
  BY <1>1, <1>5
<1> QED
  BY <1>4, <1>6, <1>7 DEF RunHolds

LEMMA RunSteps ==
    ASSUME RowsHold, RunHolds, [FilingStep]_vars, Grows
    PROVE  RunHolds'
<1>0. run.stage # "idle" =>
        /\ run \in [stage : {"file", "escalate"}, src : {run.src}, tgt : {run.tgt},
                    retest : Ids \cup {Fresh}, traces : {run.traces}, since : {run.since},
                    groups : SUBSET Groups(Clean(run.traces)), finding : {run.finding},
                    left : Seq(Range(run.left))]
        /\ run.stage = "escalate" => run.left = <<>>
  BY DEF RunHolds
<1>1. CASE MeasureAny
  <2>1. PICK traces : Readable(traces) /\ Measure({traces})
    BY <1>1 DEF MeasureAny
  <2>2. PICK src \in Source, tgt \in Target, retest \in Ids \cup {Fresh} : Classify(src, tgt, retest, traces)
    BY <2>1 DEF Measure
  <2>3. UNCHANGED <<findings, corrs, nextId>>
    BY <2>2 DEF Classify, store
  <2>4. Ids' = Ids /\ \A i : Row(i)' = Row(i)
    BY <2>3 DEF Ids, Row
  <2>5. /\ run' = [stage |-> IF traces = <<>> THEN "escalate" ELSE "file",
                   src |-> src, tgt |-> tgt, retest |-> retest, traces |-> traces, since |-> nextId,
                   groups |-> Groups(Clean(traces)), finding |-> 0, left |-> <<>>]
        /\ (retest # Fresh => Row(retest).tgt = tgt) /\ runs' = runs + 1
    BY <2>2 DEF Classify
  <2>6. runs \in Nat
    BY DEF RunHolds
  <2>7. /\ run'.stage \in {"file", "escalate"} /\ run'.src = src /\ run'.tgt = tgt /\ run'.retest = retest
        /\ run'.traces = traces /\ run'.groups = Groups(Clean(traces)) /\ run'.left = <<>>
    BY <2>5
  <2>8. run' \in [stage : {"file", "escalate"}, src : {run'.src}, tgt : {run'.tgt},
                  retest : Ids' \cup {Fresh}, traces : {run'.traces}, since : {run'.since},
                  groups : SUBSET Groups(Clean(run'.traces)), finding : {run'.finding},
                  left : Seq(Range(run'.left))]
    BY <2>4, <2>5, <2>7
  <2> QED
    BY <2>1, <2>4, <2>5, <2>6, <2>7, <2>8 DEF RunHolds
<1>2. CASE FileGroup
  <2>1. PICK g \in run.groups : run.stage = "file" /\ (Extend(g) \/ Create(g) \/ Skip(g))
    BY <1>2 DEF FileGroup
  <2>2. g.probes \in Seq(Range(g.probes))
    BY <2>1, FiledGroup
  <2>3. ASSUME NEW i, Take(g, i), runs' = runs PROVE RunHolds'
    <3>1. run' = [run EXCEPT !.groups = @ \ {g}, !.finding = i, !.left = g.probes]
      BY <2>3 DEF Take
    <3>2. run' = [run EXCEPT !.stage = "file", !.groups = run.groups \ {g}, !.finding = i, !.left = g.probes]
      BY <1>0, <2>1, <3>1
    <3>3. run.groups \ {g} \subseteq run.groups /\ run'.stage = "file"
      BY <1>0, <2>1, <3>1
    <3> QED
      BY <2>1, <2>2, <2>3, <3>2, <3>3, RunGoesOn
  <2>4. CASE Skip(g)
    <3>1. run' = [run EXCEPT !.groups = @ \ {g}] /\ runs' = runs
      BY <2>4 DEF Skip
    <3>2. run' = [run EXCEPT !.stage = "file", !.groups = run.groups \ {g},
                             !.finding = run.finding, !.left = run.left]
      BY <1>0, <2>1, <3>1
    <3> DEFINE L == run.left
               F == run.finding
               G == run.groups \ {g}
    <3>3. G \subseteq run.groups /\ L \in Seq(Range(L)) /\ run'.stage = "file"
      BY <1>0, <2>1, <3>1
    <3>4. run' = [run EXCEPT !.stage = "file", !.groups = G, !.finding = F, !.left = L]
      BY <3>2
    <3> HIDE DEF L, F, G
    <3> QED
      BY <2>1, <3>1, <3>3, <3>4, RunGoesOn
  <2>5. CASE Extend(g)
    BY <2>3, <2>5 DEF Extend
  <2>6. CASE Create(g)
    BY <2>3, <2>6 DEF Create
  <2> QED
    BY <2>1, <2>4, <2>5, <2>6
<1>3. CASE Corroborate
  <2>1. run.stage = "file" /\ run.left # <<>> /\ runs' = runs /\ run' = [run EXCEPT !.left = Tail(@)]
    BY <1>3 DEF Corroborate
  <2>2. run.left \in Seq(Range(run.left))
    BY <1>0, <2>1
  <2>3. Tail(run.left) \in Seq(Range(Tail(run.left)))
    BY <2>1, <2>2, TailIs
  <2>4. run' = [run EXCEPT !.stage = "file", !.groups = run.groups,
                           !.finding = run.finding, !.left = Tail(run.left)]
    BY <1>0, <2>1
  <2>5. run.groups \subseteq run.groups /\ run'.stage = "file"
    BY <1>0, <2>1
  <2> QED
    BY <2>1, <2>3, <2>4, <2>5, RunGoesOn
<1>4. CASE MarkTested
  <2>1. run.stage = "file" /\ run.left = <<>> /\ runs' = runs /\ run' = [run EXCEPT !.stage = "escalate"]
    BY <1>4 DEF MarkTested
  <2>2. run' = [run EXCEPT !.stage = "escalate", !.groups = run.groups,
                           !.finding = run.finding, !.left = run.left]
    BY <1>0, <2>1
  <2> DEFINE L == run.left
             F == run.finding
             G == run.groups
  <2>3. G \subseteq run.groups /\ L \in Seq(Range(L))
    BY <1>0, <2>1
  <2>4. run' = [run EXCEPT !.stage = "escalate", !.groups = G, !.finding = F, !.left = L]
    BY <2>2
  <2>5. run.stage = "file" /\ runs' = runs /\ run'.left = <<>>
    BY <1>0, <2>1
  <2> HIDE DEF L, F, G
  <2> QED
    BY <2>3, <2>4, <2>5, RunGoesOn
<1>5. CASE Finish \/ Raise
  <2>1. run' = NoRun /\ runs' = runs /\ runs \in Nat
    BY <1>5 DEF Finish, Raise, RunHolds
  <2>2. run'.stage = "idle"
    BY <2>1 DEF NoRun
  <2> QED
    BY <2>1, <2>2 DEF RunHolds, NoRun
<1>6. CASE (\E i \in Ids : Promote(i)) \/ UNCHANGED vars
  <2>1. run' = run /\ runs' = runs
    BY <1>6 DEF Promote, vars
  <2>2. CASE run.stage = "idle"
    BY <2>1, <2>2 DEF RunHolds, NoRun
  <2>3. CASE run.stage # "idle"
    <3>1. UNCHANGED vars
      BY <1>6, <2>3 DEF Promote
    <3>2. Ids' = Ids /\ \A i : Row(i)' = Row(i)
      BY <3>1 DEF vars, store, Ids, Row
    <3> QED
      BY <2>1, <3>2 DEF RunHolds
  <2> QED
    BY <2>2, <2>3
<1> QED
  BY <1>1, <1>2, <1>3, <1>4, <1>5, <1>6 DEF FilingStep, Advance

LEMMA StepGrows ==
    ASSUME RowsHold, RunHolds, [FilingStep]_vars
    PROVE  /\ StoreStep /\ Grows /\ RowsHold' /\ RunHolds'
           /\ \A i \in Ids' : i \in Ids \/ (i = nextId /\ nextId' = nextId + 1)
<1>1. CASE FilingStep
  BY <1>1, StepsStore, StoreGrows, RunSteps
<1>2. CASE UNCHANGED vars
  <2>1. StoreStep
    BY <1>2 DEF vars, store, StoreStep
  <2> QED
    BY <1>2, <2>1, StoreGrows, RunSteps
<1> QED
  BY <1>1, <1>2

LEMMA ShapeHolds == Filings => [](RowsHold /\ RunHolds)
<1>1. Init => RowsHold /\ RunHolds
  BY DEF Init, StoreInit, RowsHold, RunHolds, NoRun
<1>2. RowsHold /\ RunHolds /\ [FilingStep]_vars => (RowsHold /\ RunHolds)'
  BY StepGrows
<1> QED
  BY <1>1, <1>2, PTL DEF Filings
-----------------------------------------------------------------------------
(***************************************************************************)
(* The evidence: a corroboration belongs to its finding, for what the      *)
(* finding is never changes.                                               *)
(***************************************************************************)
Belongs(rows, c) ==
    \E f \in rows :
        /\ f.id = c.finding
        /\ IF f.kind = "detour" THEN c.cc = f.cc \/ c.retest = f.id ELSE c.up = f.asn
        /\ c.retest # Fresh =>
             \E h \in rows : h.id = c.retest /\ (f.kind = "detour" /\ h.kind = "detour" => f.id = h.id)

\* What _corroborate writes for a probe.
CorrOf(p) ==
    [finding |-> run.finding, msm |-> runs, up |-> p.up,
     cc |-> EconomyOf[run.src], retest |-> run.retest]

EvidenceHolds ==
    /\ corrs \in Seq(Range(corrs))
    /\ \A n \in DOMAIN corrs : corrs[n].msm \in 1..runs /\ Belongs(findings, corrs[n])
    /\ run.stage # "idle" => runs # 0
    /\ run.stage = "file" => \A n \in DOMAIN run.left : Belongs(findings, CorrOf(run.left[n]))

LEMMA BelongsStays ==
    ASSUME RowsHold, RowsHold', Grows, NEW c, Belongs(findings, c)
    PROVE  Belongs(findings', c)
<1>1. ASSUME NEW f \in findings
      PROVE  \E g \in findings' : /\ g.id = f.id /\ g.cc = f.cc /\ g.asn = f.asn
                                  /\ (g.kind = "detour" <=> f.kind = "detour")
  <2>1. f.id \in Ids /\ Row(f.id) = f
    BY RowIs
  <2>2. f.id \in Ids' /\ Row(f.id)'.id = f.id /\ Row(f.id)'.cc = f.cc /\ Row(f.id)'.asn = f.asn
        /\ (Row(f.id)'.kind = "detour" <=> f.kind = "detour")
    BY <2>1 DEF Grows
  <2>3. (CHOOSE h \in findings' : h.id = f.id) \in findings'
    BY <2>2 DEF Ids
  <2>4. Row(f.id)' = CHOOSE h \in findings' : h.id = f.id
    BY DEF Row
  <2> QED
    BY <2>2, <2>3, <2>4
<1>2. PICK f \in findings :
        /\ f.id = c.finding
        /\ IF f.kind = "detour" THEN c.cc = f.cc \/ c.retest = f.id ELSE c.up = f.asn
        /\ c.retest # Fresh =>
             \E h \in findings : h.id = c.retest /\ (f.kind = "detour" /\ h.kind = "detour" => f.id = h.id)
  BY DEF Belongs
<1>3. PICK g \in findings' : /\ g.id = f.id /\ g.cc = f.cc /\ g.asn = f.asn
                             /\ (g.kind = "detour" <=> f.kind = "detour")
  BY <1>1
<1>4. c.retest # Fresh =>
        \E h \in findings' : h.id = c.retest /\ (g.kind = "detour" /\ h.kind = "detour" => g.id = h.id)
  BY <1>1, <1>2, <1>3
<1>5. /\ g.id = c.finding
      /\ IF g.kind = "detour" THEN c.cc = g.cc \/ c.retest = g.id ELSE c.up = g.asn
  BY <1>2, <1>3
<1> QED
  BY <1>4, <1>5 DEF Belongs

\* The finding a group is filed under, as the database has it.
LEMMA FiledUnder ==
    ASSUME RowsHold, RunHolds, run.stage = "file", NEW g \in run.groups,
           NEW i \in Existing(g)
    PROVE  \E f \in findings :
             /\ f.id = i /\ f.kind = g.kind
             /\ g.kind # "detour" => f.asn = g.up
             /\ g.kind = "detour" =>
                  \/ i = run.retest
                  \/ f.cc = EconomyOf[run.src] /\ (run.retest # Fresh => Row(run.retest).kind # "detour")
<1>1. CASE g.kind # "detour"
  <2>1. i \in FindExisting(g.kind, g.up, run.tgt)
    BY <1>1 DEF Existing
  <2> QED
    BY <1>1, <2>1 DEF FindExisting
<1>2. CASE g.kind = "detour"
  <2> DEFINE retested == {j \in Ids \cap {run.retest} : Row(j).kind = "detour" /\ Row(j).tgt = run.tgt}
  <2>1. i \in (IF retested # {} THEN retested ELSE FindExistingDetour(EconomyOf[run.src], run.tgt))
    BY <1>2 DEF Existing
  <2>2. CASE retested # {}
    <3>1. i \in Ids /\ i = run.retest /\ Row(i).kind = "detour"
      BY <2>1, <2>2
    <3>2. Row(i) \in findings /\ Row(i).id = i
      BY <3>1, RowIs
    <3> QED
      BY <1>2, <3>1, <3>2
  <2>3. CASE retested = {}
    <3>1. PICK f \in findings : f.id = i /\ f.kind = "detour" /\ f.cc = EconomyOf[run.src]
      BY <2>1, <2>3 DEF FindExistingDetour
    <3>2. run.retest # Fresh => run.retest \in Ids /\ Row(run.retest).tgt = run.tgt
      BY DEF RunHolds
    <3>3. run.retest # Fresh => Row(run.retest).kind # "detour"
      BY <2>3, <3>2
    <3> QED
      BY <1>2, <3>1, <3>3
  <2> QED
    BY <2>2, <2>3
<1> QED
  BY <1>1, <1>2

\* A new detour is filed only if the one under retest is none.
LEMMA FiledAnew ==
    ASSUME RunHolds, run.stage = "file", NEW g \in run.groups, Existing(g) = {}
    PROVE  g.kind = "detour" /\ run.retest # Fresh => Row(run.retest).kind # "detour"
<1> SUFFICES ASSUME g.kind = "detour", run.retest # Fresh, Row(run.retest).kind = "detour" PROVE FALSE
  OBVIOUS
<1>1. run.retest \in Ids /\ Row(run.retest).tgt = run.tgt
  BY DEF RunHolds
<1>2. {i \in Ids \cap {run.retest} : Row(i).kind = "detour" /\ Row(i).tgt = run.tgt} # {}
  BY <1>1
<1> QED
  BY <1>2 DEF Existing

\* Evidence under one finding for a whole group of probes.
LEMMA GroupBelongs ==
    ASSUME NEW rows, NEW f \in rows, NEW g, NEW probe,
           NEW finding, NEW msm, NEW cc, NEW retest,
           f.id = finding, f.kind = g.kind, g.kind # "detour" => f.asn = g.up /\ probe.up = g.up,
           retest # Fresh => \E h \in rows : h.id = retest /\ (g.kind = "detour" /\ h.kind = "detour" => finding = retest),
           g.kind = "detour" => finding = retest \/ f.cc = cc
    PROVE  Belongs(rows, [finding |-> finding, msm |-> msm, up |-> probe.up, cc |-> cc, retest |-> retest])
<1> DEFINE c == [finding |-> finding, msm |-> msm, up |-> probe.up, cc |-> cc, retest |-> retest]
<1>1. c.finding = finding /\ c.up = probe.up /\ c.cc = cc /\ c.retest = retest
  OBVIOUS
<1> HIDE DEF c
<1>2. Belongs(rows, c)
  BY <1>1 DEF Belongs
<1> QED
  BY <1>2 DEF c

LEMMA TakenBelongs ==
    ASSUME RowsHold, RunHolds, RowsHold', RunHolds', Grows, run.stage = "file", NEW g \in run.groups,
           NEW i, Take(g, i), runs' = runs,
           NEW f \in findings', f.id = i, f.kind = g.kind, g.kind # "detour" => f.asn = g.up,
           g.kind = "detour" =>
             \/ i = run.retest
             \/ f.cc = EconomyOf[run.src] /\ (run.retest # Fresh => Row(run.retest).kind # "detour")
    PROVE  /\ \A n \in DOMAIN run'.left : Belongs(findings', CorrOf(run.left[n])')
           /\ run'.stage = "file"
<1>1. /\ run \in [stage : {"file", "escalate"}, src : {run.src}, tgt : {run.tgt},
                  retest : Ids \cup {Fresh}, traces : {run.traces}, since : {run.since},
                  groups : SUBSET Groups(Clean(run.traces)), finding : {run.finding},
                  left : Seq(Range(run.left))]
  BY DEF RunHolds
<1>2. /\ run'.src = run.src /\ run'.retest = run.retest /\ run'.finding = i /\ run'.left = g.probes
      /\ run'.stage = "file"
  BY <1>1 DEF Take
<1>3. run.retest # Fresh => \E h \in findings' :
        h.id = run.retest /\ (g.kind = "detour" /\ h.kind = "detour" => i = run.retest)
  <2>1. SUFFICES ASSUME run.retest # Fresh
                 PROVE  \E h \in findings' : h.id = run.retest /\ (g.kind = "detour" /\ h.kind = "detour" => i = run.retest)
    OBVIOUS
  <2>2. run.retest \in Ids
    BY <1>1, <2>1
  <2> DEFINE r == run.retest
             h == CHOOSE x \in findings' : x.id = r
  <2>3. r \in Ids' /\ (h.kind = "detour" <=> Row(r).kind = "detour")
    BY <2>2 DEF Grows, Row
  <2>4. h \in findings' /\ h.id = r
    BY <2>3 DEF Ids
  <2> HIDE DEF h
  <2> QED
    BY <2>1, <2>3, <2>4
<1>4. ASSUME NEW n \in DOMAIN g.probes
      PROVE  Belongs(findings', [finding |-> i, msm |-> runs, up |-> g.probes[n].up,
                                 cc |-> EconomyOf[run.src], retest |-> run.retest])
  <2>1. g.kind # "detour" => f.asn = g.up /\ g.probes[n].up = g.up
    BY FiledGroup
  <2> DEFINE rows == findings'
             probe == g.probes[n]
             cc == EconomyOf[run.src]
             retest == run.retest
             msm == runs
  <2>2. /\ f \in rows /\ f.id = i /\ f.kind = g.kind /\ (g.kind # "detour" => f.asn = g.up /\ probe.up = g.up)
        /\ retest # Fresh => \E h \in rows : h.id = retest /\ (g.kind = "detour" /\ h.kind = "detour" => i = retest)
        /\ g.kind = "detour" => i = retest \/ f.cc = cc
    BY <1>3, <2>1
  <2> HIDE DEF rows, probe, cc, retest, msm
  <2>3. Belongs(rows, [finding |-> i, msm |-> msm, up |-> probe.up, cc |-> cc, retest |-> retest])
    BY <2>2, GroupBelongs
  <2> QED
    BY <2>3 DEF rows, probe, cc, retest, msm
<1> QED
  BY <1>2, <1>4 DEF CorrOf

LEMMA EvidenceSteps ==
    ASSUME RowsHold, RunHolds, EvidenceHolds, [FilingStep]_vars,
           RowsHold', RunHolds', Grows
    PROVE  EvidenceHolds'
<1>0. runs \in Nat /\ corrs \in Seq(Range(corrs))
  BY DEF RunHolds, EvidenceHolds
<1>1. ASSUME UNCHANGED corrs, runs' \in {runs, runs + 1}
      PROVE  /\ corrs' \in Seq(Range(corrs'))
             /\ \A n \in DOMAIN corrs' : corrs'[n].msm \in 1..runs' /\ Belongs(findings', corrs'[n])
  <2>1. \A n \in DOMAIN corrs : Belongs(findings', corrs[n])
    BY BelongsStays DEF EvidenceHolds
  <2>2. 1..runs \subseteq 1..runs'
    BY <1>0, <1>1
  <2> QED
    BY <1>0, <1>1, <2>1, <2>2 DEF EvidenceHolds
<1>2. CASE MeasureAny
  <2>1. PICK traces : Readable(traces) /\ Measure({traces})
    BY <1>2 DEF MeasureAny
  <2>2. PICK src \in Source, tgt \in Target, retest \in Ids \cup {Fresh} : Classify(src, tgt, retest, traces)
    BY <2>1 DEF Measure
  <2>3. UNCHANGED corrs /\ runs' = runs + 1 /\ run'.left = <<>> /\ runs' # 0
    BY <1>0, <2>2 DEF Classify, store
  <2> QED
    BY <1>1, <2>3 DEF EvidenceHolds
<1>3. CASE FileGroup
  <2>1. PICK g \in run.groups : run.stage = "file" /\ (Extend(g) \/ Create(g) \/ Skip(g))
    BY <1>3 DEF FileGroup
  <2>2. UNCHANGED corrs /\ runs' = runs /\ runs # 0
    BY <2>1 DEF Extend, Create, Skip, CreateFinding, store, EvidenceHolds
  <2>3. CASE Extend(g)
    <3>1. PICK i \in Existing(g) : Take(g, i)
      BY <2>3 DEF Extend
    <3>2. findings' = findings
      BY <2>3 DEF Extend, store
    <3>3. PICK f \in findings :
             /\ f.id = i /\ f.kind = g.kind
             /\ g.kind # "detour" => f.asn = g.up
             /\ g.kind = "detour" =>
                  \/ i = run.retest
                  \/ f.cc = EconomyOf[run.src] /\ (run.retest # Fresh => Row(run.retest).kind # "detour")
      BY <2>1, <3>1, FiledUnder
    <3>4. \A n \in DOMAIN run'.left : Belongs(findings', CorrOf(run.left[n])')
      BY <2>1, <2>2, <3>1, <3>2, <3>3, TakenBelongs
    <3> QED
      BY <1>1, <2>2, <3>4 DEF EvidenceHolds
  <2>4. CASE Create(g)
    <3>1. /\ Take(g, nextId) /\ Existing(g) = {}
          /\ CreateFinding(g.kind, IF g.kind = "detour" THEN EconomyOf[run.src] ELSE None, g.up, run.tgt)
      BY <2>4 DEF Create
    <3> DEFINE f == [id |-> nextId, kind |-> g.kind, cc |-> IF g.kind = "detour" THEN EconomyOf[run.src] ELSE None,
                     asn |-> g.up, tgt |-> run.tgt]
    <3>2. f \in findings'
      BY <3>1 DEF CreateFinding
    <3>3. g.kind = "detour" /\ run.retest # Fresh => Row(run.retest).kind # "detour"
      BY <2>1, <3>1, FiledAnew
    <3>4. /\ f.id = nextId /\ f.kind = g.kind /\ f.asn = g.up
          /\ g.kind = "detour" => f.cc = EconomyOf[run.src]
      OBVIOUS
    <3> HIDE DEF f
    <3> DEFINE i == nextId
    <3>5. /\ f.id = i /\ Take(g, i)
          /\ g.kind = "detour" =>
               \/ i = run.retest
               \/ f.cc = EconomyOf[run.src] /\ (run.retest # Fresh => Row(run.retest).kind # "detour")
      BY <3>1, <3>3, <3>4
    <3> HIDE DEF i
    <3>6. \A n \in DOMAIN run'.left : Belongs(findings', CorrOf(run.left[n])')
      BY <2>1, <2>2, <3>2, <3>4, <3>5, TakenBelongs
    <3> QED
      BY <1>1, <2>2, <3>6 DEF EvidenceHolds
  <2>5. CASE Skip(g)
    <3>1. findings' = findings /\ run' = [run EXCEPT !.groups = @ \ {g}] /\ run.left = <<>>
      BY <2>5 DEF Skip, store
    <3>2. run'.left = <<>>
      BY <2>1, <3>1 DEF RunHolds
    <3> QED
      BY <1>1, <2>2, <3>2 DEF EvidenceHolds
  <2> QED
    BY <2>1, <2>3, <2>4, <2>5
<1>4. CASE Corroborate
  <2> DEFINE c == CorrOf(Head(run.left))
             s == run.left
  <2>1. /\ run.stage = "file" /\ s # <<>> /\ runs' = runs /\ findings' = findings
        /\ run' = [run EXCEPT !.left = Tail(@)]
    BY <1>4 DEF Corroborate, AddCorroboration
  <2>2. corrs' = Append(corrs, c)
    BY <1>4 DEF Corroborate, AddCorroboration, CorrOf
  <2>3. /\ run \in [stage : {"file", "escalate"}, src : {run.src}, tgt : {run.tgt},
                  retest : Ids \cup {Fresh}, traces : {run.traces}, since : {run.since},
                  groups : SUBSET Groups(Clean(run.traces)), finding : {run.finding},
                  left : Seq(Range(run.left))]
    BY <2>1 DEF RunHolds
  <2>4. /\ run'.stage = "file" /\ run'.left = Tail(s) /\ run'.finding = run.finding /\ run'.src = run.src
        /\ run'.retest = run.retest /\ s \in Seq(Range(s))
    BY <2>1, <2>3
  <2> HIDE DEF s
  <2>5. /\ Head(s) = s[1] /\ 1 \in DOMAIN s
        /\ \A n \in DOMAIN Tail(s) : n + 1 \in DOMAIN s /\ Tail(s)[n] = s[n + 1]
    BY <2>1, <2>4, TailIs
  <2>6. \A n \in DOMAIN s : Belongs(findings, CorrOf(s[n]))
    BY <2>1 DEF EvidenceHolds, s
  <2>7. Belongs(findings, c) /\ c.msm = runs
    BY <2>5, <2>6 DEF s, CorrOf
  <2>8. \A n \in DOMAIN Tail(s) : Belongs(findings, CorrOf(Tail(s)[n]))
    BY <2>5, <2>6
  <2>9. \A n \in DOMAIN run'.left : Belongs(findings', CorrOf(run.left[n])')
    BY <2>1, <2>4, <2>8 DEF CorrOf
  <2>10. runs # 0 /\ runs \in 1..runs
    BY <1>0, <2>1 DEF EvidenceHolds
  <2> HIDE DEF c
  <2>11. /\ corrs' \in Seq(Range(corrs) \cup {c}) /\ DOMAIN corrs' = 1..(Len(corrs) + 1) /\ Len(corrs) \in Nat
         /\ \A n \in 1..(Len(corrs) + 1) : corrs'[n] = IF n \in DOMAIN corrs THEN corrs[n] ELSE c
    BY <1>0, <2>2
  <2>12. corrs' \in Seq(Range(corrs'))
    <3> DEFINE t == corrs'
               N == Len(corrs) + 1
    <3>1. t \in Seq(Range(corrs) \cup {c}) /\ N \in Nat /\ DOMAIN t = 1..N
      BY <2>11
    <3>2. Range(t) = {t[n] : n \in DOMAIN t}
      BY DEF Range
    <3> HIDE DEF t, N
    <3>3. t = [n \in 1..N |-> t[n]]
      BY <3>1
    <3>4. t \in Seq(Range(t))
      BY <3>1, <3>2, <3>3
    <3> QED
      BY <3>4 DEF t
  <2>13. \A n \in DOMAIN corrs' : corrs'[n].msm \in 1..runs' /\ Belongs(findings', corrs'[n])
    BY <2>1, <2>7, <2>10, <2>11 DEF EvidenceHolds
  <2> QED
    BY <2>1, <2>9, <2>10, <2>12, <2>13 DEF EvidenceHolds
<1>5. CASE MarkTested \/ Finish \/ Raise
  <2>1. UNCHANGED corrs /\ runs' = runs
    BY <1>5 DEF MarkTested, Finish, Raise, store
  <2>2. run'.stage # "file" /\ run.stage # "idle"
    BY <1>5 DEF MarkTested, Finish, Raise, NoRun, RunHolds
  <2> QED
    BY <1>1, <2>1, <2>2 DEF EvidenceHolds
<1>6. CASE (\E i \in Ids : Promote(i)) \/ UNCHANGED vars
  <2>1. UNCHANGED <<corrs, run, runs>>
    BY <1>6 DEF Promote, MarkAspaChecked, vars, store
  <2>2. run.stage = "file" => findings' = findings
    BY <1>6 DEF Promote, vars, store
  <2>3. run'.stage = "file" => \A n \in DOMAIN run'.left : Belongs(findings', CorrOf(run.left[n])')
    BY <2>1, <2>2 DEF EvidenceHolds, CorrOf
  <2> QED
    BY <1>1, <2>1, <2>3 DEF EvidenceHolds
<1> QED
  BY <1>2, <1>3, <1>4, <1>5, <1>6 DEF FilingStep, Advance
-----------------------------------------------------------------------------
(***************************************************************************)
(* Both specifications file readable traces: Spec those it is given,       *)
(* TracingSpec those Topology makes of the probes' replies.                *)
(***************************************************************************)
LEMMA SpecFiles == Spec => Filings
<1>1. [Next]_vars => [FilingStep]_vars
  <2>1. Measure(Traces) => MeasureAny
    BY FilingAssumption DEF Measure, MeasureAny
  <2> QED
    BY <2>1 DEF Next, FilingStep
<1> QED
  BY <1>1, PTL DEF Spec, Filings

LEMMA CrossingsIs ==
    ASSUME NEW hops, hops \in Seq(Range(hops))
    PROVE  Crossings(hops) \in Seq(Range(Crossings(hops)))
<1> DEFINE places == CrossingHops(hops)
           N == Cardinality(places)
           at == Chosen([i \in DOMAIN hops |-> i], places)
<1>1. Len(hops) \in Nat /\ places \in SUBSET (1..Len(hops))
  BY DEF CrossingHops
<1>2. N \in Nat
  BY <1>1, CountsUp
<1>3. DOMAIN at = 1..N
  BY DEF Chosen
<1>4. Crossings(hops) = [n \in 1..N |-> Crossed(hops, at[n])]
  BY <1>3 DEF Crossings
<1> HIDE DEF N, at
<1> DEFINE e(n) == Crossed(hops, at[n])
           t == [n \in 1..N |-> e(n)]
<1>5. Range(t) = {e(n) : n \in 1..N}
  <2> HIDE DEF e
  <2> QED
    BY DEF Range
<1> HIDE DEF e
<1>6. t \in Seq(Range(t))
  BY <1>2, <1>5
<1> QED
  BY <1>4, <1>6 DEF e

LEMMA HubIs ==
    ASSUME NEW hops, find_router_hub(hops) # None, find_router_hub(hops).floor = "ok"
    PROVE  find_router_hub(hops).city \in City
<1> DEFINE hop == hops[Min(Located(hops))]
           city == LocatedIn[Single(hop)]
           floor == IF city \notin City THEN "unmapped"
                    ELSE IF Floor(Rtt(hop), HubFloor[city]) = "ok" THEN "ok" ELSE "too_fast"
<1>1. find_router_hub(hops) = [city |-> city, floor |-> floor, owners |-> Owners(hop)]
  BY DEF find_router_hub
<1>2. floor = "ok" => city \in City
  OBVIOUS
<1> HIDE DEF city, floor
<1> QED
  BY <1>1, <1>2

LEMMA AnalysisReadable ==
    ASSUME NEW rs, rs \in Seq(Range(rs)), \A hops \in Range(rs) : hops \in Seq(Range(hops))
    PROVE  Readable(analyze_measurement(rs))
<1> DEFINE ps == [i \in DOMAIN rs |-> Analyzed(rs[i])]
           byRouter == IxpPick(Clean(ps)) = None
           floors(i) == [c \in City |-> probe_verdict(check_detour_trace(rs[i], c, byRouter))]
           e(i) == [Analyzed(rs[i]) EXCEPT !.floors = floors(i)]
           t == analyze_measurement(rs)
<1>1. t = [i \in DOMAIN rs |-> e(i)]
  BY DEF analyze_measurement
<1>2. ASSUME NEW i \in DOMAIN rs
      PROVE  /\ e(i).crossings = Crossings(rs[i]) /\ e(i).hub = find_router_hub(rs[i])
             /\ \A c \in City : e(i).floors[c] \in {"ok", "impossible", "no_hop"}
  <2> DEFINE agreement == check_neighbor_agreement(extract_as_sequence(rs[i]))
             path == extract_as_sequence(rs[i])
             fl == floors(i)
  <2>1. Analyzed(rs[i]) =
          [first |-> IF path # <<>> /\ path[1].asn \in Proxies THEN "proxy" ELSE "local",
           loop |-> Loop(rs[i]), crossings |-> Crossings(rs[i]),
           up |-> agreement.up, ris |-> agreement.ris,
           contiguous |-> agreement.contiguous, reached |-> agreement.reached,
           hidden |-> HiddenBeforeTarget(rs[i]), hub |-> find_router_hub(rs[i]),
           floors |-> [c \in City |-> "no_hop"]]
    BY DEF Analyzed
  <2>2. \A c \in City : fl[c] \in {"ok", "impossible", "no_hop"}
    BY DEF probe_verdict
  <2> HIDE DEF path, agreement, fl
  <2>3. /\ [Analyzed(rs[i]) EXCEPT !.floors = fl].crossings = Crossings(rs[i])
        /\ [Analyzed(rs[i]) EXCEPT !.floors = fl].hub = find_router_hub(rs[i])
        /\ [Analyzed(rs[i]) EXCEPT !.floors = fl].floors = fl
    BY <2>1
  <2> QED
    BY <2>2, <2>3 DEF fl
<1> HIDE DEF e
<1>3. t \in Seq(Range(t))
  <2> DEFINE N == Len(rs)
  <2>1. N \in Nat /\ DOMAIN rs = 1..N
    OBVIOUS
  <2> HIDE DEF N
  <2>2. t = [i \in 1..N |-> e(i)]
    BY <1>1, <2>1
  <2>3. Range(t) = {e(i) : i \in 1..N}
    BY <2>2 DEF Range
  <2> HIDE DEF t
  <2> QED
    BY <2>1, <2>2, <2>3
<1>4. ASSUME NEW p \in Range(t)
      PROVE  /\ p.crossings \in Seq(Range(p.crossings))
             /\ \A c \in City : p.floors[c] \in {"ok", "impossible", "no_hop"}
             /\ p.hub # None /\ p.hub.floor = "ok" => p.hub.city \in City
  <2>1. PICK i \in DOMAIN rs : p = e(i)
    BY <1>1 DEF Range
  <2>2. rs[i] \in Range(rs)
    BY DEF Range
  <2>3. rs[i] \in Seq(Range(rs[i]))
    BY <2>2
  <2> QED
    BY <1>2, <2>1, <2>3, CrossingsIs, HubIs
<1> HIDE DEF t
<1>5. Readable(t)
  BY <1>3, <1>4 DEF Readable
<1> QED
  BY <1>5 DEF t

LEMMA TracingFiles == TracingSpec => Filings
<1> DEFINE RawsHold == raws \in Raws \cup {<<>>}
<1>1. TracingInit => Init /\ RawsHold
  BY DEF TracingInit
<1>2. RawsHold /\ [TracingNext]_tracingVars => RawsHold' /\ [FilingStep]_vars
  <2> SUFFICES ASSUME RawsHold, [TracingNext]_tracingVars PROVE RawsHold' /\ [FilingStep]_vars
    OBVIOUS
  <2>1. CASE Returned \/ UNCHANGED tracingVars
    BY <2>1 DEF Returned, tracingVars
  <2>2. CASE Measured
    <3>1. raws \in Raws /\ UNCHANGED raws
      BY <2>2 DEF Measured
    <3> DEFINE traces == analyze_measurement(raws)
    <3>2. raws \in Seq(Range(raws)) /\ \A hops \in Range(raws) : hops \in Seq(Range(hops))
      BY <3>1, TracingAssumption
    <3>3. Readable(traces)
      BY <3>2, AnalysisReadable
    <3>4. PICK src \in Source, retest \in Ids \cup {Fresh} : Classify(src, TargetAsn, retest, traces)
      BY <2>2 DEF Measured
    <3>5. Measure({traces})
      <4> HIDE DEF traces
      <4> QED
        BY <3>4, TracingAssumption DEF Measure
    <3> QED
      BY <3>1, <3>3, <3>5 DEF FilingStep, MeasureAny
  <2>3. CASE Continued
    BY <2>3 DEF Continued, FilingStep
  <2> QED
    BY <2>1, <2>2, <2>3 DEF TracingNext
<1> QED
  BY <1>1, <1>2, PTL DEF TracingSpec, Filings
-----------------------------------------------------------------------------
(***************************************************************************)
(* What the runs check, for any networks, cities and traces.               *)
(***************************************************************************)
\* The run at hand was classified from readable traces.
LEMMA CleanInHand ==
    ASSUME RunHolds, run.stage # "idle"
    PROVE  Readable(Clean(run.traces))
BY CleanIs DEF RunHolds

\* A run that files nothing and asks for nobody's look saw no new loop, no router
\* off region by name, no exchange without a verdict or slower than a local one,
\* and no upstream it could read: but for an exchange out of the region in a city
\* without coordinates and an upstream out of the region that RIS confirms.
THEOREM NothingIsPassedOver == Spec \/ TracingSpec => []InconclusiveIsQuiet
<1>1. RowsHold /\ RunHolds => InconclusiveIsQuiet
  <2> SUFFICES ASSUME RunHolds, run.stage = "escalate",
                      Groups(Clean(run.traces)) = {}, Escalations(Clean(run.traces)) = {},
                      NEW p \in Range(Clean(run.traces))
               PROVE  /\ p.loop # "new" /\ p.hub = None
                      /\ \A x \in Range(p.crossings) :
                           /\ x.in # "TBA"
                           /\ x.in = "local" => ~x.slow
                           /\ x.in = "out" => PassedOver(x)
                      /\ Unread(p) \/ ExternalUpstream(p)
    BY DEF InconclusiveIsQuiet
  <2> DEFINE clean == Clean(run.traces)
  <2>1. Readable(clean) /\ Groups(clean) = {} /\ Escalations(clean) = {} /\ p \in Range(clean)
    BY CleanInHand
  <2> HIDE DEF clean
  <2> QED
    BY <2>1, QuietIs
<1> QED
  BY <1>1, ShapeHolds, SpecFiles, TracingFiles, PTL

\* A detour filed on a router's name rests on one foreign network's router,
\* answering no faster than light allows, and on probes that agree on the city.
THEOREM RouterDetoursAreGuarded == Spec \/ TracingSpec => []RouterDetourIsGuarded
<1>1. RowsHold /\ RunHolds => RouterDetourIsGuarded
  <2> SUFFICES ASSUME RunHolds, run.stage = "file" PROVE RouterDetourIsGuarded
    BY DEF RouterDetourIsGuarded
  <2> DEFINE clean == Clean(run.traces)
  <2>1. Readable(clean)
    BY CleanInHand
  <2> HIDE DEF clean
  <2>2. Detour(clean) # None /\ Detour(clean).by = "router" =>
           /\ \E p \in Range(clean) : p.hub # None /\ p.hub.city = Detour(clean).city /\ p.hub.floor = "ok"
           /\ \A p \in Range(clean) :
                p.hub # None /\ p.hub.floor = "ok" /\ p.hub.owners \subseteq Asn \ Fishbowl
                  /\ Cardinality(p.hub.owners) = 1 => p.hub.city = Detour(clean).city
           /\ \E p \in Range(clean) : p.hub # None /\ p.hub.city = Detour(clean).city
                  /\ p.hub.owners # {} /\ p.hub.owners \cap Fishbowl = {}
    BY <2>1, RouterDetour
  <2> QED
    BY <2>2 DEF RouterDetourIsGuarded, clean
<1> QED
  BY <1>1, ShapeHolds, SpecFiles, TracingFiles, PTL

\* Which city is filed does not depend on the order of the probes when no
\* exchange gave it.
THEOREM OrderDoesNotMatter == Spec \/ TracingSpec => []RouterOrderIrrelevant
<1>1. RowsHold /\ RunHolds => RouterOrderIrrelevant
  <2> SUFFICES ASSUME RunHolds, run.stage = "file", IxpPick(Clean(run.traces)) = None
               PROVE  Detour(Clean(run.traces)) = Detour(Reversed(Clean(run.traces)))
    BY DEF RouterOrderIrrelevant
  <2> DEFINE clean == Clean(run.traces)
  <2>1. Readable(clean) /\ clean \in Seq(Range(clean)) /\ IxpPick(clean) = None
    BY CleanInHand DEF Readable
  <2> HIDE DEF clean
  <2>2. Range(Reversed(clean)) = Range(clean) /\ IxpPick(Reversed(clean)) = None
    BY <2>1, ReversedRange, ReversedIxp
  <2>3. Detour(clean) = Detour(Reversed(clean))
    BY <2>1, <2>2, OrderIsIrrelevant
  <2> QED
    BY <2>3 DEF clean
<1> QED
  BY <1>1, ShapeHolds, SpecFiles, TracingFiles, PTL

\* No detour is filed that every probe it rests on contradicts.
THEOREM DetoursArePossible == Spec \/ TracingSpec => []NoImpossibleDetour
<1>1. RowsHold /\ RunHolds => NoImpossibleDetour
  <2> SUFFICES ASSUME RunHolds, run.stage = "file" PROVE NoImpossibleDetour
    BY DEF NoImpossibleDetour
  <2> DEFINE clean == Clean(run.traces)
  <2>1. Readable(clean)
    BY CleanInHand
  <2> HIDE DEF clean
  <2>2. Detour(clean) # None
          /\ (\E p \in Range(clean) : CrossesHub(p, Detour(clean)) /\ p.floors[Detour(clean).city] = "impossible") =>
            \E p \in Range(clean) : CrossesHub(p, Detour(clean)) /\ p.floors[Detour(clean).city] = "ok"
    BY <2>1, ImpossibleNeedsSupport
  <2> QED
    BY <2>2 DEF NoImpossibleDetour, clean
<1> QED
  BY <1>1, ShapeHolds, SpecFiles, TracingFiles, PTL

LEMMA EvidenceStays == Filings => [](RowsHold /\ RunHolds /\ EvidenceHolds)
<1>1. Init => RowsHold /\ RunHolds /\ EvidenceHolds
  BY DEF Init, StoreInit, RowsHold, RunHolds, NoRun, EvidenceHolds
<1>2. RowsHold /\ RunHolds /\ EvidenceHolds /\ [FilingStep]_vars => (RowsHold /\ RunHolds /\ EvidenceHolds)'
  BY StepGrows, EvidenceSteps
<1> QED
  BY <1>1, <1>2, PTL DEF Filings

\* Evidence is for the finding it is filed under: its upstream's, or a detour's
\* from the economy of the trace unless the trace was a retest of that detour.
THEOREM EvidenceIsForItsFinding == Spec \/ TracingSpec => []EvidenceMatches
<1>1. RowsHold /\ RunHolds /\ EvidenceHolds => EvidenceMatches
  <2> SUFFICES ASSUME RowsHold, EvidenceHolds, NEW n \in DOMAIN corrs
               PROVE  LET c == corrs[n]  f == Row(c.finding) IN
                      IF f.kind = "detour" THEN c.cc = f.cc \/ c.retest = f.id ELSE c.up = f.asn
    BY DEF EvidenceMatches
  <2>1. Belongs(findings, corrs[n])
    BY DEF EvidenceHolds
  <2>2. PICK f \in findings :
          /\ f.id = corrs[n].finding
          /\ IF f.kind = "detour" THEN corrs[n].cc = f.cc \/ corrs[n].retest = f.id ELSE corrs[n].up = f.asn
    BY <2>1 DEF Belongs
  <2>3. Row(corrs[n].finding) = f
    BY <2>2, RowIs
  <2> QED
    BY <2>2, <2>3
<1> QED
  BY <1>1, EvidenceStays, SpecFiles, TracingFiles, PTL

\* A retest that finds its detour again refreshes that finding, wherever its
\* probes have turned out to be, and files no other detour.
THEOREM RetestsRefreshTheirs == Spec \/ TracingSpec => []RetestRefreshes
<1>1. RowsHold /\ RunHolds /\ EvidenceHolds => RetestRefreshes
  <2> SUFFICES ASSUME RowsHold, EvidenceHolds, NEW n \in DOMAIN corrs,
                      corrs[n].retest # Fresh, Row(corrs[n].finding).kind = "detour",
                      Row(corrs[n].retest).kind = "detour"
               PROVE  corrs[n].finding = corrs[n].retest
    BY DEF RetestRefreshes
  <2>1. Belongs(findings, corrs[n])
    BY DEF EvidenceHolds
  <2>2. PICK f \in findings, h \in findings :
          f.id = corrs[n].finding /\ h.id = corrs[n].retest /\ (f.kind = "detour" /\ h.kind = "detour" => f.id = h.id)
    BY <2>1 DEF Belongs
  <2>3. Row(corrs[n].finding) = f /\ Row(corrs[n].retest) = h
    BY <2>2, RowIs
  <2> QED
    BY <2>2, <2>3
<1> QED
  BY <1>1, EvidenceStays, SpecFiles, TracingFiles, PTL
-----------------------------------------------------------------------------
(***************************************************************************)
(* Nothing is lost.                                                        *)
(***************************************************************************)
LEMMA AppendIs ==
    ASSUME NEW s, s \in Seq(Range(s)), NEW c
    PROVE  /\ Len(s) \in Nat /\ DOMAIN s = 1..Len(s) /\ Len(Append(s, c)) = Len(s) + 1
           /\ DOMAIN Append(s, c) = 1..(Len(s) + 1)
           /\ \A n \in 1..Len(s) : Append(s, c)[n] = s[n]
           /\ Append(s, c)[Len(s) + 1] = c
OBVIOUS

\* Only a probe's corroboration adds to the evidence.
LEMMA CorrsAppended ==
    ASSUME [FilingStep]_vars
    PROVE  corrs' = corrs \/ Corroborate
<1>1. CASE MeasureAny
  BY <1>1 DEF MeasureAny, Measure, Classify, store
<1>2. CASE FileGroup
  BY <1>2 DEF FileGroup, Extend, Create, Skip, CreateFinding, store
<1>3. CASE MarkTested \/ Finish \/ Raise
  BY <1>3 DEF MarkTested, Finish, Raise, store
<1>4. CASE (\E i \in Ids : Promote(i)) \/ UNCHANGED vars
  BY <1>4 DEF Promote, MarkAspaChecked, vars, store
<1> QED
  BY <1>1, <1>2, <1>3, <1>4 DEF FilingStep, Advance

\* A finding stays, under its id, with its identity and its evidence; its kind
\* changes at most from candidate to transit.
THEOREM NothingIsLost == Spec \/ TracingSpec => FindingsOnlyGrow
<1> DEFINE Stays ==
      /\ \A f \in findings : \E g \in findings' :
            /\ g = [f EXCEPT !.kind = g.kind]
            /\ g.kind # f.kind => f.kind = "candidate" /\ g.kind = "transit"
      /\ Len(corrs') >= Len(corrs) /\ \A n \in DOMAIN corrs : corrs'[n] = corrs[n]
<1>1. RowsHold /\ RunHolds /\ EvidenceHolds /\ [FilingStep]_vars => Stays
  <2> SUFFICES ASSUME RowsHold, RunHolds, EvidenceHolds, [FilingStep]_vars PROVE Stays
    OBVIOUS
  <2>1. Grows /\ RowsHold'
    BY StepGrows
  <2>2. ASSUME NEW f \in findings
        PROVE  \E g \in findings' :
                 /\ g = [f EXCEPT !.kind = g.kind]
                 /\ g.kind # f.kind => f.kind = "candidate" /\ g.kind = "transit"
    <3> DEFINE i == f.id
               g == CHOOSE h \in findings' : h.id = i
    <3>1. i \in Ids /\ Row(i) = f
      BY RowIs
    <3>2. /\ i \in Ids' /\ g.cc = f.cc /\ g.asn = f.asn /\ g.tgt = f.tgt
          /\ g.kind # f.kind => f.kind = "candidate" /\ g.kind = "transit"
      BY <2>1, <3>1 DEF Grows, Row
    <3>3. g \in findings' /\ g.id = i
      BY <3>2 DEF Ids
    <3> HIDE DEF g
    <3>4. /\ f \in [id : 1..(nextId - 1), kind : Kinds, cc : {f.cc}, asn : {f.asn}, tgt : {f.tgt}]
          /\ g \in [id : 1..(nextId' - 1), kind : Kinds, cc : {g.cc}, asn : {g.asn}, tgt : {g.tgt}]
      BY <2>1, <3>3 DEF RowsHold
    <3>5. g = [f EXCEPT !.kind = g.kind]
      BY <3>2, <3>3, <3>4
    <3> QED
      BY <3>2, <3>3, <3>5
  <2>3. Len(corrs') >= Len(corrs) /\ \A n \in DOMAIN corrs : corrs'[n] = corrs[n]
    <3>1. corrs \in Seq(Range(corrs))
      BY DEF EvidenceHolds
    <3>2. corrs' = corrs \/ \E c : corrs' = Append(corrs, c)
      BY CorrsAppended DEF Corroborate, AddCorroboration
    <3>3. CASE corrs' = corrs
      <4>1. Len(corrs) \in Nat
        BY <3>1
      <4> QED
        BY <3>3, <4>1
    <3>4. ASSUME NEW c, corrs' = Append(corrs, c)
          PROVE  Len(corrs') >= Len(corrs) /\ \A n \in DOMAIN corrs : corrs'[n] = corrs[n]
      BY <3>1, <3>4, AppendIs
    <3> QED
      BY <3>2, <3>3, <3>4
  <2> QED
    BY <2>2, <2>3
<1>2. Filings => [][Stays]_vars
  BY <1>1, EvidenceStays, PTL DEF Filings
<1> QED
  BY <1>2, SpecFiles, TracingFiles, PTL DEF FindingsOnlyGrow
-----------------------------------------------------------------------------
(***************************************************************************)
(* What a run files: one kind, and at most one finding without evidence.   *)
(***************************************************************************)
EvidenceIn(cs, i) == {n \in DOMAIN cs : cs[n].finding = i}
Writing == run.stage = "file" /\ run.left # <<>>
Bare == {i \in Ids : EvidenceIn(corrs, i) = {}}

\* The kinds the run at hand has groups of: what it has created, written about,
\* or is writing about is of one of them.
OfGroup(f, create) == \E g \in Groups(Clean(run.traces)) : g.kind = f.kind /\ (create => g.create)
KindsHold ==
    run.stage # "idle" =>
        /\ run.since \in Nat
        /\ \A f \in findings : f.id >= run.since => OfGroup(f, TRUE)
        /\ \A n \in DOMAIN corrs : corrs[n].msm = runs =>
             \E f \in findings : f.id = corrs[n].finding /\ OfGroup(f, FALSE)
        /\ run.left # <<>> => \E f \in findings : f.id = run.finding /\ OfGroup(f, FALSE)

\* Of the findings without evidence, all but the one being written are of runs
\* that raised.
BareHold ==
    /\ failed \subseteq 1..runs /\ IsFiniteSet(failed)
    /\ run.stage # "idle" => runs \notin failed
    /\ Cardinality(Bare \ {i \in {run.finding} : Writing}) <= Cardinality(failed)

\* New evidence comes at the end.
LEMMA EvidenceAdded ==
    ASSUME NEW cs, cs \in Seq(Range(cs)), NEW c, NEW i
    PROVE  EvidenceIn(Append(cs, c), i) = {} => EvidenceIn(cs, i) = {} /\ c.finding # i
<1> DEFINE ds == Append(cs, c)
           N == Len(cs)
<1>1. /\ N \in Nat /\ DOMAIN cs = 1..N /\ DOMAIN ds = 1..(N + 1) /\ ds[N + 1] = c
      /\ \A n \in 1..N : ds[n] = cs[n]
  BY AppendIs
<1> HIDE DEF ds, N
<1>2. N + 1 \in 1..(N + 1) /\ 1..N \subseteq 1..(N + 1)
  BY <1>1
<1>3. \A n \in EvidenceIn(cs, i) : n \in EvidenceIn(ds, i)
  BY <1>1, <1>2 DEF EvidenceIn
<1>4. c.finding = i => N + 1 \in EvidenceIn(ds, i)
  BY <1>1, <1>2 DEF EvidenceIn
<1> QED
  BY <1>3, <1>4 DEF ds

\* The kinds of a run's groups.
LEMMA GroupKinds ==
    ASSUME NEW ps, NEW g \in Groups(ps), NEW h \in Groups(ps)
    PROVE  /\ g.kind # h.kind => {g.kind, h.kind} = {"detour", "transit"}
           /\ g.create /\ g.kind # "detour" => h.kind = g.kind
           /\ g.create /\ h.create => h.kind = g.kind
<1>1. CASE Detour(ps) # None
  <2>1. \A k \in Groups(ps) : \/ k = Group("detour", None, ps, TRUE)
                               \/ \E up : k = Group("transit", up, Through(ps, up), FALSE)
    BY <1>1 DEF Groups
  <2> QED
    BY <2>1 DEF Group
<1>2. CASE Detour(ps) = None /\ TransitPick(ps) # None
  <2>1. \A k \in Groups(ps) : k = Group("transit", TransitPick(ps), Through(ps, TransitPick(ps)), TRUE)
    BY <1>2 DEF Groups
  <2> QED
    BY <2>1 DEF Group
<1>3. CASE Detour(ps) = None /\ TransitPick(ps) = None
  <2>1. \A k \in Groups(ps) : \E up, probes : k = Group("candidate", up, probes, TRUE)
    BY <1>3 DEF Groups
  <2> QED
    BY <2>1 DEF Group
<1> QED
  BY <1>1, <1>2, <1>3

\* What filing a group, or a probe's evidence, leaves of the run.
LEMMA TakenIs ==
    ASSUME RunHolds, run.stage = "file", NEW g \in run.groups, NEW i, Take(g, i)
    PROVE  /\ run'.stage = "file" /\ run'.traces = run.traces /\ run'.finding = i /\ run'.left # <<>>
           /\ run'.since = run.since
<1>1. /\ run \in [stage : {"file", "escalate"}, src : {run.src}, tgt : {run.tgt},
                  retest : Ids \cup {Fresh}, traces : {run.traces}, since : {run.since},
                  groups : SUBSET Groups(Clean(run.traces)), finding : {run.finding},
                  left : Seq(Range(run.left))]
  BY DEF RunHolds
<1>2. g.probes # <<>>
  BY FiledGroup
<1> QED
  BY <1>1, <1>2 DEF Take

LEMMA SkippedIs ==
    ASSUME RunHolds, run.stage = "file", NEW g, run' = [run EXCEPT !.groups = @ \ {g}]
    PROVE  /\ run'.stage = "file" /\ run'.traces = run.traces /\ run'.left = run.left
           /\ run'.finding = run.finding /\ run'.since = run.since
BY DEF RunHolds

LEMMA CorroboratedIs ==
    ASSUME RunHolds, Corroborate
    PROVE  /\ run.stage = "file" /\ run.left # <<>> /\ run'.stage = "file" /\ run'.traces = run.traces
           /\ run'.finding = run.finding /\ run'.since = run.since
           /\ findings' = findings /\ nextId' = nextId
           /\ \E c : corrs' = Append(corrs, c) /\ c.finding = run.finding /\ c.msm = runs
           /\ UNCHANGED <<runs, failed>>
<1>1. run.stage = "file" /\ run' = [run EXCEPT !.left = Tail(@)]
  BY DEF Corroborate
<1>2. /\ run'.stage = "file" /\ run'.traces = run.traces /\ run'.finding = run.finding
      /\ run'.since = run.since
  BY <1>1 DEF RunHolds
<1> QED
  BY <1>2 DEF Corroborate, AddCorroboration

LEMMA KindsSteps ==
    ASSUME RowsHold, RunHolds, EvidenceHolds, KindsHold, [FilingStep]_vars, RowsHold', RunHolds'
    PROVE  KindsHold'
<1>0. nextId \in Nat /\ runs \in Nat
  BY DEF RowsHold, RunHolds
\* The run goes on; nothing is created, and it writes about nothing else.
<1>1. ASSUME run.stage # "idle", UNCHANGED <<findings, corrs, runs>>,
             run'.traces = run.traces, run'.since = run.since,
             run'.left # <<>> => \E f \in findings : f.id = run'.finding /\ OfGroup(f, FALSE)
      PROVE  KindsHold'
  BY <1>1 DEF KindsHold, OfGroup
<1>2. ASSUME run'.stage = "idle" PROVE KindsHold'
  BY <1>2 DEF KindsHold
<1>3. CASE MeasureAny
  <2>1. /\ UNCHANGED store /\ runs' = runs + 1 /\ run'.since = nextId /\ run'.left = <<>>
    BY <1>3 DEF MeasureAny, Measure, Classify
  <2>2. \A f \in findings' : ~(f.id >= run'.since)
    BY <1>0, <2>1 DEF RowsHold, store
  <2>3. \A n \in DOMAIN corrs' : corrs'[n].msm # runs'
    BY <1>0, <2>1 DEF EvidenceHolds, store
  <2> QED
    BY <1>0, <2>1, <2>2, <2>3 DEF KindsHold
<1>4. CASE FileGroup
  <2>1. PICK g \in run.groups : run.stage = "file" /\ (Extend(g) \/ Create(g) \/ Skip(g))
    BY <1>4 DEF FileGroup
  <2>2. g \in Groups(Clean(run.traces))
    BY <2>1, FiledGroup
  <2>3. CASE Extend(g)
    <3>1. PICK i \in Existing(g) : Take(g, i)
      BY <2>3 DEF Extend
    <3>2. \E f \in findings : f.id = i /\ f.kind = g.kind
      BY <2>1, <3>1, FiledUnder
    <3>3. run'.traces = run.traces /\ run'.finding = i /\ run'.since = run.since
      BY <2>1, <3>1, TakenIs
    <3> QED
      BY <1>1, <2>1, <2>2, <2>3, <3>2, <3>3 DEF Extend, store, OfGroup
  <2>4. CASE Skip(g)
    <3>1. run' = [run EXCEPT !.groups = @ \ {g}]
      BY <2>4 DEF Skip
    <3>2. /\ run'.traces = run.traces /\ run'.left = run.left
          /\ run'.finding = run.finding /\ run'.since = run.since
      BY <2>1, <3>1, SkippedIs
    <3> QED
      BY <1>1, <2>1, <2>4, <3>2 DEF Skip, store, KindsHold
  <2>5. CASE Create(g)
    <3>1. Take(g, nextId) /\ g.create /\ UNCHANGED <<corrs, runs>>
      BY <2>5 DEF Create, CreateFinding
    <3>2. run'.traces = run.traces /\ run'.finding = nextId /\ run'.since = run.since
      BY <2>1, <3>1, TakenIs
    <3>3. PICK row : findings' = findings \cup {row} /\ row.id = nextId /\ row.kind = g.kind
      BY <2>5 DEF Create, CreateFinding
    <3>4. /\ \A f, create : OfGroup(f, create) => OfGroup(f, create)'
          /\ OfGroup(row, TRUE)' /\ OfGroup(row, FALSE)'
      BY <2>2, <3>1, <3>2, <3>3 DEF OfGroup
    <3> QED
      BY <2>1, <3>1, <3>2, <3>3, <3>4 DEF KindsHold
  <2> QED
    BY <2>1, <2>3, <2>4, <2>5
<1>5. CASE Corroborate
  <2>1. /\ run.stage = "file" /\ run.left # <<>> /\ run'.traces = run.traces
        /\ run'.finding = run.finding /\ run'.since = run.since /\ findings' = findings
        /\ UNCHANGED runs
    BY <1>5, CorroboratedIs
  <2>2. PICK c : corrs' = Append(corrs, c) /\ c.finding = run.finding /\ c.msm = runs
    BY <1>5, CorroboratedIs
  <2>3. PICK f \in findings : f.id = run.finding /\ OfGroup(f, FALSE)
    BY <2>1 DEF KindsHold
  <2>4. ASSUME NEW n \in DOMAIN corrs', corrs'[n].msm = runs
        PROVE  \E h \in findings : h.id = corrs'[n].finding /\ OfGroup(h, FALSE)
    <3>1. \/ n \in DOMAIN corrs /\ corrs'[n] = corrs[n]
          \/ corrs'[n] = c
      <4>1. corrs \in Seq(Range(corrs))
        BY DEF EvidenceHolds
      <4>2. /\ Len(corrs) \in Nat /\ DOMAIN corrs = 1..Len(corrs) /\ DOMAIN corrs' = 1..(Len(corrs) + 1)
            /\ corrs'[Len(corrs) + 1] = c /\ \A m \in 1..Len(corrs) : corrs'[m] = corrs[m]
        BY <2>2, <4>1, AppendIs
      <4>3. n \in 1..Len(corrs) \/ n = Len(corrs) + 1
        BY <4>2
      <4> QED
        BY <4>2, <4>3
    <3> QED
      BY <2>1, <2>2, <2>3, <2>4, <3>1 DEF KindsHold
  <2>5. \A h, create : OfGroup(h, create) => OfGroup(h, create)'
    BY <2>1 DEF OfGroup
  <2> QED
    BY <2>1, <2>3, <2>4, <2>5 DEF KindsHold
<1>6. CASE MarkTested
  <2>1. run.stage = "file" /\ run.left = <<>> /\ run' = [run EXCEPT !.stage = "escalate"]
    BY <1>6 DEF MarkTested
  <2>2. run'.traces = run.traces /\ run'.since = run.since /\ run'.left = <<>>
    BY <2>1 DEF RunHolds
  <2> QED
    BY <1>1, <1>6, <2>1, <2>2 DEF MarkTested, store
<1>7. CASE Finish \/ Raise
  BY <1>2, <1>7 DEF Finish, Raise, NoRun
<1>8. CASE \E i \in Ids : Promote(i)
  BY <1>2, <1>8 DEF Promote
<1>9. CASE UNCHANGED vars
  BY <1>9 DEF vars, store, KindsHold, OfGroup
<1> QED
  BY <1>3, <1>4, <1>5, <1>6, <1>7, <1>8, <1>9 DEF FilingStep, Advance

LEMMA BareSteps ==
    ASSUME RowsHold, RunHolds, EvidenceHolds, BareHold, [FilingStep]_vars,
           RowsHold', RunHolds', Grows,
           \A i \in Ids' : i \in Ids \/ (i = nextId /\ nextId' = nextId + 1)
    PROVE  BareHold'
<1> DEFINE Left == Bare \ {i \in {run.finding} : Writing}
<1>0. runs \in Nat /\ nextId \in Nat
  BY DEF RunHolds, RowsHold
<1>1. IsFiniteSet(failed) /\ Cardinality(failed) \in Nat /\ failed \subseteq 1..runs
  BY FS_CardinalityType DEF BareHold
<1>2. IsFiniteSet(Left) /\ Cardinality(Left) <= Cardinality(failed) /\ IsFiniteSet(Bare)
  <2>1. Bare \in SUBSET (1..(nextId - 1)) /\ nextId - 1 \in Nat
    BY <1>0, RowIs DEF Bare, RowsHold
  <2>2. IsFiniteSet(Bare)
    BY <2>1, CountsUp
  <2>3. Left \subseteq Bare
    OBVIOUS
  <2>4. IsFiniteSet(Left)
    BY <2>2, <2>3, FS_Subset
  <2> QED
    BY <2>2, <2>4 DEF BareHold
\* No step but Raise leaves one more finding behind.
<1>3. ASSUME Left' \subseteq Left, failed' = failed,
             runs' = runs \/ runs' = runs + 1, run'.stage # "idle" => runs' \notin failed
      PROVE  BareHold'
  <2>1. Cardinality(Left') <= Cardinality(Left)
    BY <1>2, <1>3, FS_Subset
  <2>2. Cardinality(Left') <= Cardinality(failed')
    <3>1. IsFiniteSet(Left')
      BY <1>2, <1>3, FS_Subset
    <3>2. Cardinality(Left') \in Nat /\ Cardinality(Left) \in Nat
      BY <1>2, <3>1, FS_CardinalityType
    <3> HIDE DEF Left
    <3> QED
      BY <1>1, <1>2, <1>3, <2>1, <3>2
  <2>3. failed' \subseteq 1..runs'
    BY <1>0, <1>1, <1>3
  <2> QED
    BY <1>1, <1>3, <2>2, <2>3 DEF BareHold
<1>4. ASSUME nextId' = nextId PROVE \A i \in Ids' : i \in Ids
  BY <1>0, <1>4
<1>5. run.stage # "idle" => runs \notin failed
  BY DEF BareHold
<1>6. CASE MeasureAny
  <2>1. UNCHANGED <<store, failed>> /\ runs' = runs + 1 /\ run.stage = "idle"
    BY <1>6 DEF MeasureAny, Measure, Classify
  <2>2. runs' \notin failed
    BY <1>0, <1>1, <2>1
  <2>3. Left' \subseteq Left
    BY <1>4, <2>1 DEF store, Bare, Writing
  <2> QED
    BY <1>3, <2>1, <2>2, <2>3
<1>7. CASE FileGroup
  <2>1. PICK g \in run.groups : run.stage = "file" /\ (Extend(g) \/ Create(g) \/ Skip(g))
    BY <1>7 DEF FileGroup
  <2>2. UNCHANGED <<corrs, runs, failed>> /\ ~Writing
    BY <2>1 DEF Extend, Create, Skip, CreateFinding, store, Writing
  <2>3. CASE Extend(g) \/ Skip(g)
    <3>1. nextId' = nextId
      BY <2>3 DEF Extend, Skip, store
    <3>2. Left' \subseteq Left
      BY <1>4, <2>2, <3>1 DEF Bare
    <3> QED
      BY <1>3, <1>5, <2>1, <2>2, <3>2
  <2>4. CASE Create(g)
    <3>1. Take(g, nextId)
      BY <2>4 DEF Create
    <3>2. run'.stage = "file" /\ run'.finding = nextId /\ run'.left # <<>>
      BY <2>1, <3>1, TakenIs
    <3>3. Left' \subseteq Left
      BY <2>2, <3>2 DEF Bare, Writing
    <3> QED
      BY <1>3, <1>5, <2>1, <2>2, <3>3
  <2> QED
    BY <2>1, <2>3, <2>4
<1>8. CASE Corroborate
  <2>1. /\ run.stage = "file" /\ run.left # <<>> /\ run'.stage = "file"
        /\ run'.finding = run.finding /\ findings' = findings /\ nextId' = nextId
        /\ UNCHANGED <<runs, failed>>
    BY <1>8, CorroboratedIs
  <2>2. PICK c : corrs' = Append(corrs, c) /\ c.finding = run.finding /\ c.msm = runs
    BY <1>8, CorroboratedIs
  <2>3. ASSUME NEW i \in Ids PROVE EvidenceIn(corrs', i) = {} => EvidenceIn(corrs, i) = {} /\ i # run.finding
    <3>1. corrs \in Seq(Range(corrs))
      BY DEF EvidenceHolds
    <3> QED
      BY <2>2, <3>1, EvidenceAdded
  <2>4. Left' \subseteq Left
    BY <1>4, <2>1, <2>3 DEF Bare
  <2> QED
    BY <1>3, <1>5, <2>1, <2>4
<1>9. CASE MarkTested \/ Finish
  <2>1. UNCHANGED <<store, failed, runs>> /\ ~Writing /\ run.stage # "idle"
    BY <1>9 DEF MarkTested, Finish, NoRun, RunHolds, Writing
  <2>2. Left' \subseteq Left
    BY <1>4, <2>1 DEF store, Bare
  <2> QED
    BY <1>3, <1>5, <2>1, <2>2
<1>10. CASE Raise
  <2>1. /\ failed' = failed \cup {runs} /\ UNCHANGED <<store, runs>> /\ run'.stage = "idle"
        /\ run.stage # "idle"
    BY <1>10 DEF Raise, NoRun
  <2>2. runs \notin failed /\ runs \in 1..runs
    BY <1>0, <1>5, <2>1 DEF EvidenceHolds
  <2>3. Bare' = Bare /\ ~Writing'
    BY <2>1 DEF store, Bare, Ids, Writing
  <2>4. Left' = Bare
    BY <2>3
  <2>5. Bare \subseteq Left \cup {run.finding}
    OBVIOUS
  <2>6. IsFiniteSet(failed') /\ Cardinality(failed') = Cardinality(failed) + 1
    BY <1>1, <2>1, <2>2, FS_AddElement
  <2>7. Cardinality(Left \cup {run.finding}) <= Cardinality(Left) + 1 /\ IsFiniteSet(Left \cup {run.finding})
    <3> HIDE DEF Left
    <3>1. Cardinality(Left) \in Nat
      BY <1>2, FS_CardinalityType
    <3> QED
      BY <1>2, <3>1, FS_AddElement
  <2>8. Cardinality(Bare) <= Cardinality(Left \cup {run.finding})
    BY <2>5, <2>7, FS_Subset
  <2>9. Cardinality(Left) \in Nat /\ Cardinality(Bare) \in Nat /\ Cardinality(Left \cup {run.finding}) \in Nat
    BY <1>2, <2>7, FS_CardinalityType
  <2>10. Cardinality(Left') <= Cardinality(failed')
    <3>1. Cardinality(Bare) <= Cardinality(failed')
      <4> HIDE DEF Left
      <4> QED
        BY <1>1, <1>2, <2>6, <2>7, <2>8, <2>9
    <3> QED
      BY <2>4, <3>1
  <2> QED
    BY <1>1, <2>1, <2>2, <2>6, <2>10 DEF BareHold
<1>11. CASE \E i \in Ids : Promote(i)
  <2>1. UNCHANGED <<corrs, nextId, run, runs, failed>>
    BY <1>11 DEF Promote, MarkAspaChecked
  <2>2. Left' \subseteq Left
    BY <1>4, <2>1 DEF Bare, Writing
  <2> QED
    BY <1>3, <1>5, <2>1, <2>2
<1>12. CASE UNCHANGED vars
  <2>1. UNCHANGED <<corrs, nextId, run, runs, failed>>
    BY <1>12 DEF vars, store
  <2>2. Left' \subseteq Left
    BY <1>4, <2>1 DEF Bare, Writing
  <2> QED
    BY <1>3, <1>5, <2>1, <2>2
<1> QED
  BY <1>6, <1>7, <1>8, <1>9, <1>10, <1>11, <1>12 DEF FilingStep, Advance

LEMMA FilingHolds == Filings => [](RowsHold /\ RunHolds /\ EvidenceHolds /\ KindsHold /\ BareHold)
<1>1. Init => RowsHold /\ RunHolds /\ EvidenceHolds /\ KindsHold /\ BareHold
  <2> SUFFICES ASSUME Init PROVE RowsHold /\ RunHolds /\ EvidenceHolds /\ KindsHold /\ BareHold
    OBVIOUS
  <2>1. Ids = {} /\ Bare = {}
    BY DEF Init, StoreInit, Ids, Bare
  <2>2. RowsHold /\ RunHolds /\ EvidenceHolds /\ KindsHold
    BY <2>1 DEF Init, StoreInit, RowsHold, RunHolds, NoRun, EvidenceHolds, KindsHold
  <2>3. Bare \ {i \in {run.finding} : Writing} = {}
    BY <2>1
  <2>4. IsFiniteSet({}) /\ Cardinality({}) = 0 /\ failed = {}
    BY FS_EmptySet DEF Init
  <2>5. BareHold
    BY <2>3, <2>4 DEF BareHold
  <2> QED
    BY <2>2, <2>5
<1>2. RowsHold /\ RunHolds /\ EvidenceHolds /\ KindsHold /\ BareHold /\ [FilingStep]_vars
        => (RowsHold /\ RunHolds /\ EvidenceHolds /\ KindsHold /\ BareHold)'
  <2> SUFFICES ASSUME RowsHold, RunHolds, EvidenceHolds, KindsHold, BareHold, [FilingStep]_vars
               PROVE  (RowsHold /\ RunHolds /\ EvidenceHolds /\ KindsHold /\ BareHold)'
    OBVIOUS
  <2>1. /\ Grows /\ RowsHold' /\ RunHolds'
        /\ \A i \in Ids' : i \in Ids \/ (i = nextId /\ nextId' = nextId + 1)
    BY StepGrows
  <2>2. EvidenceHolds'
    BY <2>1, EvidenceSteps
  <2>3. KindsHold'
    BY <2>1, KindsSteps
  <2>4. BareHold'
    BY <2>1, BareSteps
  <2> QED
    BY <2>1, <2>2, <2>3, <2>4
<1> QED
  BY <1>1, <1>2, PTL DEF Filings

\* A run says one thing of a corridor: what it writes about and what it creates
\* is of one kind, but that a detour run may give a transit edge on file evidence.
THEOREM RunsFileOneKind == Spec \/ TracingSpec => []OneKindPerRun
<1>1. RowsHold /\ KindsHold => OneKindPerRun
  <2> SUFFICES ASSUME RowsHold, KindsHold, run.stage # "idle"
               PROVE  /\ \A k, l \in Made \cup Written : k # l => {k, l} = {"detour", "transit"}
                      /\ \A k \in Made : k # "detour" => Made \cup Written = {k}
    BY DEF OneKindPerRun
  <2> DEFINE G == Groups(Clean(run.traces))
  <2>1. ASSUME NEW k \in Made PROVE \E g \in G : g.kind = k /\ g.create
    BY DEF Made, KindsHold, OfGroup
  <2>2. ASSUME NEW k \in Written PROVE \E g \in G : g.kind = k
    <3>1. PICK n \in DOMAIN corrs : corrs[n].msm = runs /\ k = Row(corrs[n].finding).kind
      BY DEF Written
    <3>2. PICK f \in findings : f.id = corrs[n].finding /\ OfGroup(f, FALSE)
      BY <3>1 DEF KindsHold
    <3>3. Row(corrs[n].finding) = f
      BY <3>2, RowIs
    <3> QED
      BY <3>1, <3>2, <3>3 DEF OfGroup
  <2>3. \A k \in Made \cup Written : \E g \in G : g.kind = k
    BY <2>1, <2>2
  <2>4. \A g, h \in G : /\ g.kind # h.kind => {g.kind, h.kind} = {"detour", "transit"}
                        /\ g.create /\ g.kind # "detour" => h.kind = g.kind
    BY GroupKinds
  <2> HIDE DEF G
  <2>5. \A k, l \in Made \cup Written : k # l => {k, l} = {"detour", "transit"}
    BY <2>3, <2>4
  <2>6. ASSUME NEW k \in Made, k # "detour" PROVE Made \cup Written = {k}
    <3>1. \A l \in Made \cup Written : l = k
      BY <2>1, <2>3, <2>4, <2>6
    <3> QED
      BY <3>1
  <2> QED
    BY <2>5, <2>6
<1> QED
  BY <1>1, FilingHolds, SpecFiles, TracingFiles, PTL

\* At most one finding without evidence is left by each run that raised, and
\* one is being written.
THEOREM FewFindingsAreBare == Spec \/ TracingSpec => []OneBareFindingPerFailure
<1>1. RowsHold /\ RunHolds /\ BareHold => OneBareFindingPerFailure
  <2> SUFFICES ASSUME RowsHold, RunHolds, BareHold
               PROVE  OneBareFindingPerFailure
    OBVIOUS
  <2> DEFINE bare == {f \in findings : Evidence(f.id) = {}}
             left == Bare \ {i \in {run.finding} : Writing}
  <2>1. IsFiniteSet(Bare)
    <3>1. Bare \in SUBSET (1..(nextId - 1)) /\ nextId - 1 \in Nat
      BY RowIs DEF Bare, RowsHold
    <3> QED
      BY <3>1, CountsUp
  <2>2. IsFiniteSet(bare) /\ Cardinality(bare) <= Cardinality(Bare)
    <3> DEFINE id == [f \in bare |-> f.id]
    <3>1. \A f \in bare : f \in findings /\ f.id \in Bare
      BY DEF Bare, Ids, Evidence, EvidenceIn
    <3>2. \A f, g \in bare : f.id = g.id => f = g
      BY <3>1 DEF RowsHold
    <3> HIDE DEF bare
    <3>3. id \in Injection(bare, Bare)
      BY <3>1, <3>2 DEF Injection, IsInjective
    <3> QED
      BY <2>1, <3>3, FS_Injection
  <2>4. IsFiniteSet(left) /\ Cardinality(left) <= Cardinality(failed) /\ IsFiniteSet(failed)
    <3>1. left \subseteq Bare
      OBVIOUS
    <3>2. IsFiniteSet(left)
      BY <2>1, <3>1, FS_Subset
    <3> QED
      BY <3>2 DEF BareHold
  <2>5. Cardinality(Bare) <= Cardinality(left) + (IF Writing THEN 1 ELSE 0)
    <3>1. CASE Writing
      <4>1. Bare \subseteq left \cup {run.finding}
        OBVIOUS
      <4> HIDE DEF left
      <4>2. IsFiniteSet(left \cup {run.finding}) /\ Cardinality(left \cup {run.finding}) <= Cardinality(left) + 1
        <5>1. Cardinality(left) \in Nat
          BY <2>4, FS_CardinalityType
        <5> QED
          BY <2>4, <5>1, FS_AddElement
      <4>3. Cardinality(Bare) <= Cardinality(left \cup {run.finding})
        BY <4>1, <4>2, FS_Subset
      <4>4. /\ Cardinality(Bare) \in Nat /\ Cardinality(left) \in Nat
            /\ Cardinality(left \cup {run.finding}) \in Nat
        BY <2>1, <2>4, <4>2, FS_CardinalityType
      <4> QED
        BY <3>1, <4>2, <4>3, <4>4
    <3>2. CASE ~Writing
      <4>1. left = Bare
        BY <3>2
      <4>2. Cardinality(Bare) \in Nat
        BY <2>1, FS_CardinalityType
      <4> HIDE DEF left
      <4> QED
        BY <3>2, <4>1, <4>2
    <3> QED
      BY <3>1, <3>2
  <2>6. /\ Cardinality(bare) \in Nat /\ Cardinality(Bare) \in Nat
        /\ Cardinality(left) \in Nat /\ Cardinality(failed) \in Nat
    BY <2>1, <2>2, <2>4, FS_CardinalityType
  <2>7. Cardinality(bare) <= Cardinality(failed) + (IF Writing THEN 1 ELSE 0)
    <3> HIDE DEF bare, left
    <3> QED
      BY <2>2, <2>4, <2>5, <2>6
  <2> QED
    BY <2>7 DEF OneBareFindingPerFailure, Writing
<1> QED
  BY <1>1, FilingHolds, SpecFiles, TracingFiles, PTL
=============================================================================
