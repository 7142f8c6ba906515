--------------------------- MODULE Tracing_proofs ---------------------------
(***************************************************************************)
(* Proofs about what the rules make of the replies themselves, for traces  *)
(* of any length and any number of replies to a hop: an edge that is filed *)
(* was shown, and a loop is a trace that is stuck.                         *)
(*                                                                         *)
(* The code reads a trace in a loop over its hops.  What such a loop has   *)
(* after n hops is a recursive function of n; that there is such a         *)
(* function, and what is true of every value of it, are shown by a least   *)
(* n for which it fails.                                                   *)
(***************************************************************************)
EXTENDS Filing_proofs

\* A set of numbers that holds 0 and goes up holds all of them.
LEMMA UpFromZero ==
    ASSUME NEW S, NEW L \in Nat, 0 \in S, \A n \in 0..(L - 1) : n \in S => n + 1 \in S
    PROVE  \A n \in 0..L : n \in S
<1> DEFINE Missed == {n \in Nat : n \in 0..L /\ n \notin S}
<1>1. SUFFICES ASSUME Missed # {} PROVE FALSE
  OBVIOUS
<1>2. Min(Missed) \in Missed /\ \A j \in Missed : Min(Missed) <= j
  BY <1>1, MinIs
<1>3. PICK k \in Missed : \A j \in Missed : k <= j
  BY <1>2
<1>4. k \in Nat /\ k \in 0..L /\ k \notin S /\ k # 0
  BY <1>3
<1>5. k - 1 \in Nat /\ k - 1 \in 0..(L - 1) /\ k - 1 \in 0..L /\ ~(k <= k - 1) /\ (k - 1) + 1 = k
  BY <1>4
<1>6. k - 1 \in S
  BY <1>3, <1>5
<1> QED
  BY <1>4, <1>5, <1>6

LEMMA AsStepsIs ==
    ASSUME NEW hops, Len(hops) \in Nat
    PROVE  /\ AsSteps(hops)[0] = [path |-> <<>>, gap |-> FALSE]
           /\ \A n \in 0..(Len(hops) - 1) :
                AsSteps(hops)[n + 1] = AsStep(AsSteps(hops)[n], hops[n + 1])
<1> DEFINE first == [path |-> <<>>, gap |-> FALSE]
           L == Len(hops)
           Is(f, n) == f = [m \in 0..n |-> IF m = 0 THEN first ELSE AsStep(f[m - 1], hops[m])]
           S == {n \in Nat : \E f : Is(f, n)}
<1>1. 0 \in S
  <2> DEFINE f == [m \in 0..0 |-> first]
  <2>1. Is(f, 0)
    OBVIOUS
  <2> QED
    BY <2>1
<1>2. ASSUME NEW n \in 0..(L - 1), n \in S PROVE n + 1 \in S
  <2>1. PICK f : Is(f, n)
    BY <1>2
  <2>2. n \in Nat /\ n + 1 \in Nat
    OBVIOUS
  <2> DEFINE g == [m \in 0..(n + 1) |-> IF m = n + 1 THEN AsStep(f[n], hops[n + 1]) ELSE f[m]]
  <2>3. ASSUME NEW m \in 0..(n + 1) PROVE g[m] = IF m = 0 THEN first ELSE AsStep(g[m - 1], hops[m])
    <3>1. CASE m = n + 1
      <4>1. g[n] = f[n] /\ g[n + 1] = AsStep(f[n], hops[n + 1])
        BY <2>2
      <4> QED
        BY <2>2, <3>1, <4>1
    <3>2. CASE m # n + 1
      <4>1. m \in 0..n /\ (m # 0 => m - 1 \in 0..n)
        BY <2>2, <3>2
      <4>2. g[m] = f[m] /\ (m # 0 => g[m - 1] = f[m - 1])
        BY <2>2, <4>1
      <4>3. f[m] = IF m = 0 THEN first ELSE AsStep(f[m - 1], hops[m])
        BY <2>1, <4>1
      <4> QED
        BY <4>2, <4>3
    <3> QED
      BY <3>1, <3>2
  <2>4. Is(g, n + 1)
    <3> DEFINE h == [m \in 0..(n + 1) |-> IF m = 0 THEN first ELSE AsStep(g[m - 1], hops[m])]
    <3>1. \A m \in 0..(n + 1) : g[m] = h[m]
      BY <2>3
    <3>2. g = h
      BY <3>1
    <3> QED
      BY <3>2
  <2> QED
    BY <2>2, <2>4
<1>3. L \in S
  <2> HIDE DEF S, Is
  <2>1. L \in Nat /\ L \in 0..L /\ 0 \in S /\ \A n \in 0..(L - 1) : n \in S => n + 1 \in S
    BY <1>1, <1>2
  <2> QED
    BY <2>1, UpFromZero
<1>4. PICK f : Is(f, L)
  BY <1>3
<1>5. AsSteps(hops) = [m \in 0..L |-> IF m = 0 THEN first ELSE AsStep(AsSteps(hops)[m - 1], hops[m])]
  BY <1>4 DEF AsSteps
<1> HIDE DEF first
<1>6. ASSUME NEW m \in 0..L
      PROVE  AsSteps(hops)[m] = IF m = 0 THEN first ELSE AsStep(AsSteps(hops)[m - 1], hops[m])
  BY <1>5
<1>7. ASSUME NEW n \in 0..(L - 1) PROVE AsSteps(hops)[n + 1] = AsStep(AsSteps(hops)[n], hops[n + 1])
  <2>1. n + 1 \in 0..L /\ n + 1 # 0 /\ (n + 1) - 1 = n
    OBVIOUS
  <2> QED
    BY <1>6, <2>1
<1>8. AsSteps(hops)[0] = first
  <2>1. 0 \in 0..L
    OBVIOUS
  <2> QED
    BY <1>6, <2>1
<1> QED
  BY <1>7, <1>8 DEF first
LEMMA NormalizedIs ==
    ASSUME NEW path, Len(path) \in Nat
    PROVE  /\ Normalized(path)[0] = <<>>
           /\ \A n \in 0..(Len(path) - 1) :
                Normalized(path)[n + 1] = WithoutRepeat(Normalized(path)[n], path[n + 1])
<1> DEFINE first == <<>>
           L == Len(path)
           Is(f, n) == f = [m \in 0..n |-> IF m = 0 THEN first ELSE WithoutRepeat(f[m - 1], path[m])]
           S == {n \in Nat : \E f : Is(f, n)}
<1>1. 0 \in S
  <2> DEFINE f == [m \in 0..0 |-> first]
  <2>1. Is(f, 0)
    OBVIOUS
  <2> QED
    BY <2>1
<1>2. ASSUME NEW n \in 0..(L - 1), n \in S PROVE n + 1 \in S
  <2>1. PICK f : Is(f, n)
    BY <1>2
  <2>2. n \in Nat /\ n + 1 \in Nat
    OBVIOUS
  <2> DEFINE g == [m \in 0..(n + 1) |-> IF m = n + 1 THEN WithoutRepeat(f[n], path[n + 1]) ELSE f[m]]
  <2>3. ASSUME NEW m \in 0..(n + 1) PROVE g[m] = IF m = 0 THEN first ELSE WithoutRepeat(g[m - 1], path[m])
    <3>1. CASE m = n + 1
      <4>1. g[n] = f[n] /\ g[n + 1] = WithoutRepeat(f[n], path[n + 1])
        BY <2>2
      <4> QED
        BY <2>2, <3>1, <4>1
    <3>2. CASE m # n + 1
      <4>1. m \in 0..n /\ (m # 0 => m - 1 \in 0..n)
        BY <2>2, <3>2
      <4>2. g[m] = f[m] /\ (m # 0 => g[m - 1] = f[m - 1])
        BY <2>2, <4>1
      <4>3. f[m] = IF m = 0 THEN first ELSE WithoutRepeat(f[m - 1], path[m])
        BY <2>1, <4>1
      <4> QED
        BY <4>2, <4>3
    <3> QED
      BY <3>1, <3>2
  <2>4. Is(g, n + 1)
    <3> DEFINE h == [m \in 0..(n + 1) |-> IF m = 0 THEN first ELSE WithoutRepeat(g[m - 1], path[m])]
    <3>1. \A m \in 0..(n + 1) : g[m] = h[m]
      BY <2>3
    <3>2. g = h
      BY <3>1
    <3> QED
      BY <3>2
  <2> QED
    BY <2>2, <2>4
<1>3. L \in S
  <2> HIDE DEF S, Is
  <2>1. L \in Nat /\ L \in 0..L /\ 0 \in S /\ \A n \in 0..(L - 1) : n \in S => n + 1 \in S
    BY <1>1, <1>2
  <2> QED
    BY <2>1, UpFromZero
<1>4. PICK f : Is(f, L)
  BY <1>3
<1>5. Normalized(path) = [m \in 0..L |-> IF m = 0 THEN first ELSE WithoutRepeat(Normalized(path)[m - 1], path[m])]
  BY <1>4 DEF Normalized
<1> HIDE DEF first
<1>6. ASSUME NEW m \in 0..L
      PROVE  Normalized(path)[m] = IF m = 0 THEN first ELSE WithoutRepeat(Normalized(path)[m - 1], path[m])
  BY <1>5
<1>7. ASSUME NEW n \in 0..(L - 1) PROVE Normalized(path)[n + 1] = WithoutRepeat(Normalized(path)[n], path[n + 1])
  <2>1. n + 1 \in 0..L /\ n + 1 # 0 /\ (n + 1) - 1 = n
    OBVIOUS
  <2> QED
    BY <1>6, <2>1
<1>8. Normalized(path)[0] = first
  <2>1. 0 \in 0..L
    OBVIOUS
  <2> QED
    BY <1>6, <2>1
<1> QED
  BY <1>7, <1>8 DEF first

LEMMA LoopStepsIs ==
    ASSUME NEW hops, Len(hops) \in Nat
    PROVE  /\ LoopSteps(hops)[0] = NoLoopYet
           /\ \A n \in 0..(Len(hops) - 1) :
                LoopSteps(hops)[n + 1] = LoopStep(LoopSteps(hops)[n], hops[n + 1], n + 1)
<1> DEFINE first == NoLoopYet
           L == Len(hops)
           Is(f, n) == f = [m \in 0..n |-> IF m = 0 THEN first ELSE LoopStep(f[m - 1], hops[m], m)]
           S == {n \in Nat : \E f : Is(f, n)}
<1>1. 0 \in S
  <2> DEFINE f == [m \in 0..0 |-> first]
  <2>1. Is(f, 0)
    OBVIOUS
  <2> QED
    BY <2>1
<1>2. ASSUME NEW n \in 0..(L - 1), n \in S PROVE n + 1 \in S
  <2>1. PICK f : Is(f, n)
    BY <1>2
  <2>2. n \in Nat /\ n + 1 \in Nat
    OBVIOUS
  <2> DEFINE g == [m \in 0..(n + 1) |-> IF m = n + 1 THEN LoopStep(f[n], hops[n + 1], n + 1) ELSE f[m]]
  <2>3. ASSUME NEW m \in 0..(n + 1) PROVE g[m] = IF m = 0 THEN first ELSE LoopStep(g[m - 1], hops[m], m)
    <3>1. CASE m = n + 1
      <4>1. g[n] = f[n] /\ g[n + 1] = LoopStep(f[n], hops[n + 1], n + 1)
        BY <2>2
      <4> QED
        BY <2>2, <3>1, <4>1
    <3>2. CASE m # n + 1
      <4>1. m \in 0..n /\ (m # 0 => m - 1 \in 0..n)
        BY <2>2, <3>2
      <4>2. g[m] = f[m] /\ (m # 0 => g[m - 1] = f[m - 1])
        BY <2>2, <4>1
      <4>3. f[m] = IF m = 0 THEN first ELSE LoopStep(f[m - 1], hops[m], m)
        BY <2>1, <4>1
      <4> QED
        BY <4>2, <4>3
    <3> QED
      BY <3>1, <3>2
  <2>4. Is(g, n + 1)
    <3> DEFINE h == [m \in 0..(n + 1) |-> IF m = 0 THEN first ELSE LoopStep(g[m - 1], hops[m], m)]
    <3>1. \A m \in 0..(n + 1) : g[m] = h[m]
      BY <2>3
    <3>2. g = h
      BY <3>1
    <3> QED
      BY <3>2
  <2> QED
    BY <2>2, <2>4
<1>3. L \in S
  <2> HIDE DEF S, Is
  <2>1. L \in Nat /\ L \in 0..L /\ 0 \in S /\ \A n \in 0..(L - 1) : n \in S => n + 1 \in S
    BY <1>1, <1>2
  <2> QED
    BY <2>1, UpFromZero
<1>4. PICK f : Is(f, L)
  BY <1>3
<1>5. LoopSteps(hops) = [m \in 0..L |-> IF m = 0 THEN first ELSE LoopStep(LoopSteps(hops)[m - 1], hops[m], m)]
  BY <1>4 DEF LoopSteps
<1> HIDE DEF first
<1>6. ASSUME NEW m \in 0..L
      PROVE  LoopSteps(hops)[m] = IF m = 0 THEN first ELSE LoopStep(LoopSteps(hops)[m - 1], hops[m], m)
  BY <1>5
<1>7. ASSUME NEW n \in 0..(L - 1) PROVE LoopSteps(hops)[n + 1] = LoopStep(LoopSteps(hops)[n], hops[n + 1], n + 1)
  <2>1. n + 1 \in 0..L /\ n + 1 # 0 /\ (n + 1) - 1 = n
    OBVIOUS
  <2> QED
    BY <1>6, <2>1
<1>8. LoopSteps(hops)[0] = first
  <2>1. 0 \in 0..L
    OBVIOUS
  <2> QED
    BY <1>6, <2>1
<1> QED
  BY <1>7, <1>8 DEF first
-----------------------------------------------------------------------------
(***************************************************************************)
(* RIS.  Networks next to each other in a path without its repeats are so  *)
(* in the path itself.                                                     *)
(***************************************************************************)
NextTo(path, u, t) == \E i \in 1..(Len(path) - 1) : path[i] = u /\ path[i + 1] = t

LEMMA NormalizedKeeps ==
    ASSUME NEW path, path \in Seq(Range(path))
    PROVE  /\ normalize_path(path) \in Seq(Range(path))
           /\ \A m \in 1..(Len(normalize_path(path)) - 1) :
                NextTo(path, normalize_path(path)[m], normalize_path(path)[m + 1])
<1> DEFINE L == Len(path)
           R == Range(path)
           f(n) == Normalized(path)[n]
           Good(n) == /\ f(n) \in Seq(R)
                      /\ n # 0 => f(n) # <<>> /\ Last(f(n)) = path[n]
                      /\ \A m \in 1..(Len(f(n)) - 1) : NextTo(path, f(n)[m], f(n)[m + 1])
           S == {n \in Nat : Good(n)}
<1>0. L \in Nat /\ DOMAIN path = 1..L /\ \A n \in 1..L : path[n] \in R
  BY DEF Range
<1>1. f(0) = <<>> /\ \A n \in 0..(L - 1) : f(n + 1) = WithoutRepeat(f(n), path[n + 1])
  BY <1>0, NormalizedIs
<1> HIDE DEF f, R, L
<1>2. 0 \in S
  <2>1. Len(<<>>) = 0 /\ <<>> \in Seq(R)
    OBVIOUS
  <2>2. Len(f(0)) = 0 /\ f(0) \in Seq(R)
    BY <1>1, <2>1
  <2>3. Good(0)
    BY <2>2
  <2> QED
    BY <2>3
<1>3. ASSUME NEW n \in 0..(L - 1), n \in S PROVE n + 1 \in S
  <2> DEFINE s == f(n)
             a == path[n + 1]
  <2>0. n \in Nat /\ n + 1 \in 1..L /\ n + 1 \in Nat /\ a \in R
    BY <1>0
  <2>1. /\ s \in Seq(R) /\ (n # 0 => s # <<>> /\ Last(s) = path[n])
        /\ \A m \in 1..(Len(s) - 1) : NextTo(path, s[m], s[m + 1])
    BY <1>3
  <2>2. f(n + 1) = IF s # <<>> /\ Last(s) = a THEN s ELSE Append(s, a)
    BY <1>1 DEF WithoutRepeat
  <2>3. n = 0 => s = <<>>
    BY <1>1
  <2>4. CASE s # <<>> /\ Last(s) = a
    BY <2>0, <2>1, <2>2, <2>4
  <2>5. CASE s = <<>>
    <3> DEFINE e == f(n + 1)
    <3>1. e = <<a>>
      BY <2>2, <2>5
    <3> HIDE DEF e, a
    <3>2. Len(e) = 1 /\ e[1] = a /\ e # <<>> /\ e \in Seq(R)
      BY <2>0, <3>1
    <3>3. Last(e) = a /\ \A m \in 1..(Len(e) - 1) : FALSE
      BY <3>2 DEF Last
    <3>4. n + 1 # 0
      BY <2>0
    <3> QED
      BY <2>0, <3>2, <3>3, <3>4 DEF e, a
  <2>6. CASE s # <<>> /\ Last(s) # a
    <3> DEFINE e == f(n + 1)
    <3>1. e = Append(s, a)
      BY <2>2, <2>6
    <3>2. n # 0 /\ Last(s) = path[n] /\ n \in 1..(L - 1)
      BY <2>0, <2>1, <2>3, <2>6
    <3> HIDE DEF e, s, a
    <3>3. /\ Len(s) \in Nat /\ Len(s) # 0 /\ e \in Seq(R) /\ Len(e) = Len(s) + 1 /\ e # <<>>
          /\ \A m \in 1..Len(s) : e[m] = s[m]
          /\ e[Len(s) + 1] = a
      BY <2>0, <2>1, <2>6, <3>1
    <3>4. Last(e) = a
      BY <3>3 DEF Last
    <3>5. ASSUME NEW m \in 1..(Len(e) - 1) PROVE NextTo(path, e[m], e[m + 1])
      <4>1. CASE m = Len(s)
        <5>1. e[m] = path[n] /\ e[m + 1] = path[n + 1]
          BY <3>2, <3>3, <4>1 DEF Last, a
        <5> QED
          BY <3>2, <5>1 DEF NextTo, L
      <4>2. CASE m # Len(s)
        <5>1. m \in 1..(Len(s) - 1) /\ m \in 1..Len(s) /\ m + 1 \in 1..Len(s)
          BY <3>3, <4>2
        <5> QED
          BY <2>1, <3>3, <5>1
      <4> QED
        BY <4>1, <4>2
    <3> QED
      BY <2>0, <3>3, <3>4, <3>5 DEF e, a
  <2> QED
    BY <2>4, <2>5, <2>6
<1>4. Good(L)
  <2> HIDE DEF Good
  <2>1. L \in Nat /\ L \in 0..L /\ 0 \in S /\ \A n \in 0..(L - 1) : n \in S => n + 1 \in S
    BY <1>0, <1>2, <1>3
  <2>2. L \in S
    <3> HIDE DEF S
    <3> QED
      BY <2>1, UpFromZero
  <2> QED
    BY <2>2
<1>5. normalize_path(path) = f(L)
  BY DEF normalize_path, f, L
<1> QED
  BY <1>4, <1>5 DEF R

LEMMA NextToIsSeen ==
    ASSUME NEW r \in RisPaths, NEW u, NEW t, NextTo(r.path, u, t)
    PROVE  SeenByRis(u, t) /\ SeenByRis(t, u)
<1>1. PICK i \in 1..(Len(r.path) - 1) : r.path[i] = u /\ r.path[i + 1] = t
  BY DEF NextTo
<1>2. {r.path[i], r.path[i + 1]} = {u, t} /\ {r.path[i], r.path[i + 1]} = {t, u}
  BY <1>1
<1> QED
  BY <1>2 DEF SeenByRis

LEMMA ListedIsSeen ==
    ASSUME NEW a, NEW b \in Listed(a)
    PROVE  SeenByRis(a, b) /\ SeenByRis(b, a)
<1>1. ASSUME NEW r \in RisPaths
      PROVE  /\ normalize_path(r.path) \in Seq(Range(r.path))
             /\ \A m \in 1..(Len(normalize_path(r.path)) - 1) :
                  NextTo(r.path, normalize_path(r.path)[m], normalize_path(r.path)[m + 1])
  <2>1. r.path \in Seq(Range(r.path))
    BY TopologyAssumption
  <2> QED
    BY <2>1, NormalizedKeeps
<1>2. CASE b \in infer_neighbors(a)
  <2>1. PICK r \in RisPaths : /\ Len(normalize_path(r.path)) >= 2 /\ Last(normalize_path(r.path)) = a
                              /\ b = normalize_path(r.path)[Len(normalize_path(r.path)) - 1]
    BY <1>2 DEF infer_neighbors
  <2> DEFINE p == normalize_path(r.path)
  <2>2. p \in Seq(Range(r.path)) /\ \A m \in 1..(Len(p) - 1) : NextTo(r.path, p[m], p[m + 1])
    BY <1>1
  <2>3. Len(p) >= 2 /\ p[Len(p)] = a /\ b = p[Len(p) - 1]
    BY <2>1 DEF Last
  <2> HIDE DEF p
  <2>4. Len(p) - 1 \in 1..(Len(p) - 1) /\ (Len(p) - 1) + 1 = Len(p)
    BY <2>2, <2>3
  <2>5. NextTo(r.path, b, a)
    BY <2>2, <2>3, <2>4
  <2> QED
    BY <2>5, NextToIsSeen
<1>3. CASE b \in infer_adjacencies(a)
  <2>1. PICK r \in RisPaths : \E i \in DOMAIN normalize_path(r.path) :
                   /\ b = normalize_path(r.path)[i]
                   /\ \/ i + 1 \in DOMAIN normalize_path(r.path) /\ normalize_path(r.path)[i + 1] = a
                      \/ i - 1 \in DOMAIN normalize_path(r.path) /\ normalize_path(r.path)[i - 1] = a
    BY <1>3 DEF infer_adjacencies
  <2> DEFINE p == normalize_path(r.path)
  <2>2. p \in Seq(Range(r.path)) /\ \A m \in 1..(Len(p) - 1) : NextTo(r.path, p[m], p[m + 1])
    BY <1>1
  <2>3. PICK i \in DOMAIN p : /\ b = p[i]
                              /\ \/ i + 1 \in DOMAIN p /\ p[i + 1] = a
                                 \/ i - 1 \in DOMAIN p /\ p[i - 1] = a
    BY <2>1
  <2> HIDE DEF p
  <2>4. DOMAIN p = 1..Len(p) /\ Len(p) \in Nat /\ i \in Nat
    BY <2>2
  <2>5. CASE i + 1 \in DOMAIN p /\ p[i + 1] = a
    <3>1. i \in 1..(Len(p) - 1)
      BY <2>4, <2>5
    <3>2. NextTo(r.path, b, a)
      BY <2>2, <2>3, <2>5, <3>1
    <3> QED
      BY <3>2, NextToIsSeen
  <2>6. CASE i - 1 \in DOMAIN p /\ p[i - 1] = a
    <3>1. i - 1 \in 1..(Len(p) - 1) /\ (i - 1) + 1 = i
      BY <2>4, <2>6
    <3>2. NextTo(r.path, a, b)
      BY <2>2, <2>3, <2>6, <3>1
    <3> QED
      BY <3>2, NextToIsSeen
  <2> QED
    BY <2>3, <2>5, <2>6
<1> QED
  BY <1>2, <1>3 DEF Listed

LEMMA AgreementIsSeen ==
    ASSUME NEW a, NEW b, bidirectional_ris_check(a, b)
    PROVE  SeenByRis(a, b)
BY ListedIsSeen DEF bidirectional_ris_check
-----------------------------------------------------------------------------
(***************************************************************************)
(* The AS path of a trace.                                                 *)
(***************************************************************************)
IsTrace(hops) ==
    /\ hops \in Seq(Range(hops))
    /\ \A hop \in Range(hops) : IsFiniteSet(hop) /\ \A r \in hop : r.from \in Addr

LEMMA FiniteRange ==
    ASSUME NEW f, IsFiniteSet(DOMAIN f), f = [x \in DOMAIN f |-> f[x]]
    PROVE  IsFiniteSet(Range(f))
<1>1. f \in Surjection(DOMAIN f, Range(f))
  BY DEF Surjection, Range
<1> QED
  BY <1>1, FS_Surjection

LEMMA RepliesAre ==
    ASSUME NEW hop, IsFiniteSet(hop), \A r \in hop : r.from \in Addr
    PROVE  /\ Addresses(hop) \subseteq Addr
           /\ Transparent(hop) => \E a \in Addresses(hop) : Resolution[a].source = "private"
           /\ Cardinality(Owners(hop)) = 1 =>
                /\ Owners(hop) = {CHOOSE a \in Owners(hop) : TRUE}
                /\ Addresses(hop) # {}
<1>1. Kept(hop) \in SUBSET hop
  BY DEF Kept
<1>2. Addresses(hop) \subseteq Addr
  BY <1>1 DEF Addresses
<1>3. ASSUME Transparent(hop) PROVE \E a \in Addresses(hop) : Resolution[a].source = "private"
  <2> DEFINE known == Known(hop, "source")
  <2>1. known \subseteq Addresses(hop)
    BY DEF Known
  <2>2. known # {} /\ Resolution[Min(known)]["source"] = "private"
    BY <1>3, TopologyAssumption DEF Transparent, FirstKnown
  <2>3. known \in SUBSET Nat
    BY <1>2, <2>1, TopologyAssumption
  <2> HIDE DEF known
  <2>4. Min(known) \in known
    BY <2>2, <2>3, MinIs
  <2> QED
    BY <2>1, <2>2, <2>4
<1>4. ASSUME Cardinality(Owners(hop)) = 1
      PROVE  Owners(hop) = {CHOOSE a \in Owners(hop) : TRUE} /\ Addresses(hop) # {}
  <2>1. IsFiniteSet(Kept(hop))
    BY <1>1, FS_Subset
  <2>2. IsFiniteSet(Addresses(hop))
    <3> DEFINE f == [r \in Kept(hop) |-> r.from]
    <3>1. Range(f) = Addresses(hop) /\ DOMAIN f = Kept(hop)
      BY DEF Range, Addresses
    <3> QED
      BY <2>1, <3>1, FiniteRange
  <2>3. IsFiniteSet({Resolution[a].asn : a \in Addresses(hop)})
    <3> DEFINE f == [a \in Addresses(hop) |-> Resolution[a].asn]
    <3>1. Range(f) = {Resolution[a].asn : a \in Addresses(hop)} /\ DOMAIN f = Addresses(hop)
      BY DEF Range
    <3> QED
      BY <2>2, <3>1, FiniteRange
  <2>4. IsFiniteSet(Owners(hop))
    <3>1. Owners(hop) \in SUBSET {Resolution[a].asn : a \in Addresses(hop)}
      BY DEF Owners
    <3> QED
      BY <2>3, <3>1, FS_Subset
  <2>5. \E o : Owners(hop) = {o}
    BY <1>4, <2>4, FS_Singleton
  <2>6. Owners(hop) = {CHOOSE a \in Owners(hop) : TRUE}
    BY <2>5
  <2>7. Owners(hop) # {}
    BY <2>5
  <2>8. Addresses(hop) # {}
    BY <2>7 DEF Owners
  <2> QED
    BY <2>6, <2>8
<1> QED
  BY <1>2, <1>3, <1>4

LEMMA SilentIsWide ==
    ASSUME NEW hop, NEW us, NEW vs, us \subseteq vs, Silent(hop, us)
    PROVE  Silent(hop, vs)
BY DEF Silent

\* After n hops: an entry that is contiguous was shown next to the one before
\* it; while there is no gap, only silence followed the last entry; and every
\* network that had a hop to itself is in the path.
Entry(hops) == [asn : UNION {Owners(hop) : hop \in Range(hops)}, contiguous : BOOLEAN]

ShownLast(hops, n, u) ==
    \E i \in 1..n : Owners(hops[i]) = {u} /\ \A k \in (i + 1)..n : Silent(hops[k], {u})

PathHolds(hops, n, acc) ==
    /\ acc = [path |-> acc.path, gap |-> acc.gap] /\ acc.path \in Seq(Entry(hops)) /\ acc.gap \in BOOLEAN
    /\ acc.path # <<>> /\ ~acc.gap => ShownLast(hops, n, acc.path[Len(acc.path)].asn)
    /\ \A m \in 2..Len(acc.path) :
         acc.path[m].contiguous => Adjacent(hops, acc.path[m - 1].asn, acc.path[m].asn)
    /\ \A j \in 1..n : \A t : Owners(hops[j]) = {t} /\ ~Transparent(hops[j]) =>
         \E m \in 1..Len(acc.path) : acc.path[m].asn = t

LEMMA PathGoesOn ==
    ASSUME NEW hops, IsTrace(hops), NEW n \in 0..(Len(hops) - 1), NEW acc, PathHolds(hops, n, acc)
    PROVE  PathHolds(hops, n + 1, AsStep(acc, hops[n + 1]))
<1> DEFINE hop == hops[n + 1]
           path == acc.path
           N == Len(path)
           u == path[N].asn
           next == AsStep(acc, hop)
<1>0. /\ n \in Nat /\ n + 1 \in Nat /\ n + 1 \in 1..Len(hops) /\ hop \in Range(hops) /\ Len(hops) \in Nat
      /\ IsFiniteSet(hop) /\ \A r \in hop : r.from \in Addr
      /\ N \in Nat /\ path \in Seq(Entry(hops)) /\ (path # <<>> <=> N # 0)
  BY DEF IsTrace, Range, PathHolds
<1>1. /\ acc = [path |-> path, gap |-> acc.gap] /\ acc.gap \in BOOLEAN
      /\ path # <<>> /\ ~acc.gap => ShownLast(hops, n, u)
      /\ \A m \in 2..N : path[m].contiguous => Adjacent(hops, path[m - 1].asn, path[m].asn)
      /\ \A j \in 1..n : \A t : Owners(hops[j]) = {t} /\ ~Transparent(hops[j]) =>
           \E m \in 1..N : path[m].asn = t
  BY DEF PathHolds
<1>2. \A j \in 1..(n + 1) : j \in 1..n \/ j = n + 1
  BY <1>0
\* A hop that says nothing of another network leaves things as they were.
<1>3. ASSUME path # <<>> /\ ~acc.gap => Silent(hop, {u}), path # <<>>, ~acc.gap
      PROVE  ShownLast(hops, n + 1, u)
  <2>1. PICK i \in 1..n : Owners(hops[i]) = {u} /\ \A k \in (i + 1)..n : Silent(hops[k], {u})
    BY <1>1, <1>3 DEF ShownLast
  <2>2. i \in 1..(n + 1) /\ \A k \in (i + 1)..(n + 1) : k \in (i + 1)..n \/ k = n + 1
    BY <1>0
  <2>3. \A k \in (i + 1)..(n + 1) : Silent(hops[k], {u})
    BY <1>3, <2>1, <2>2
  <2> QED
    BY <2>1, <2>2, <2>3 DEF ShownLast
<1>4. CASE Transparent(hop)
  <2>1. next = acc
    BY <1>4 DEF AsStep
  <2>2. \E a \in Addresses(hop) : Resolution[a].source = "private"
    BY <1>0, <1>4, RepliesAre
  <2>3. \A us : Silent(hop, us)
    BY <2>2 DEF Silent
  <2>4. path # <<>> /\ ~acc.gap => ShownLast(hops, n + 1, u)
    BY <1>3, <2>3
  <2>5. \A j \in 1..(n + 1) : \A t : Owners(hops[j]) = {t} /\ ~Transparent(hops[j]) =>
           \E m \in 1..N : path[m].asn = t
    BY <1>1, <1>2, <1>4
  <2> QED
    BY <1>0, <1>1, <2>1, <2>4, <2>5 DEF PathHolds
<1>5. CASE ~Transparent(hop) /\ Cardinality(Owners(hop)) # 1
  <2>1. next = [acc EXCEPT !.gap = TRUE]
    BY <1>5 DEF AsStep
  <2>2. next = [path |-> path, gap |-> TRUE] /\ next.path = path /\ next.gap = TRUE
    BY <1>1, <2>1
  <2>3. \A t : Owners(hop) # {t}
    BY <1>5, FS_Singleton
  <2>4. \A j \in 1..(n + 1) : \A t : Owners(hops[j]) = {t} /\ ~Transparent(hops[j]) =>
           \E m \in 1..N : path[m].asn = t
    BY <1>1, <1>2, <2>3
  <2> QED
    BY <1>0, <1>1, <2>2, <2>4 DEF PathHolds
<1>6. CASE ~Transparent(hop) /\ Cardinality(Owners(hop)) = 1
  <2> DEFINE asn == CHOOSE a \in Owners(hop) : TRUE
  <2>1. Owners(hop) = {asn} /\ Addresses(hop) # {}
    BY <1>0, <1>6, RepliesAre
  <2>2. asn \in UNION {Owners(h) : h \in Range(hops)}
    BY <1>0, <2>1
  <2>3. next = IF path # <<>> /\ Last(path).asn = asn THEN acc
               ELSE [path |-> Append(path, [asn |-> asn, contiguous |-> ~acc.gap]), gap |-> FALSE]
    BY <1>6 DEF AsStep
  <2> HIDE DEF asn
  <2>4. \A j \in 1..(n + 1) : \A t : Owners(hops[j]) = {t} /\ ~Transparent(hops[j]) =>
           t = asn \/ \E m \in 1..N : path[m].asn = t
    BY <1>1, <1>2, <2>1
  <2>5. CASE path # <<>> /\ u = asn
    <3>1. next = acc
      BY <2>3, <2>5 DEF Last
    <3>2. Silent(hop, {u})
      BY <2>1, <2>5 DEF Silent
    <3>3. path # <<>> /\ ~acc.gap => ShownLast(hops, n + 1, u)
      BY <1>3, <3>2
    <3>4. N \in 1..N
      BY <1>0, <2>5
    <3>5. \A j \in 1..(n + 1) : \A t : Owners(hops[j]) = {t} /\ ~Transparent(hops[j]) =>
             \E m \in 1..N : path[m].asn = t
      BY <2>4, <2>5, <3>4
    <3> QED
      BY <1>0, <1>1, <3>1, <3>3, <3>5 DEF PathHolds
  <2>6. CASE ~(path # <<>> /\ u = asn)
    <3> DEFINE e == [asn |-> asn, contiguous |-> ~acc.gap]
               longer == Append(path, e)
    <3>1. next = [path |-> longer, gap |-> FALSE] /\ next.path = longer /\ next.gap = FALSE
      BY <2>3, <2>6 DEF Last
    <3>2. e \in Entry(hops) /\ e.asn = asn /\ e.contiguous = ~acc.gap
      BY <1>1, <2>2 DEF Entry
    <3> HIDE DEF e
    <3>3. /\ longer \in Seq(Entry(hops)) /\ Len(longer) = N + 1 /\ longer[N + 1] = e
          /\ \A m \in 1..N : longer[m] = path[m]
      BY <1>0, <3>2
    <3> HIDE DEF longer, N, path, next, u
    <3>4. ShownLast(hops, n + 1, asn)
      <4>1. n + 1 \in 1..(n + 1) /\ \A k \in ((n + 1) + 1)..(n + 1) : FALSE
        BY <1>0
      <4> QED
        BY <2>1, <4>1 DEF ShownLast
    <3>5. ASSUME N # 0, ~acc.gap PROVE Adjacent(hops, u, asn)
      <4>1. PICK i \in 1..n : Owners(hops[i]) = {u} /\ \A k \in (i + 1)..n : Silent(hops[k], {u})
        BY <1>0, <1>1, <3>5 DEF ShownLast
      <4>2. i \in DOMAIN hops /\ n + 1 \in DOMAIN hops /\ i < n + 1 /\ (n + 1) - 1 = n
        BY <1>0 DEF IsTrace
      <4>3. \A k \in (i + 1)..((n + 1) - 1) : Silent(hops[k], {u, asn})
        BY <4>1, <4>2, SilentIsWide
      <4> QED
        BY <2>1, <4>1, <4>2, <4>3 DEF Adjacent
    <3>6. ASSUME NEW m \in 2..Len(longer), longer[m].contiguous
          PROVE  Adjacent(hops, longer[m - 1].asn, longer[m].asn)
      <4>1. CASE m = N + 1
        <5>1. N # 0 /\ N \in 1..N /\ m - 1 = N /\ longer[m] = e /\ longer[m - 1] = path[N]
          BY <1>0, <3>3, <4>1
        <5>2. ~acc.gap
          BY <3>2, <3>6, <5>1
        <5> QED
          BY <3>2, <3>5, <5>1, <5>2 DEF u
      <4>2. CASE m # N + 1
        <5>1. m \in 2..N /\ m \in 1..N /\ m - 1 \in 1..N
          BY <1>0, <3>3, <4>2
        <5> QED
          BY <1>1, <3>3, <3>6, <5>1
      <4> QED
        BY <4>1, <4>2
    <3>7. \A j \in 1..(n + 1) : \A t : Owners(hops[j]) = {t} /\ ~Transparent(hops[j]) =>
             \E m \in 1..Len(longer) : longer[m].asn = t
      <4>1. N + 1 \in 1..Len(longer) /\ \A m \in 1..N : m \in 1..Len(longer)
        BY <1>0, <3>3
      <4> QED
        BY <2>4, <3>2, <3>3, <4>1
    <3>8. longer[Len(longer)].asn = asn
      BY <3>2, <3>3
    <3> QED
      BY <3>1, <3>3, <3>4, <3>6, <3>7, <3>8 DEF PathHolds, next
  <2> QED
    BY <2>5, <2>6
<1> QED
  BY <1>4, <1>5, <1>6

LEMMA PathIs ==
    ASSUME NEW hops, IsTrace(hops)
    PROVE  PathHolds(hops, Len(hops), AsSteps(hops)[Len(hops)])
<1> DEFINE L == Len(hops)
           S == {n \in Nat : PathHolds(hops, n, AsSteps(hops)[n])}
<1>0. L \in Nat
  BY DEF IsTrace
<1>1. /\ AsSteps(hops)[0] = [path |-> <<>>, gap |-> FALSE]
      /\ \A n \in 0..(L - 1) : AsSteps(hops)[n + 1] = AsStep(AsSteps(hops)[n], hops[n + 1])
  BY <1>0, AsStepsIs
<1>2. 0 \in S
  <2>1. /\ AsSteps(hops)[0].path = <<>> /\ AsSteps(hops)[0].gap = FALSE
        /\ Len(<<>>) = 0 /\ <<>> \in Seq(Entry(hops))
    BY <1>1
  <2>2. PathHolds(hops, 0, AsSteps(hops)[0])
    BY <1>1, <2>1 DEF PathHolds
  <2> QED
    BY <2>2
<1>3. ASSUME NEW n \in 0..(L - 1), n \in S PROVE n + 1 \in S
  <2>1. PathHolds(hops, n, AsSteps(hops)[n]) /\ n + 1 \in Nat
    BY <1>3
  <2>2. PathHolds(hops, n + 1, AsStep(AsSteps(hops)[n], hops[n + 1]))
    BY <2>1, PathGoesOn
  <2> QED
    BY <1>1, <2>1, <2>2
<1>4. L \in S
  <2> HIDE DEF S
  <2>1. L \in Nat /\ L \in 0..L /\ 0 \in S /\ \A n \in 0..(L - 1) : n \in S => n + 1 \in S
    BY <1>0, <1>2, <1>3
  <2> QED
    BY <2>1, UpFromZero
<1> QED
  BY <1>4

\* What a trace says of the network before the target's.
LEMMA AgreementShown ==
    ASSUME NEW hops, IsTrace(hops)
    PROVE  LET agreement == check_neighbor_agreement(extract_as_sequence(hops)) IN
           /\ agreement.up # None /\ agreement.contiguous /\ agreement.reached =>
                Adjacent(hops, agreement.up, TargetAsn)
           /\ ~agreement.reached => Arrivals(hops) = {}
           /\ agreement.ris => SeenByRis(agreement.up, TargetAsn)
<1> DEFINE path == extract_as_sequence(hops)
           reached == {i \in DOMAIN path : path[i].asn = TargetAsn}
           k == IF reached = {} THEN Len(path) + 1 ELSE Min(reached)
           agreement == check_neighbor_agreement(path)
<1>1. /\ path \in Seq(Entry(hops))
      /\ \A m \in 2..Len(path) : path[m].contiguous => Adjacent(hops, path[m - 1].asn, path[m].asn)
      /\ \A j \in 1..Len(hops) : \A t : Owners(hops[j]) = {t} /\ ~Transparent(hops[j]) =>
           \E m \in 1..Len(path) : path[m].asn = t
  BY PathIs DEF PathHolds, extract_as_sequence
<1>2. agreement = IF k = 1 THEN [up |-> None, ris |-> FALSE, contiguous |-> TRUE, reached |-> reached # {}]
       ELSE [up |-> path[k - 1].asn,
             ris |-> bidirectional_ris_check(path[k - 1].asn, TargetAsn),
             contiguous |-> IF reached = {} THEN path[k - 1].contiguous ELSE path[k].contiguous,
             reached |-> reached # {}]
  BY DEF check_neighbor_agreement
<1> HIDE DEF path, agreement
<1>3. DOMAIN path = 1..Len(path) /\ Len(path) \in Nat /\ reached \in SUBSET Nat
  BY <1>1
<1>4. agreement.reached <=> reached # {}
  BY <1>2
<1>5. ASSUME agreement.up # None, agreement.contiguous, agreement.reached
      PROVE  Adjacent(hops, agreement.up, TargetAsn)
  <2>1. reached # {} /\ k = Min(reached)
    BY <1>4, <1>5
  <2>2. k \in reached
    <3> HIDE DEF reached, k
    <3> QED
      BY <1>3, <2>1, MinIs
  <2>3. k # 1 /\ agreement.up = path[k - 1].asn /\ path[k].contiguous
    BY <1>2, <1>5, <2>1
  <2>4. k \in 2..Len(path) /\ path[k].asn = TargetAsn
    BY <1>3, <2>2, <2>3
  <2> HIDE DEF k
  <2> QED
    BY <1>1, <2>3, <2>4
<1>6. ASSUME ~agreement.reached PROVE Arrivals(hops) = {}
  <2>1. reached = {}
    BY <1>4, <1>6
  <2>2. SUFFICES ASSUME NEW j \in Arrivals(hops) PROVE FALSE
    OBVIOUS
  <2>3. j \in 1..Len(hops) /\ Owners(hops[j]) = {TargetAsn} /\ ~Transparent(hops[j])
    BY DEF Arrivals, TargetHops, IsTrace
  <2>4. \E m \in 1..Len(path) : path[m].asn = TargetAsn
    BY <1>1, <2>3
  <2> QED
    BY <1>3, <2>1, <2>4
<1>7. ASSUME agreement.ris PROVE SeenByRis(agreement.up, TargetAsn)
  <2> HIDE DEF k, reached
  <2>1. k # 1 /\ agreement.up = path[k - 1].asn /\ bidirectional_ris_check(path[k - 1].asn, TargetAsn)
    BY <1>2, <1>7
  <2> QED
    BY <2>1, AgreementIsSeen
<1> QED
  BY <1>5, <1>6, <1>7 DEF agreement, path
-----------------------------------------------------------------------------
(***************************************************************************)
(* The measurement that is being filed is the one that was read.           *)
(***************************************************************************)
LEMMA AnalysisIs ==
    ASSUME NEW rs, NEW i \in DOMAIN rs
    PROVE  LET t == analyze_measurement(rs)
               agreement == check_neighbor_agreement(extract_as_sequence(rs[i])) IN
           /\ DOMAIN t = DOMAIN rs
           /\ t[i].loop = Loop(rs[i]) /\ t[i].up = agreement.up /\ t[i].ris = agreement.ris
           /\ t[i].contiguous = agreement.contiguous /\ t[i].reached = agreement.reached
<1> DEFINE ps == [j \in DOMAIN rs |-> Analyzed(rs[j])]
           byRouter == IxpPick(Clean(ps)) = None
           floors(j) == [c \in City |-> probe_verdict(check_detour_trace(rs[j], c, byRouter))]
           path == extract_as_sequence(rs[i])
           agreement == check_neighbor_agreement(path)
           t == analyze_measurement(rs)
           p == Analyzed(rs[i])
           fl == floors(i)
<1>1. t = [j \in DOMAIN rs |-> [Analyzed(rs[j]) EXCEPT !.floors = floors(j)]]
  BY DEF analyze_measurement
<1>2. p = [first |-> IF path # <<>> /\ path[1].asn \in Proxies THEN "proxy" ELSE "local",
           loop |-> Loop(rs[i]), crossings |-> Crossings(rs[i]),
           up |-> agreement.up, ris |-> agreement.ris,
           contiguous |-> agreement.contiguous, reached |-> agreement.reached,
           hidden |-> HiddenBeforeTarget(rs[i]), hub |-> find_router_hub(rs[i]),
           floors |-> [c \in City |-> "no_hop"]]
  BY DEF Analyzed
<1>3. DOMAIN t = DOMAIN rs /\ t[i] = [p EXCEPT !.floors = fl]
  BY <1>1
<1> HIDE DEF path, agreement, fl, t, p
<1>4. /\ [p EXCEPT !.floors = fl].loop = Loop(rs[i]) /\ [p EXCEPT !.floors = fl].up = agreement.up
      /\ [p EXCEPT !.floors = fl].ris = agreement.ris
      /\ [p EXCEPT !.floors = fl].contiguous = agreement.contiguous
      /\ [p EXCEPT !.floors = fl].reached = agreement.reached
  BY <1>2
<1> QED
  BY <1>3, <1>4 DEF t, agreement, path

RawsHold ==
    /\ raws \in Raws \cup {<<>>}
    /\ raws # <<>> /\ run.stage # "idle" => run.traces = analyze_measurement(raws)

LEMMA TracesStay ==
    ASSUME RunHolds, Advance, run'.stage # "idle"
    PROVE  run.stage # "idle" /\ run'.traces = run.traces
<1>0. /\ run.stage = "idle" => run = NoRun
      /\ run.stage # "idle" =>
           run \in [stage : {"file", "escalate"}, src : {run.src}, tgt : {run.tgt},
                    retest : Ids \cup {Fresh}, traces : {run.traces}, since : {run.since},
                    groups : SUBSET Groups(Clean(run.traces)), finding : {run.finding},
                    left : Seq(Range(run.left))]
  BY DEF RunHolds
<1>1. CASE FileGroup
  <2>1. PICK g \in run.groups : run.stage = "file" /\ (Extend(g) \/ Create(g) \/ Skip(g))
    BY <1>1 DEF FileGroup
  <2>2. ASSUME NEW i, Take(g, i) PROVE run'.traces = run.traces
    BY <1>0, <2>1, <2>2 DEF Take
  <2>3. CASE Skip(g)
    BY <1>0, <2>1, <2>3 DEF Skip
  <2>4. CASE Extend(g)
    BY <2>1, <2>2, <2>4 DEF Extend
  <2>5. CASE Create(g)
    BY <2>1, <2>2, <2>5 DEF Create
  <2> QED
    BY <2>1, <2>3, <2>4, <2>5
<1>2. CASE Corroborate
  BY <1>0, <1>2 DEF Corroborate
<1>3. CASE MarkTested
  BY <1>0, <1>3 DEF MarkTested
<1>4. CASE Finish \/ Raise
  BY <1>4 DEF Finish, Raise, NoRun
<1>5. CASE \E i \in Ids : Promote(i)
  BY <1>5 DEF Promote
<1> QED
  BY <1>1, <1>2, <1>3, <1>4, <1>5 DEF Advance

LEMMA RawsInHand == TracingSpec => [](RunHolds /\ RawsHold)
<1>1. TracingInit => RawsHold
  BY DEF TracingInit, RawsHold
<1>2. RunHolds /\ RawsHold /\ [TracingNext]_tracingVars => RawsHold'
  <2> SUFFICES ASSUME RunHolds, RawsHold, [TracingNext]_tracingVars PROVE RawsHold'
    OBVIOUS
  <2>1. CASE Returned
    <3>1. run' = run /\ run.stage = "idle" /\ raws' \in Raws
      BY <2>1 DEF Returned, vars
    <3> QED
      BY <3>1 DEF RawsHold
  <2>2. CASE Measured
    <3>1. raws' = raws /\ raws \in Raws
      BY <2>2 DEF Measured, RawsHold
    <3> DEFINE traces == analyze_measurement(raws)
    <3>2. run'.traces = traces
      <4>1. PICK src \in Source, retest \in Ids \cup {Fresh} : Classify(src, TargetAsn, retest, traces)
        BY <2>2 DEF Measured
      <4> HIDE DEF traces
      <4> QED
        BY <4>1 DEF Classify
    <3> HIDE DEF traces
    <3>3. run'.traces = traces /\ raws' = raws
      BY <3>1, <3>2
    <3>4. (raws # <<>> /\ run.stage # "idle" => run.traces = analyze_measurement(raws))'
      BY <3>3 DEF traces
    <3> QED
      BY <3>1, <3>4 DEF RawsHold
  <2>3. CASE Continued
    <3>1. Advance /\ raws' = IF run'.stage = "idle" THEN <<>> ELSE raws
      BY <2>3 DEF Continued
    <3>2. CASE run'.stage = "idle"
      BY <3>1, <3>2 DEF RawsHold
    <3>3. CASE run'.stage # "idle"
      <4>1. run.stage # "idle" /\ run'.traces = run.traces /\ raws' = raws
        BY <3>1, <3>3, TracesStay
      <4> QED
        BY <4>1 DEF RawsHold
    <3> QED
      BY <3>2, <3>3
  <2>4. CASE UNCHANGED tracingVars
    BY <2>4 DEF RawsHold, tracingVars, vars
  <2> QED
    BY <2>1, <2>2, <2>3, <2>4 DEF TracingNext
<1>3. TracingSpec => []RunHolds
  BY ShapeHolds, TracingFiles, PTL
<1> QED
  BY <1>1, <1>2, <1>3, PTL DEF TracingSpec

\* Of a measurement that is being filed, the replies and what was made of them.
LEMMA BeingFiled ==
    ASSUME RunHolds, RawsHold, run.stage = "file", raws # <<>>
    PROVE  /\ run.traces = analyze_measurement(raws) /\ Readable(run.traces)
           /\ DOMAIN run.traces = DOMAIN raws
           /\ run.groups \subseteq Groups(Clean(run.traces))
           /\ \A i \in DOMAIN raws : IsTrace(raws[i])
<1>1. raws \in Raws /\ run.traces = analyze_measurement(raws)
  BY DEF RawsHold
<1>2. Readable(run.traces) /\ run.groups \subseteq Groups(Clean(run.traces))
  BY DEF RunHolds
<1>3. \A hops \in Range(raws) : IsTrace(hops)
  BY <1>1, TracingAssumption DEF IsTrace
<1>4. \A i \in DOMAIN raws : IsTrace(raws[i])
  BY <1>3 DEF Range
<1>5. DOMAIN run.traces = DOMAIN raws
  BY <1>1 DEF analyze_measurement
<1> QED
  BY <1>1, <1>2, <1>4, <1>5

\* An edge that is filed was shown by one of the probes.
LEMMA EdgeIs ==
    ASSUME NEW ps, Readable(ps), NEW g \in Groups(ps), g.kind # "detour"
    PROVE  \E p \in Range(ps) : /\ p.up = g.up
                                /\ \/ g.kind = "transit" /\ ShowsTransit(p)
                                   \/ g.kind = "candidate" /\ ShowsCandidate(p)
<1>0. ps \in Seq(Range(ps))
  BY DEF Readable
<1>1. ASSUME TransitPick(ps) # None PROVE \E p \in Range(ps) : p.up = TransitPick(ps) /\ ShowsTransit(p)
  <2> DEFINE picks == {i \in DOMAIN ps : ShowsTransit(ps[i])}
  <2>1. picks # {} /\ TransitPick(ps) = ps[Min(picks)].up
    BY <1>1 DEF TransitPick
  <2>2. picks \in SUBSET Nat
    BY <1>0
  <2>3. Min(picks) \in picks
    <3> HIDE DEF picks
    <3> QED
      BY <2>1, <2>2, MinIs
  <2> QED
    BY <2>1, <2>3 DEF Range
<1>2. CASE Detour(ps) # None \/ TransitPick(ps) # None
  <2>1. g.kind = "transit" /\ g.up = TransitPick(ps) /\ TransitPick(ps) # None
    <3>1. \/ g = Group("detour", None, ps, TRUE)
          \/ \E create \in BOOLEAN :
               g = Group("transit", TransitPick(ps), Through(ps, TransitPick(ps)), create)
                 /\ TransitPick(ps) # None
      BY <1>2 DEF Groups
    <3>2. Group("detour", None, ps, TRUE).kind = "detour"
      BY DEF Group
    <3> QED
      BY <3>1, <3>2 DEF Group
  <2> QED
    BY <1>1, <2>1
<1>3. CASE Detour(ps) = None /\ TransitPick(ps) = None
  <2> DEFINE picks == CandidatePicks(ps)
             places == {i \in DOMAIN ps : ShowsCandidate(ps[i])}
  <2>1. PICK p \in Range(picks) : g = Group("candidate", p.up, Through(picks, p.up), TRUE)
    BY <1>3 DEF Groups
  <2>2. picks = Chosen(ps, places) /\ places \in SUBSET (DOMAIN ps)
    BY DEF CandidatePicks
  <2>3. Range(picks) = {ps[i] : i \in places}
    BY <1>0, <2>2, ChosenIs
  <2>4. p \in Range(ps) /\ ShowsCandidate(p)
    BY <2>1, <2>3 DEF Range
  <2> QED
    BY <2>1, <2>4 DEF Group
<1> QED
  BY <1>2, <1>3

\* An edge into the target is filed on evidence only: of transit, RIS has seen
\* it, and the trace shows it if it counts as in the target's network; of
\* peering, a trace shows it with no dark or unresolved hop in between.
THEOREM EdgesRestOnReplies == TracingSpec => []EdgesAreShown
<1>1. RunHolds /\ RawsHold => EdgesAreShown
  <2> SUFFICES ASSUME RunHolds, RawsHold, run.stage = "file", raws # <<>>,
                      NEW g \in run.groups, g.kind # "detour"
               PROVE  /\ \E i \in Cleaned :
                           \/ Adjacent(raws[i], g.up, TargetAsn)
                           \/ g.kind = "transit" /\ Arrivals(raws[i]) = {}
                      /\ g.kind = "transit" => SeenByRis(g.up, TargetAsn)
                      /\ \E i \in DOMAIN raws : is_decisive(run.traces[i])
    BY DEF EdgesAreShown, Filed
  <2> DEFINE t == run.traces
             places == {i \in DOMAIN t : t[i].first = "local"}
             clean == Clean(t)
  <2>1. /\ t = analyze_measurement(raws) /\ Readable(t) /\ DOMAIN t = DOMAIN raws
        /\ g \in Groups(clean) /\ \A i \in DOMAIN raws : IsTrace(raws[i])
    BY BeingFiled
  <2>2. Readable(clean) /\ Range(clean) = {t[i] : i \in places}
    <3>1. t \in Seq(Range(t)) /\ places \in SUBSET (DOMAIN t) /\ clean = Chosen(t, places)
      BY <2>1 DEF Readable, Clean
    <3> QED
      BY <2>1, <3>1, ChosenIs, CleanIs
  <2>3. PICK p \in Range(clean) : /\ p.up = g.up
                                  /\ \/ g.kind = "transit" /\ ShowsTransit(p)
                                     \/ g.kind = "candidate" /\ ShowsCandidate(p)
    <3> HIDE DEF clean
    <3> QED
      BY <2>1, <2>2, EdgeIs
  <2>4. PICK i \in places : p = t[i]
    BY <2>2, <2>3
  <2>5. i \in Cleaned /\ i \in DOMAIN raws
    BY <2>1, <2>4 DEF Cleaned
  <2> DEFINE agreement == check_neighbor_agreement(extract_as_sequence(raws[i]))
  <2>6. /\ p.up = agreement.up /\ p.ris = agreement.ris
        /\ p.contiguous = agreement.contiguous /\ p.reached = agreement.reached
    BY <2>1, <2>4, <2>5, AnalysisIs
  <2>7. /\ agreement.up # None /\ agreement.contiguous /\ agreement.reached =>
             Adjacent(raws[i], agreement.up, TargetAsn)
        /\ ~agreement.reached => Arrivals(raws[i]) = {}
        /\ agreement.ris => SeenByRis(agreement.up, TargetAsn)
    BY <2>1, <2>5, AgreementShown
  <2> HIDE DEF agreement, t, places, clean
  <2>8. CASE g.kind = "transit" /\ ShowsTransit(p)
    <3>1. p.up \in Fishbowl /\ p.ris /\ p.contiguous /\ p.up # None
      BY <2>8, ClassifierAssumption DEF ShowsTransit
    <3>2. Adjacent(raws[i], g.up, TargetAsn) \/ Arrivals(raws[i]) = {}
      BY <2>3, <2>6, <2>7, <3>1
    <3>3. SeenByRis(g.up, TargetAsn) /\ is_decisive(run.traces[i])
      BY <2>3, <2>4, <2>6, <2>7, <3>1 DEF is_decisive, t
    <3> QED
      BY <2>5, <2>8, <3>2, <3>3
  <2>9. CASE g.kind = "candidate" /\ ShowsCandidate(p)
    <3>1. p.up # None /\ p.reached /\ p.contiguous
      BY <2>9 DEF ShowsCandidate
    <3>2. Adjacent(raws[i], g.up, TargetAsn) /\ is_decisive(run.traces[i])
      BY <2>3, <2>4, <2>6, <2>7, <3>1 DEF is_decisive, t
    <3> QED
      BY <2>5, <2>9, <3>2
  <2> QED
    BY <2>3, <2>8, <2>9
<1> QED
  BY <1>1, RawsInHand, PTL
-----------------------------------------------------------------------------
(***************************************************************************)
(* Loops.  How many hops up to one have answered tells the answers apart,  *)
(* and how far one is behind another.                                      *)
(***************************************************************************)
Count(hops, n) == Cardinality(Below(Answers(hops), n))

LEMMA AnswersAre ==
    ASSUME NEW hops, IsTrace(hops)
    PROVE  /\ Len(hops) \in Nat /\ Answers(hops) \in SUBSET (1..Len(hops))
           /\ \A i \in Answers(hops) : IsSingle(hops[i]) /\ Single(hops[i]) \in Addr
           /\ \A i \in 1..Len(hops) : i \in Answers(hops) <=> IsSingle(hops[i])
<1>1. Len(hops) \in Nat /\ DOMAIN hops = 1..Len(hops) /\ Answers(hops) \in SUBSET (1..Len(hops))
  BY DEF IsTrace, Answers
<1>2. ASSUME NEW i \in Answers(hops) PROVE Single(hops[i]) \in Addr
  <2>1. hops[i] \in Range(hops) /\ Cardinality(Addresses(hops[i])) = 1
    BY <1>1 DEF Range, Answers, IsSingle
  <2>2. Addresses(hops[i]) \subseteq Addr
    BY <2>1, RepliesAre DEF IsTrace
  <2>3. Addresses(hops[i]) # {}
    BY <2>1, FS_EmptySet
  <2>4. Single(hops[i]) \in Addresses(hops[i])
    BY <2>3 DEF Single
  <2> QED
    BY <2>2, <2>4
<1> QED
  BY <1>1, <1>2 DEF Answers

LEMMA CountIs ==
    ASSUME NEW hops, IsTrace(hops)
    PROVE  /\ Count(hops, 0) = 0 /\ \A n \in Nat : Count(hops, n) \in Nat
           /\ \A n \in Nat : Count(hops, n + 1) =
                IF n + 1 \in Answers(hops) THEN Count(hops, n) + 1 ELSE Count(hops, n)
           /\ \A i, j \in Answers(hops) : Count(hops, i) = Count(hops, j) => i = j
           /\ \A i \in Answers(hops) : Count(hops, i) # 0
<1>0. Len(hops) \in Nat /\ Answers(hops) \in SUBSET (1..Len(hops))
  BY AnswersAre
<1>1. Count(hops, 0) = 0 /\ Cardinality(Answers(hops)) \in Nat
  BY <1>0, CountsUp DEF Count
<1>2. \A n \in Nat : Count(hops, n) \in 0..Cardinality(Answers(hops))
  BY <1>0, CountsUp DEF Count
<1>3. \A n \in Nat : Count(hops, n + 1) =
         IF n + 1 \in Answers(hops) THEN Count(hops, n) + 1 ELSE Count(hops, n)
  BY <1>0, CountStep DEF Count
<1>4. \A i \in Answers(hops) :
         /\ Count(hops, i) \in 1..Cardinality(Answers(hops))
         /\ \A j \in Answers(hops) : Count(hops, i) = Count(hops, j) => i = j
  BY <1>0, PlacesCount DEF Count
<1> QED
  BY <1>1, <1>2, <1>3, <1>4

\* The answers from one on.
LEMMA CountFrom ==
    ASSUME NEW hops, IsTrace(hops), NEW n \in Nat, NEW j \in Answers(hops), j <= n
    PROVE  Cardinality({k \in Answers(hops) : j <= k /\ k < n + 1}) = Count(hops, n) - Count(hops, j) + 1
<1> DEFINE A == Answers(hops)
           T == {k \in A : j <= k /\ k < n + 1}
<1>0. Len(hops) \in Nat /\ A \in SUBSET (1..Len(hops)) /\ IsFiniteSet(A) /\ j \in Nat /\ j # 0
  <2>1. Len(hops) \in Nat /\ A \in SUBSET (1..Len(hops))
    BY AnswersAre
  <2>2. IsFiniteSet(A)
    BY <2>1, CountsUp
  <2> QED
    BY <2>1, <2>2
<1> HIDE DEF A
<1>1. PICK i \in Nat : j = i + 1
  <2>1. j - 1 \in Nat /\ j = (j - 1) + 1
    BY <1>0
  <2> QED
    BY <2>1
<1>2. \A k \in A : k \in Nat
  BY <1>0
<1>3. \A k \in A : /\ k <= n <=> k <= i \/ (j <= k /\ k < n + 1)
                   /\ ~(k <= i /\ j <= k)
  BY <1>1, <1>2
<1>4. Below(A, n) = Below(A, i) \cup T /\ Below(A, i) \cap T = {}
  BY <1>3 DEF Below
<1>5. IsFiniteSet(Below(A, i)) /\ IsFiniteSet(T)
  <2>1. Below(A, i) \in SUBSET A /\ T \in SUBSET A
    BY DEF Below
  <2> QED
    BY <1>0, <2>1, FS_Subset
<1>6. Cardinality(Below(A, n)) = Cardinality(Below(A, i)) + Cardinality(T)
  <2>1. Cardinality(Below(A, i) \cup T) = Cardinality(Below(A, i)) + Cardinality(T) - Cardinality(Below(A, i) \cap T)
    BY <1>5, FS_Union
  <2>2. Cardinality({}) = 0 /\ Cardinality(Below(A, i)) \in Nat /\ Cardinality(T) \in Nat
    BY <1>5, FS_EmptySet, FS_CardinalityType
  <2> HIDE DEF T
  <2>3. Cardinality(Below(A, i) \cap T) = 0
    BY <1>4, <2>2
  <2>4. Cardinality(Below(A, n)) = Cardinality(Below(A, i) \cup T)
    BY <1>4
  <2> QED
    BY <2>1, <2>2, <2>3, <2>4
<1>7. Count(hops, j) = Count(hops, i) + 1 /\ Count(hops, i) \in Nat /\ Count(hops, n) \in Nat
  BY <1>1, CountIs DEF A
<1>8. Cardinality(T) \in Nat
  BY <1>5, FS_CardinalityType
<1>9. Count(hops, n) = Count(hops, i) + Cardinality(T)
  BY <1>6 DEF Count, A
<1> QED
  BY <1>7, <1>8, <1>9 DEF A

\* An answer adds one to its router's run, or starts one.
LEMMA RunGrows ==
    ASSUME NEW hops, IsTrace(hops), NEW n \in 0..(Len(hops) - 1), n + 1 \in Answers(hops)
    PROVE  RunTo(hops, n + 1) = IF n \in Answers(hops) /\ Single(hops[n]) = Single(hops[n + 1])
                                THEN RunTo(hops, n) + 1 ELSE 1
<1> DEFINE A == Answers(hops)
           R(i) == {j \in A : j <= i /\ \A k \in j..i : k \in A /\ Single(hops[k]) = Single(hops[i])}
<1>0. /\ Len(hops) \in Nat /\ A \in SUBSET (1..Len(hops)) /\ IsFiniteSet(A) /\ n \in Nat
      /\ \A j \in A : j \in Nat
  <2>1. Len(hops) \in Nat /\ A \in SUBSET (1..Len(hops))
    BY AnswersAre
  <2>2. IsFiniteSet(A)
    BY <2>1, CountsUp
  <2> QED
    BY <2>1, <2>2
<1>1. RunTo(hops, n) = Cardinality(R(n)) /\ RunTo(hops, n + 1) = Cardinality(R(n + 1))
  BY DEF RunTo
<1> HIDE DEF A
<1>2. n + 1 \in R(n + 1)
  <2>1. n + 1 <= n + 1 /\ \A k \in (n + 1)..(n + 1) : k = n + 1
    BY <1>0
  <2> QED
    BY <2>1 DEF A
<1>3. CASE n \in A /\ Single(hops[n]) = Single(hops[n + 1])
  <2>1. ASSUME NEW j \in A PROVE j \in R(n + 1) <=> j \in R(n) \/ j = n + 1
    <3>1. CASE j <= n
      <4>1. j <= n + 1 /\ j # n + 1 /\ \A k : k \in j..(n + 1) <=> k \in j..n \/ k = n + 1
        BY <1>0, <3>1
      <4> QED
        BY <1>3, <3>1, <4>1 DEF A
    <3>2. CASE ~(j <= n)
      <4>1. j <= n + 1 => j = n + 1
        BY <1>0, <3>2
      <4> QED
        BY <1>2, <3>2, <4>1
    <3> QED
      BY <3>1, <3>2
  <2>2. R(n + 1) = R(n) \cup {n + 1} /\ n + 1 \notin R(n)
    <3>1. n + 1 \in A /\ ~(n + 1 <= n)
      BY <1>0 DEF A
    <3> QED
      BY <2>1, <3>1
  <2>3. IsFiniteSet(R(n))
    <3>1. R(n) \in SUBSET A
      OBVIOUS
    <3> QED
      BY <1>0, <3>1, FS_Subset
  <2>4. Cardinality(R(n + 1)) = Cardinality(R(n)) + 1
    <3> HIDE DEF R
    <3> QED
      BY <2>2, <2>3, FS_AddElement
  <2> QED
    BY <1>1, <1>3, <2>4 DEF A
<1>4. CASE ~(n \in A /\ Single(hops[n]) = Single(hops[n + 1]))
  <2>1. ASSUME NEW j \in R(n + 1), j # n + 1 PROVE FALSE
    <3>1. j \in A /\ j <= n + 1 /\ \A k \in j..(n + 1) : k \in A /\ Single(hops[k]) = Single(hops[n + 1])
      OBVIOUS
    <3>2. n \in j..(n + 1)
      BY <1>0, <2>1, <3>1
    <3> QED
      BY <1>4, <3>1, <3>2
  <2>2. R(n + 1) = {n + 1}
    BY <1>2, <2>1
  <2>3. Cardinality({n + 1}) = 1
    BY FS_Singleton
  <2> HIDE DEF R
  <2> QED
    BY <1>1, <1>4, <2>2, <2>3 DEF A
<1> QED
  BY <1>3, <1>4 DEF A

\* After n hops: the routers seen; the last three answers, or all if there were
\* fewer; the last answer of each router and its run; and a repeat, just if an
\* answer came back after the last router that was new.
Turns(hops, n) ==
    \E j \in Below(Answers(hops), n) :
        ComesBack(hops, j) /\ \A k \in Below(Answers(hops), n) : IsNew(hops, k) => k < j

LastThree(hops, n, recent) ==
    /\ recent \in Seq(Addr)
    /\ Len(recent) = IF Count(hops, n) < 3 THEN Count(hops, n) ELSE 3
    /\ \A m \in 1..Len(recent) : \E j \in Below(Answers(hops), n) :
         Count(hops, j) = Count(hops, n) - Len(recent) + m /\ recent[m] = Single(hops[j])

LoopHolds(hops, n, acc) ==
    /\ acc = [seen |-> acc.seen, recent |-> acc.recent, repeat |-> acc.repeat,
              last |-> acc.last, runs |-> acc.runs]
    /\ acc.seen = {Single(hops[j]) : j \in Below(Answers(hops), n)}
    /\ LastThree(hops, n, acc.recent)
    /\ acc.last \in [Addr -> Nat] /\ acc.runs \in [Addr -> Nat]
    /\ \A a \in Addr : acc.last[a] # 0 =>
         acc.last[a] \in Answers(hops) /\ Single(hops[acc.last[a]]) = a /\ acc.runs[a] = RunTo(hops, acc.last[a])
    /\ n \in Answers(hops) => acc.last[Single(hops[n])] = n
    /\ acc.repeat \in Addr \cup {None} /\ (acc.repeat # None <=> Turns(hops, n))

LEMMA CountUpTo ==
    ASSUME NEW hops, IsTrace(hops), NEW n \in Nat, NEW j \in Answers(hops), j <= n
    PROVE  Count(hops, j) <= Count(hops, n)
<1>1. Cardinality({k \in Answers(hops) : j <= k /\ k < n + 1}) = Count(hops, n) - Count(hops, j) + 1
  BY CountFrom
<1>2. IsFiniteSet({k \in Answers(hops) : j <= k /\ k < n + 1})
  <2>1. IsFiniteSet(Answers(hops))
    BY AnswersAre, CountsUp
  <2> QED
    BY <2>1, FS_Subset
<1>3. j \in {k \in Answers(hops) : j <= k /\ k < n + 1}
  <2>1. j \in Nat
    BY AnswersAre
  <2> QED
    BY <2>1
<1>4. Cardinality({k \in Answers(hops) : j <= k /\ k < n + 1}) \in Nat \ {0}
  BY <1>2, <1>3, FS_CardinalityType, FS_EmptySet
<1>5. Count(hops, j) \in Nat /\ Count(hops, n) \in Nat
  <2>1. j \in Nat
    BY AnswersAre
  <2> QED
    BY <2>1, CountIs
<1> QED
  BY <1>1, <1>4, <1>5

\* An address is among the recent ones if one of the three answers before this
\* one was its.
LEMMA RecentIs ==
    ASSUME NEW hops, IsTrace(hops), NEW n \in 0..(Len(hops) - 1), NEW acc, LoopHolds(hops, n, acc), NEW a
    PROVE  a \in Range(acc.recent) <=>
             \E j \in Answers(hops) :
                /\ j < n + 1 /\ Single(hops[j]) = a
                /\ Cardinality({k \in Answers(hops) : j <= k /\ k < n + 1}) <= 3
<1> DEFINE A == Answers(hops)
           C(i) == Count(hops, i)
           N == Len(acc.recent)
           From(j) == Cardinality({k \in A : j <= k /\ k < n + 1})
<1>0. /\ \A j \in A : j \in Nat /\ C(j) \in Nat /\ C(j) # 0 /\ (j < n + 1 <=> j <= n)
      /\ n \in Nat /\ C(n) \in Nat
  <2>1. n \in Nat /\ \A j \in A : j \in Nat /\ (j < n + 1 <=> j <= n)
    BY AnswersAre
  <2>2. /\ \A m \in Nat : C(m) \in Nat
        /\ \A j \in A : C(j) # 0
    BY CountIs
  <2> QED
    BY <2>1, <2>2
<1>1. \A j \in A : j <= n => From(j) = C(n) - C(j) + 1 /\ C(j) <= C(n)
  BY <1>0, CountFrom, CountUpTo
<1>2. /\ acc.recent \in Seq(Addr) /\ N = IF C(n) < 3 THEN C(n) ELSE 3
      /\ \A m \in 1..N : \E j \in Below(A, n) : C(j) = C(n) - N + m /\ acc.recent[m] = Single(hops[j])
  BY DEF LoopHolds, LastThree
<1>3. \A i, j \in A : C(i) = C(j) => i = j
  BY CountIs
<1>4. Range(acc.recent) = {acc.recent[m] : m \in 1..N}
  BY <1>2 DEF Range
<1> HIDE DEF A, C, N, From
<1>5. ASSUME a \in Range(acc.recent)
      PROVE  \E j \in A : j < n + 1 /\ Single(hops[j]) = a /\ From(j) <= 3
  <2>1. PICK m \in 1..N : a = acc.recent[m]
    BY <1>4, <1>5
  <2>2. PICK j \in A : j <= n /\ C(j) = C(n) - N + m /\ a = Single(hops[j])
    BY <1>2, <2>1 DEF Below
  <2>3. From(j) = C(n) - C(j) + 1 /\ N \in 0..3 /\ m >= 1 /\ j < n + 1
    BY <1>0, <1>1, <1>2, <2>2
  <2>4. From(j) <= 3
    BY <1>0, <2>2, <2>3
  <2> QED
    BY <2>2, <2>3, <2>4
<1>6. ASSUME NEW j \in A, j < n + 1, Single(hops[j]) = a, From(j) <= 3
      PROVE  a \in Range(acc.recent)
  <2>1. j <= n /\ C(j) \in 1..C(n) /\ C(n) - C(j) + 1 <= 3
    BY <1>0, <1>1, <1>6
  <2> DEFINE m == C(j) - C(n) + N
  <2>2. m \in 1..N /\ C(n) - N + m = C(j)
    BY <1>0, <1>2, <2>1
  <2> HIDE DEF m
  <2>3. PICK i \in A : C(i) = C(j) /\ acc.recent[m] = Single(hops[i])
    BY <1>2, <2>2 DEF Below
  <2>4. i = j
    BY <1>3, <2>3
  <2> QED
    BY <1>4, <1>6, <2>2, <2>3, <2>4
<1> QED
  BY <1>5, <1>6 DEF A, From

\* The three that are kept of a sequence, when one more comes.
Window(s, a) == SubSeq(Append(s, a), Max({1, Len(s) - 1}), Len(s) + 1)

Moved(s, N, a, later) ==
    /\ later \in Seq(Addr)
    /\ N = 3 => Len(later) = 3 /\ later[1] = s[2] /\ later[2] = s[3] /\ later[3] = a
    /\ N < 3 => Len(later) = N + 1 /\ later[N + 1] = a /\ \A m \in 1..N : later[m] = s[m]

LEMMA WindowIs ==
    ASSUME NEW s \in Seq(Addr), NEW N \in 0..3, Len(s) = N, NEW a \in Addr,
           NEW later, later = Window(s, a)
    PROVE  Moved(s, N, a, later)
<1>1. ASSUME NEW c \in 1..2, c = Max({1, N - 1}) PROVE (N = 3 <=> c = 2) /\ (N < 3 <=> c = 1)
  <2>1. ASSUME NEW x \in {1, N - 1}, \A y \in {1, N - 1} : x >= y PROVE (N = 3 => x = 2) /\ (N # 3 => x = 1)
    BY <2>1
  <2>2. \E x \in {1, N - 1} : \A y \in {1, N - 1} : x >= y
    OBVIOUS
  <2>3. c \in {1, N - 1} /\ \A y \in {1, N - 1} : c >= y
    BY <1>1, <2>2 DEF Max
  <2> QED
    BY <2>1, <2>3
<1>2. Max({1, N - 1}) \in 1..2
  <2>1. \E x \in {1, N - 1} : \A y \in {1, N - 1} : x >= y
    OBVIOUS
  <2>2. Max({1, N - 1}) \in {1, N - 1} /\ Max({1, N - 1}) >= 1
    BY <2>1 DEF Max
  <2> QED
    BY <2>2
<1> DEFINE c == Max({1, N - 1})
           all == Append(s, a)
<1>3. c \in 1..2 /\ (N = 3 <=> c = 2) /\ (N < 3 <=> c = 1)
  BY <1>1, <1>2
<1>4. all \in Seq(Addr) /\ Len(all) = N + 1 /\ all[N + 1] = a /\ \A m \in 1..N : all[m] = s[m]
  BY AppendProperties
<1>5. later = SubSeq(all, c, N + 1)
  BY DEF Window
<1> HIDE DEF c, all
<1>6. \A k \in c..(N + 1) : all[k] \in Addr
  <2>1. \A k \in c..(N + 1) : k \in 1..(N + 1)
    BY <1>3
  <2> QED
    BY <1>4, <2>1
<1>7. /\ SubSeq(all, c, N + 1) \in Seq(Addr)
      /\ Len(SubSeq(all, c, N + 1)) = IF c <= N + 1 THEN (N + 1) - c + 1 ELSE 0
      /\ \A m \in 1..((N + 1) - c + 1) : SubSeq(all, c, N + 1)[m] = all[c + m - 1]
  BY <1>3, <1>6, SubSeqProperties
<1>8. CASE N = 3
  <2>1. c = 2
    BY <1>3, <1>8
  <2>2. Len(later) = 3 /\ later[1] = all[2] /\ later[2] = all[3] /\ later[3] = all[4]
    BY <1>5, <1>7, <1>8, <2>1
  <2> QED
    BY <1>4, <1>5, <1>7, <1>8, <2>2 DEF Moved
<1>9. CASE N < 3
  <2>1. c = 1
    BY <1>3, <1>9
  <2>2. Len(later) = N + 1 /\ \A m \in 1..(N + 1) : later[m] = all[m]
    BY <1>5, <1>7, <2>1
  <2> QED
    BY <1>4, <1>5, <1>7, <1>9, <2>2 DEF Moved
<1> QED
  BY <1>8, <1>9 DEF Moved

\* The three answers that are kept, one further on.
LEMMA RecentGoesOn ==
    ASSUME NEW hops, IsTrace(hops), NEW n \in 0..(Len(hops) - 1), n + 1 \in Answers(hops),
           NEW recent, LastThree(hops, n, recent),
           NEW later, later = Window(recent, Single(hops[n + 1]))
    PROVE  LastThree(hops, n + 1, later)
<1> DEFINE A == Answers(hops)
           C(i) == Count(hops, i)
           N == Len(recent)
           a == Single(hops[n + 1])
           At(j) == Single(hops[j])
<1>0. /\ n \in Nat /\ n + 1 \in Nat /\ C(n) \in Nat /\ C(n + 1) = C(n) + 1 /\ a \in Addr /\ a = At(n + 1)
      /\ n + 1 \in Below(A, n + 1) /\ \A j \in Below(A, n) : j \in Below(A, n + 1)
  <2>1. n \in Nat /\ n + 1 \in Nat /\ C(n) \in Nat /\ C(n + 1) = C(n) + 1 /\ a \in Addr
    <3>1. n \in Nat /\ n + 1 \in Nat /\ a \in Addr
      BY AnswersAre
    <3>2. \A m \in Nat : C(m) \in Nat
      BY CountIs
    <3>3. C(n + 1) = C(n) + 1
      BY <3>1, CountIs
    <3> QED
      BY <3>1, <3>2, <3>3
  <2>2. n + 1 <= n + 1 /\ \A j \in A : j \in Nat /\ (j <= n => j <= n + 1)
    BY AnswersAre
  <2> QED
    BY <2>1, <2>2 DEF Below
<1>1. /\ N = IF C(n) < 3 THEN C(n) ELSE 3
      /\ \A m \in 1..N : \E j \in Below(A, n) : C(j) = C(n) - N + m /\ recent[m] = At(j)
      /\ later = Window(recent, a) /\ recent \in Seq(Addr)
  BY DEF LastThree
<1>2. N \in 0..3
  <2> HIDE DEF N, C
  <2> QED
    BY <1>0, <1>1
<1>3. /\ later \in Seq(Addr)
      /\ N = 3 => Len(later) = 3 /\ later[1] = recent[2] /\ later[2] = recent[3] /\ later[3] = a
      /\ N < 3 => Len(later) = N + 1 /\ later[N + 1] = a /\ \A m \in 1..N : later[m] = recent[m]
  <2>1. recent \in Seq(Addr) /\ later = Window(recent, a) /\ Len(recent) = N /\ a \in Addr
    BY <1>0, <1>1
  <2> HIDE DEF a, N
  <2>2. Moved(recent, N, a, later)
    BY <1>2, <2>1, WindowIs
  <2> QED
    BY <2>2 DEF Moved
<1> HIDE DEF A, C, N, a, At
<1> DEFINE Kept3 == \A m \in 1..Len(later) : \E j \in Below(A, n + 1) :
                      C(j) = C(n + 1) - Len(later) + m /\ later[m] = At(j)
<1>4. CASE N = 3
  <2>1. C(n) >= 3 /\ Len(later) = 3 /\ Len(later) = IF C(n + 1) < 3 THEN C(n + 1) ELSE 3
    <3>1. C(n) \in Nat /\ C(n + 1) = C(n) + 1 /\ N = IF C(n) < 3 THEN C(n) ELSE 3
      BY <1>0, <1>1
    <3>2. C(n) >= 3 /\ ~(C(n + 1) < 3)
      BY <1>4, <3>1
    <3> QED
      BY <1>3, <1>4, <3>2
  <2>2. \E j \in Below(A, n + 1) : C(j) = C(n + 1) - 3 + 1 /\ later[1] = At(j)
    <3>1. PICK j \in Below(A, n) : C(j) = C(n) - N + 2 /\ recent[2] = At(j)
      BY <1>1, <1>4
    <3> QED
      BY <1>0, <1>3, <1>4, <3>1
  <2>3. \E j \in Below(A, n + 1) : C(j) = C(n + 1) - 3 + 2 /\ later[2] = At(j)
    <3>1. PICK j \in Below(A, n) : C(j) = C(n) - N + 3 /\ recent[3] = At(j)
      BY <1>1, <1>4
    <3> QED
      BY <1>0, <1>3, <1>4, <3>1
  <2>4. C(n + 1) = C(n + 1) - 3 + 3 /\ later[3] = At(n + 1)
    BY <1>0, <1>3, <1>4
  <2>5. ASSUME NEW m \in 1..3
        PROVE  \E j \in Below(A, n + 1) : C(j) = C(n + 1) - 3 + m /\ later[m] = At(j)
    <3>1. m = 1 \/ m = 2 \/ m = 3
      OBVIOUS
    <3> QED
      BY <1>0, <2>2, <2>3, <2>4, <3>1
  <2>6. Kept3
    BY <2>1, <2>5
  <2> QED
    BY <1>3, <2>1, <2>6 DEF A, C, At, LastThree
<1>5. CASE N < 3
  <2>1. N = C(n) /\ Len(later) = N + 1 /\ C(n + 1) = N + 1
        /\ Len(later) = IF C(n + 1) < 3 THEN C(n + 1) ELSE 3
    BY <1>0, <1>1, <1>2, <1>3, <1>5
  <2>2. ASSUME NEW m \in 1..(N + 1)
        PROVE  \E j \in Below(A, n + 1) : C(j) = C(n + 1) - (N + 1) + m /\ later[m] = At(j)
    <3>1. CASE m = N + 1
      <4>1. C(n + 1) = C(n + 1) - (N + 1) + m /\ later[m] = At(n + 1)
        BY <1>0, <1>2, <1>3, <1>5, <2>1, <3>1
      <4> QED
        BY <1>0, <4>1
    <3>2. CASE m # N + 1
      <4>1. m \in 1..N
        BY <1>2, <3>2
      <4>2. PICK j \in Below(A, n) : C(j) = C(n) - N + m /\ recent[m] = At(j)
        BY <1>1, <4>1
      <4>3. later[m] = recent[m] /\ C(n) - N + m = C(n + 1) - (N + 1) + m
        BY <1>2, <1>3, <1>5, <2>1, <4>1
      <4> QED
        BY <1>0, <4>2, <4>3
    <3> QED
      BY <3>1, <3>2
  <2>3. Kept3
    BY <2>1, <2>2
  <2> QED
    BY <1>3, <2>1, <2>3 DEF A, C, At, LastThree
<1> QED
  BY <1>2, <1>4, <1>5

\* A hop that says nothing, or not of one router, leaves all of it as it is.
LEMMA LoopStays ==
    ASSUME NEW hops, IsTrace(hops), NEW n \in 0..(Len(hops) - 1), NEW acc, LoopHolds(hops, n, acc),
           ~IsSingle(hops[n + 1])
    PROVE  LoopHolds(hops, n + 1, LoopStep(acc, hops[n + 1], n + 1))
<1>1. LoopStep(acc, hops[n + 1], n + 1) = acc
  BY DEF LoopStep
<1>2. n \in Nat /\ n + 1 \notin Answers(hops) /\ \A j \in Answers(hops) : j \in Nat
  <2>1. n \in Nat /\ n + 1 \in 1..Len(hops)
    BY AnswersAre
  <2> QED
    BY <2>1, AnswersAre
<1>3. Below(Answers(hops), n + 1) = Below(Answers(hops), n)
  <2>1. \A j \in Answers(hops) : j <= n + 1 <=> j <= n
    BY <1>2
  <2> QED
    BY <2>1 DEF Below
<1>4. Count(hops, n + 1) = Count(hops, n)
  BY <1>2, CountIs
<1>5. Turns(hops, n + 1) <=> Turns(hops, n)
  BY <1>3 DEF Turns
<1>6. LastThree(hops, n + 1, acc.recent)
  <2>1. LastThree(hops, n, acc.recent)
    BY DEF LoopHolds
  <2> QED
    BY <1>3, <1>4, <2>1 DEF LastThree
<1> QED
  BY <1>1, <1>2, <1>3, <1>5, <1>6 DEF LoopHolds

\* The trace turns back after an answer: not one of a new router.
LEMMA TurnsAfter ==
    ASSUME NEW hops, IsTrace(hops), NEW n \in 0..(Len(hops) - 1), n + 1 \in Answers(hops)
    PROVE  Turns(hops, n + 1) <=>
             ~IsNew(hops, n + 1) /\ (Turns(hops, n) \/ ComesBack(hops, n + 1))
<1> DEFINE A == Answers(hops)
<1>1. /\ \A j \in A : (j <= n => j < n + 1) /\ (j <= n + 1 <=> j <= n \/ j = n + 1)
      /\ n + 1 \in A /\ \A j \in A : ~(n + 1 < j) \/ ~(j <= n + 1)
  <2>1. n \in Nat /\ \A j \in A : j \in Nat
    BY AnswersAre
  <2> QED
    BY <2>1
<1> DEFINE B(m) == Below(A, m)
<1>2. /\ \A j : j \in B(n + 1) <=> (j \in B(n) \/ j = n + 1)
      /\ \A j \in B(n + 1) : ~(n + 1 < j)
      /\ \A j \in B(n) : j < n + 1
  BY <1>1 DEF Below
<1> HIDE DEF A, B
<1>3. \A m \in {n, n + 1} : Turns(hops, m) <=>
        \E j \in B(m) : ComesBack(hops, j) /\ \A k \in B(m) : IsNew(hops, k) => k < j
  BY DEF Turns, A, B
<1>4. Turns(hops, n + 1) => ~IsNew(hops, n + 1)
  BY <1>2, <1>3
<1>5. ASSUME ~IsNew(hops, n + 1)
      PROVE  Turns(hops, n + 1) <=> Turns(hops, n) \/ ComesBack(hops, n + 1)
  BY <1>2, <1>3, <1>5
<1> QED
  BY <1>4, <1>5

\* One address answered: the state one answer on.
LEMMA LoopAnswered ==
    ASSUME NEW hops, IsTrace(hops), NEW n \in 0..(Len(hops) - 1), NEW acc, LoopHolds(hops, n, acc),
           IsSingle(hops[n + 1])
    PROVE  LoopHolds(hops, n + 1, LoopStep(acc, hops[n + 1], n + 1))
<1> DEFINE A == Answers(hops)
           a == Single(hops[n + 1])
           run1 == IF acc.last[a] # 0 /\ acc.last[a] = (n + 1) - 1 THEN acc.runs[a] + 1 ELSE 1
           back == a \notin Errors(hops[n + 1]) /\ run1 # 2
           next == LoopStep(acc, hops[n + 1], n + 1)
<1>0. /\ n \in Nat /\ n + 1 \in Nat /\ (n + 1) - 1 = n /\ n + 1 # 0 /\ n + 1 \in A /\ a \in Addr
      /\ \A j \in A : j \in Nat /\ j # 0
  <2>1. n \in Nat /\ n + 1 \in 1..Len(hops)
    BY AnswersAre
  <2>2. n + 1 \in A /\ a \in Addr
    BY <2>1, AnswersAre
  <2>3. \A j \in A : j \in 1..Len(hops)
    BY AnswersAre
  <2> QED
    BY <2>1, <2>2, <2>3
<1>1. next = [seen |-> acc.seen \cup {a},
              recent |-> Window(acc.recent, a),
              repeat |-> IF a \notin acc.seen THEN None
                         ELSE IF acc.repeat = None /\ back /\ a \in Range(acc.recent) THEN a
                         ELSE acc.repeat,
              last |-> [acc.last EXCEPT ![a] = n + 1],
              runs |-> [acc.runs EXCEPT ![a] = run1]]
  BY DEF LoopStep, Answered, Window
<1>2. /\ acc.seen = {Single(hops[j]) : j \in Below(A, n)}
      /\ acc.last \in [Addr -> Nat] /\ acc.runs \in [Addr -> Nat]
      /\ \A b \in Addr : acc.last[b] # 0 =>
           acc.last[b] \in A /\ Single(hops[acc.last[b]]) = b /\ acc.runs[b] = RunTo(hops, acc.last[b])
      /\ n \in A => acc.last[Single(hops[n])] = n
      /\ acc.repeat \in Addr \cup {None} /\ (acc.repeat # None <=> Turns(hops, n))
  BY DEF LoopHolds
<1>3. run1 = RunTo(hops, n + 1) /\ run1 \in Nat
  <2>1. acc.last[a] # 0 /\ acc.last[a] = n <=> n \in A /\ Single(hops[n]) = a
    BY <1>0, <1>2
  <2>2. acc.last[a] # 0 /\ acc.last[a] = n => acc.runs[a] = RunTo(hops, n)
    BY <1>0, <1>2
  <2>3. RunTo(hops, n + 1) = IF n \in A /\ Single(hops[n]) = a THEN RunTo(hops, n) + 1 ELSE 1
    BY <1>0, RunGrows
  <2>4. acc.runs[a] \in Nat
    BY <1>0, <1>2
  <2> QED
    BY <1>0, <2>1, <2>2, <2>3, <2>4
<1> HIDE DEF run1
<1>4. a \notin acc.seen <=> IsNew(hops, n + 1)
  <2>1. \A j \in A : j < n + 1 <=> j <= n
    BY <1>0
  <2> QED
    BY <1>2, <2>1 DEF IsNew, Below
<1>5. (back /\ a \in Range(acc.recent)) <=> ComesBack(hops, n + 1)
  BY <1>3, RecentIs DEF ComesBack
<1> HIDE DEF back, next, a, A
<1>6. /\ next = [seen |-> next.seen, recent |-> next.recent, repeat |-> next.repeat,
                 last |-> next.last, runs |-> next.runs]
      /\ next.seen = acc.seen \cup {a} /\ next.recent = Window(acc.recent, a)
      /\ next.last = [acc.last EXCEPT ![a] = n + 1] /\ next.runs = [acc.runs EXCEPT ![a] = run1]
      /\ next.repeat = IF a \notin acc.seen THEN None
                       ELSE IF acc.repeat = None /\ back /\ a \in Range(acc.recent) THEN a
                       ELSE acc.repeat
  BY <1>1
<1>7. next.seen = {Single(hops[j]) : j \in Below(A, n + 1)}
  <2>1. \A j : j \in Below(A, n + 1) <=> j \in Below(A, n) \/ j = n + 1
    <3>1. \A j \in A : j <= n + 1 <=> j <= n \/ j = n + 1
      BY <1>0
    <3> QED
      BY <1>0, <3>1 DEF Below
  <2>2. {Single(hops[j]) : j \in Below(A, n + 1)} = {Single(hops[j]) : j \in Below(A, n)} \cup {Single(hops[n + 1])}
    BY <2>1
  <2> QED
    BY <1>2, <1>6, <2>2 DEF a
<1>8. LastThree(hops, n + 1, next.recent)
  <2>1. LastThree(hops, n, acc.recent)
    BY DEF LoopHolds
  <2>2. next.recent = Window(acc.recent, Single(hops[n + 1])) /\ n + 1 \in Answers(hops)
    BY <1>0, <1>6 DEF a, A
  <2> QED
    BY <2>1, <2>2, RecentGoesOn
<1>9. /\ next.last \in [Addr -> Nat] /\ next.runs \in [Addr -> Nat]
      /\ \A b \in Addr : next.last[b] # 0 =>
           next.last[b] \in A /\ Single(hops[next.last[b]]) = b /\ next.runs[b] = RunTo(hops, next.last[b])
      /\ next.last[Single(hops[n + 1])] = n + 1
  <2>1. next.last \in [Addr -> Nat] /\ next.runs \in [Addr -> Nat]
    BY <1>0, <1>2, <1>3, <1>6
  <2>2. /\ next.last[a] = n + 1 /\ next.runs[a] = run1
        /\ \A b \in Addr : b # a => next.last[b] = acc.last[b] /\ next.runs[b] = acc.runs[b]
    BY <1>0, <1>2, <1>6
  <2>3. Single(hops[n + 1]) = a
    BY DEF a
  <2> QED
    BY <1>0, <1>2, <1>3, <2>1, <2>2, <2>3
<1>10. next.repeat \in Addr \cup {None} /\ (next.repeat # None <=> Turns(hops, n + 1))
  <2>1. Turns(hops, n + 1) <=> ~IsNew(hops, n + 1) /\ (Turns(hops, n) \/ ComesBack(hops, n + 1))
    BY <1>0, TurnsAfter DEF A
  <2>2. a # None
    BY <1>0, TopologyAssumption
  <2> QED
    BY <1>0, <1>2, <1>4, <1>5, <1>6, <2>1, <2>2
<1>11. LoopHolds(hops, n + 1, next)
  BY <1>6, <1>7, <1>8, <1>9, <1>10 DEF LoopHolds, A
<1> QED
  BY <1>11 DEF next

LEMMA LoopStarts ==
    ASSUME NEW hops, IsTrace(hops)
    PROVE  LoopHolds(hops, 0, NoLoopYet)
<1>1. 0 \notin Answers(hops) /\ Below(Answers(hops), 0) = {}
  <2>1. \A j \in Answers(hops) : j \in 1..Len(hops)
    BY AnswersAre
  <2>2. \A j \in Answers(hops) : j # 0 /\ ~(j <= 0)
    BY <2>1, AnswersAre
  <2> QED
    BY <2>2 DEF Below
<1>2. Count(hops, 0) = 0 /\ <<>> \in Seq(Addr) /\ Len(<<>>) = 0
  BY CountIs
<1>3. LastThree(hops, 0, <<>>)
  <2>1. \A m \in 1..0 : FALSE
    OBVIOUS
  <2> QED
    BY <1>2, <2>1 DEF LastThree
<1>4. ~Turns(hops, 0)
  BY <1>1 DEF Turns
<1>5. /\ NoLoopYet.seen = {} /\ NoLoopYet.recent = <<>> /\ NoLoopYet.repeat = None
      /\ NoLoopYet.last = [b \in Addr |-> 0] /\ NoLoopYet.runs = [b \in Addr |-> 0]
      /\ NoLoopYet = [seen |-> NoLoopYet.seen, recent |-> NoLoopYet.recent, repeat |-> NoLoopYet.repeat,
                      last |-> NoLoopYet.last, runs |-> NoLoopYet.runs]
  BY DEF NoLoopYet, NotYet
<1> QED
  BY <1>1, <1>3, <1>4, <1>5 DEF LoopHolds

LEMMA LoopIs ==
    ASSUME NEW hops, IsTrace(hops)
    PROVE  LoopHolds(hops, Len(hops), LoopSteps(hops)[Len(hops)])
<1> DEFINE L == Len(hops)
           S == {n \in Nat : LoopHolds(hops, n, LoopSteps(hops)[n])}
<1>0. L \in Nat
  BY AnswersAre
<1>1. /\ LoopSteps(hops)[0] = NoLoopYet
      /\ \A n \in 0..(L - 1) : LoopSteps(hops)[n + 1] = LoopStep(LoopSteps(hops)[n], hops[n + 1], n + 1)
  BY <1>0, LoopStepsIs
<1>2. 0 \in S
  BY <1>1, LoopStarts
<1>3. ASSUME NEW n \in 0..(L - 1), n \in S PROVE n + 1 \in S
  <2>1. LoopHolds(hops, n, LoopSteps(hops)[n]) /\ n + 1 \in Nat
    BY <1>3
  <2>2. LoopHolds(hops, n + 1, LoopStep(LoopSteps(hops)[n], hops[n + 1], n + 1))
    BY <2>1, LoopStays, LoopAnswered
  <2> QED
    BY <1>1, <2>1, <2>2
<1>4. L \in S
  <2> HIDE DEF S
  <2>1. L \in Nat /\ L \in 0..L /\ 0 \in S /\ \A n \in 0..(L - 1) : n \in S => n + 1 \in S
    BY <1>0, <1>2, <1>3
  <2> QED
    BY <2>1, UpFromZero
<1> QED
  BY <1>4

\* What the code calls a loop is a trace that is stuck.
LEMMA LoopTurns ==
    ASSUME NEW hops, IsTrace(hops)
    PROVE  Loop(hops) # "none" <=>
             /\ \A j \in DOMAIN hops : TargetAddr \notin Addresses(hops[j])
             /\ \E j \in Answers(hops) : ComesBack(hops, j)
                   /\ \A k \in Answers(hops) : IsNew(hops, k) => k < j
<1>1. Loop(hops) # "none" <=> looping_address(hops) # None
  BY DEF Loop
<1>2. LoopSteps(hops)[Len(hops)].repeat # None <=> Turns(hops, Len(hops))
  BY LoopIs DEF LoopHolds
<1>3. Below(Answers(hops), Len(hops)) = Answers(hops)
  <2>1. \A j \in Answers(hops) : j <= Len(hops)
    BY AnswersAre
  <2> QED
    BY <2>1 DEF Below
<1>4. Turns(hops, Len(hops)) <=>
        \E j \in Answers(hops) : ComesBack(hops, j)
           /\ \A k \in Answers(hops) : IsNew(hops, k) => k < j
  BY <1>3 DEF Turns
<1> QED
  BY <1>1, <1>2, <1>4 DEF looping_address

\* A trace counts as a loop just if it is stuck: it never meets its target, and
\* after the last router it had not seen before it comes back to one it has.
THEOREM LoopsAreStuck == TracingSpec => []LoopIsStuck
<1>1. RunHolds /\ RawsHold => LoopIsStuck
  <2> SUFFICES ASSUME RunHolds, RawsHold, run.stage = "file", raws # <<>>, NEW i \in DOMAIN raws
               PROVE  run.traces[i].loop # "none" <=>
                        /\ \A j \in DOMAIN raws[i] : TargetAddr \notin Addresses(raws[i][j])
                        /\ \E j \in Answers(raws[i]) : ComesBack(raws[i], j)
                              /\ \A k \in Answers(raws[i]) : IsNew(raws[i], k) => k < j
    BY DEF LoopIsStuck
  <2>1. run.traces = analyze_measurement(raws) /\ IsTrace(raws[i])
    BY BeingFiled
  <2>2. run.traces[i].loop = Loop(raws[i])
    BY <2>1, AnalysisIs
  <2> QED
    BY <2>1, <2>2, LoopTurns
<1> QED
  BY <1>1, RawsInHand, PTL
=============================================================================
