-------------------------- MODULE EdgeTransferProofs --------------------------
(***************************************************************************)
(* Proofs about EdgeTransfer, for any requests and any chains of edges:    *)
(* what a fold over a line does step by step, what each operation on the   *)
(* network does to one edge, and the invariant that follows: counters that *)
(* are exact, streams that are in use, lines that are fair and never stand *)
(* beside a free unit.                                                     *)
(***************************************************************************)
EXTENDS EdgeTransfer, FiniteSetTheorems, TLAPS

-----------------------------------------------------------------------------
(* Induction up to a bound, stated of a set of numbers. *)

LEMMA UpTo ==
  ASSUME NEW N \in Nat, NEW D, 0 \in D, \A i \in 1 .. N : i - 1 \in D => i \in D
  PROVE  \A i \in 0 .. N : i \in D
<1> DEFINE E == {i \in 1 .. N : \A j \in 0 .. i - 1 : j \in D}
<1> DEFINE n == Cardinality(E)
<1>1. IsFiniteSet(1 .. N) /\ Cardinality(1 .. N) = N
  BY FS_Interval
<1>2. IsFiniteSet(E) /\ n \in Nat /\ n <= N
  <2>1. PICK T : T = 1 .. N
    OBVIOUS
  <2>2. IsFiniteSet(T) /\ Cardinality(T) = N /\ E \in SUBSET T
    BY <1>1, <2>1
  <2> HIDE DEF E
  <2>3. IsFiniteSet(E) /\ n <= N
    BY <2>2, FS_Subset
  <2> QED BY <2>3, FS_CardinalityType
<1>3. ASSUME NEW i \in E PROVE 1 .. i \in SUBSET E /\ i \in Nat
  OBVIOUS
<1>4. ASSUME NEW i \in E PROVE i <= n
  <2>1. PICK T : T = 1 .. i
    OBVIOUS
  <2>2. T \in SUBSET E /\ i \in Nat
    BY <1>3, <2>1
  <2>3. Cardinality(T) = i
    BY <2>1, <2>2, FS_Interval
  <2> HIDE DEF E
  <2> QED BY <1>2, <2>2, <2>3, FS_Subset
<1>5. \A i \in 1 .. n : i \in E
  <2>1. PICK T : T = 1 .. n
    OBVIOUS
  <2>2. E \in SUBSET T
    <3>1. \A i \in E : i \in Nat /\ 1 <= i /\ i <= n
      BY <1>4
    <3> HIDE DEF E
    <3> QED BY <1>2, <2>1, <3>1
  <2>3. IsFiniteSet(T) /\ Cardinality(T) = n
    BY <1>2, <2>1, FS_Interval
  <2>4. E = T
    <3> HIDE DEF E
    <3> QED BY <2>2, <2>3, FS_Subset
  <2> QED BY <2>1, <2>4
<1>6. \A i \in 0 .. n - 1 : i \in D
  <2> TAKE i \in 0 .. n - 1
  <2> HIDE DEF n
  <2>1. i + 1 \in E
    BY <1>2, <1>5
  <2> QED BY <1>2, <2>1
<1>7. CASE n = N
  <2>1. CASE N = 0
    BY <2>1
  <2>2. CASE N # 0
    <3>1. N - 1 \in D
      BY <1>6, <1>7, <2>2
    <3>2. N \in D
      BY <2>2, <3>1
    <3> QED BY <1>6, <1>7, <3>2
  <2> QED BY <2>1, <2>2
<1>8. CASE n # N
  <2> HIDE DEF n
  <2>1. n + 1 \in 1 .. N
    BY <1>2, <1>8
  <2>2. n \in D
    <3>1. CASE n = 0
      BY <3>1
    <3>2. CASE n # 0
      <4>1. n - 1 \in D /\ n \in 1 .. N
        BY <1>2, <1>6, <3>2
      <4> QED BY <4>1
    <3> QED BY <3>1, <3>2
  <2>3. \A j \in 0 .. (n + 1) - 1 : j \in D
    BY <1>2, <1>6, <2>2
  <2>4. n + 1 \in E
    BY <2>1, <2>3
  <2> QED BY <1>2, <1>4, <2>4
<1> QED BY <1>7, <1>8

\* A set of numbers up to a bound, not empty, has a greatest and a least one.
LEMMA Greatest ==
  ASSUME NEW N \in Nat, NEW V \in SUBSET (0 .. N), V # {}
  PROVE  \E m \in V : \A v \in V : v <= m
<1> DEFINE D == {n \in 0 .. N : \A W \in SUBSET (0 .. n) : W # {} => \E m \in W : \A v \in W : v <= m}
<1>1. 0 \in D
  <2>1. \A v \in 0 .. 0 : v = 0
    OBVIOUS
  <2>2. \A W \in SUBSET (0 .. 0) : W # {} => 0 \in W
    BY <2>1
  <2> QED BY <2>1, <2>2
<1>2. ASSUME NEW n \in 1 .. N, n - 1 \in D PROVE n \in D
  <2> SUFFICES ASSUME NEW W \in SUBSET (0 .. n), W # {} PROVE \E m \in W : \A v \in W : v <= m
    OBVIOUS
  <2>1. CASE n \in W
    BY <2>1
  <2>2. CASE n \notin W
    <3>1. W \in SUBSET (0 .. n - 1)
      BY <2>2
    <3> QED BY <1>2, <3>1
  <2> QED BY <2>1, <2>2
<1>3. N \in D
  <2> HIDE DEF D
  <2>1. \A i \in 0 .. N : i \in D
    BY <1>1, <1>2, UpTo
  <2> QED BY <2>1
<1> QED BY <1>3

LEMMA Least ==
  ASSUME NEW N \in Nat, NEW V \in SUBSET (0 .. N), V # {}
  PROVE  \E m \in V : \A v \in V : m <= v
<1> DEFINE W == {N - v : v \in V}
<1>1. W \in SUBSET (0 .. N) /\ W # {}
  <2>1. PICK v \in V : TRUE
    OBVIOUS
  <2>2. N - v \in W /\ \A u \in V : u \in 0 .. N
    OBVIOUS
  <2>3. \A w \in W : w \in 0 .. N
    BY <2>2
  <2> HIDE DEF W
  <2> QED BY <2>2, <2>3
<1>2. PICK m \in W : \A v \in W : v <= m
  <2> HIDE DEF W
  <2> QED BY <1>1, Greatest
<1>3. PICK k \in V : m = N - k
  BY <1>2
<1>4. \A v \in V : N - v <= m
  BY <1>2
<1>5. \A v \in V : v \in Int
  <2>1. \A v \in 0 .. N : v \in Int
    OBVIOUS
  <2> QED BY <2>1
<1> QED BY <1>3, <1>4, <1>5

LEMMA MaxIs ==
  ASSUME NEW x \in SUBSET Int, NEW m \in x, \A y \in x : y <= m
  PROVE  Max(x) = m
<1>1. \A k \in x : (\A y \in x : k >= y) => k = m
  OBVIOUS
<1> QED BY <1>1 DEF Max

-----------------------------------------------------------------------------
(* Folds. What the three folds of the model apply, in one operator, so that  *)
(* their being defined is shown once.                                        *)

AdmitOne(lost, e, m, r) ==
  IF m.load[e] < edge[e].slots THEN Transmit(lost, [m EXCEPT !.line[e] = Tail(@)], r, e)
  ELSE m

ReleaseOne(lost, r, es, m, e) == IF e \in es THEN Release(lost, m, r, e) ELSE m

Step(kind, lost, a, b, m, x) ==
  IF kind = "admit" THEN AdmitOne(lost, a, m, x)
  ELSE IF kind = "serve" THEN AcquireConnectionAndDispatch(lost, m, x, a, TRUE)
  ELSE ReleaseOne(lost, a, b, m, x)

Iterates(g, kind, lost, a, b, c, s) ==
  g = [x \in SUBSET DOMAIN s |->
         IF x = {} THEN c ELSE Step(kind, lost, a, b, g[x \ {Max(x)}], s[Max(x)])]

Iterated(kind, lost, a, b, c, s) == CHOOSE g : Iterates(g, kind, lost, a, b, c, s)

\* The function that a fold is defined by exists.
LEMMA FoldIsDefined ==
  ASSUME NEW kind, NEW lost, NEW a, NEW b, NEW c, NEW A, NEW s \in Seq(A)
  PROVE  Iterates(Iterated(kind, lost, a, b, c, s), kind, lost, a, b, c, s)
<1> DEFINE N == Len(s)
           Next(f, x) == IF x = {} THEN c ELSE Step(kind, lost, a, b, f[x \ {Max(x)}], s[Max(x)])
           D == {n \in 0 .. N : \E f : f = [x \in SUBSET (1 .. n) |-> Next(f, x)]}
<1>1. N \in Nat /\ DOMAIN s = 1 .. N
  OBVIOUS
<1>2. 0 \in D
  <2> DEFINE f == [x \in SUBSET (1 .. 0) |-> c]
  <2>1. \A x \in SUBSET (1 .. 0) : x = {}
    OBVIOUS
  <2>2. f = [x \in SUBSET (1 .. 0) |-> Next(f, x)]
    BY <2>1
  <2>3. \E h : h = [x \in SUBSET (1 .. 0) |-> Next(h, x)]
    <3> HIDE DEF f
    <3> QED BY <2>2
  <2> HIDE DEF Next
  <2> QED BY <1>1, <2>3
<1>3. ASSUME NEW n \in 1 .. N, n - 1 \in D PROVE n \in D
  <2>1. PICK f : f = [x \in SUBSET (1 .. n - 1) |-> Next(f, x)]
    BY <1>3
  <2> DEFINE h == [x \in SUBSET (1 .. n) |->
                     IF n \in x THEN Step(kind, lost, a, b, f[x \ {n}], s[n]) ELSE f[x]]
  <2>2. ASSUME NEW x \in SUBSET (1 .. n)
        PROVE  /\ n \in x => Max(x) = n /\ x \ {n} \in SUBSET (1 .. n - 1)
               /\ n \notin x => x \in SUBSET (1 .. n - 1)
    <3>1. ASSUME n \in x PROVE Max(x) = n
      BY <1>1, <3>1, MaxIs
    <3> QED BY <1>1, <3>1
  <2>3. ASSUME NEW x \in SUBSET (1 .. n), x # {} PROVE Max(x) \in x
    <3>1. x \in SUBSET (0 .. n) /\ n \in Nat
      BY <1>1
    <3>2. \E m \in x : \A v \in x : v <= m
      BY <2>3, <3>1, Greatest
    <3>3. \A v \in x : v \in Int
      OBVIOUS
    <3>4. PICK m \in x : \A v \in x : v <= m
      BY <3>2
    <3>5. x \in SUBSET Int
      BY <3>3
    <3> QED BY <3>4, <3>5, MaxIs
  <2>4. ASSUME NEW x \in SUBSET (1 .. n) PROVE h[x] = Next(h, x)
    <3>1. CASE n \in x
      <4>1. h[x] = Step(kind, lost, a, b, f[x \ {n}], s[n]) /\ x # {} /\ Max(x) = n
        BY <2>2, <3>1
      <4>2. x \ {n} \in SUBSET (1 .. n) /\ n \notin x \ {n}
        OBVIOUS
      <4>3. h[x \ {n}] = f[x \ {n}]
        BY <4>2
      <4> HIDE DEF h
      <4> QED BY <4>1, <4>3
    <3>2. CASE n \notin x
      <4>1. x \in SUBSET (1 .. n - 1) /\ h[x] = f[x]
        BY <2>2, <3>2
      <4>2. f[x] = Next(f, x)
        <5> HIDE DEF Next
        <5> QED BY <2>1, <4>1
      <4>3. x \ {Max(x)} \in SUBSET (1 .. n) /\ n \notin x \ {Max(x)}
        BY <3>2
      <4>4. h[x \ {Max(x)}] = f[x \ {Max(x)}]
        BY <4>3
      <4> HIDE DEF h
      <4> QED BY <4>1, <4>2, <4>4
    <3> QED BY <3>1, <3>2
  <2>5. h = [x \in SUBSET (1 .. n) |-> h[x]]
    OBVIOUS
  <2> HIDE DEF h, Next
  <2>6. h = [x \in SUBSET (1 .. n) |-> Next(h, x)]
    BY <2>4, <2>5
  <2> QED BY <1>3, <2>6
<1>4. N \in D
  <2> HIDE DEF D
  <2>1. \A i \in 0 .. N : i \in D
    BY <1>1, <1>2, <1>3, UpTo
  <2> QED BY <1>1, <2>1
<1>5. \E f : Iterates(f, kind, lost, a, b, c, s)
  BY <1>1, <1>4 DEF Iterates
<1> QED BY <1>5 DEF Iterated

\* A fold is a walk along the sequence.
LEMMA FoldTrace ==
  ASSUME NEW kind, NEW lost, NEW a, NEW b, NEW c, NEW A, NEW s \in Seq(A)
  PROVE  \E h : /\ h = [i \in 0 .. Len(s) |-> h[i]]
                /\ h[0] = c
                /\ \A i \in 1 .. Len(s) : h[i] = Step(kind, lost, a, b, h[i - 1], s[i])
                /\ Iterated(kind, lost, a, b, c, s)[DOMAIN s] = h[Len(s)]
<1> DEFINE N == Len(s)
<1>1. PICK g : g = Iterated(kind, lost, a, b, c, s)
  OBVIOUS
<1> DEFINE h == [i \in 0 .. N |-> g[1 .. i]]
<1>2. N \in Nat /\ DOMAIN s = 1 .. N
  OBVIOUS
<1>3. g = [x \in SUBSET DOMAIN s |->
                IF x = {} THEN c ELSE Step(kind, lost, a, b, g[x \ {Max(x)}], s[Max(x)])]
  <2>1. Iterates(g, kind, lost, a, b, c, s)
    BY <1>1, FoldIsDefined
  <2> QED BY <2>1 DEF Iterates
<1>4. \A x \in SUBSET DOMAIN s :
         g[x] = IF x = {} THEN c ELSE Step(kind, lost, a, b, g[x \ {Max(x)}], s[Max(x)])
  BY <1>3
<1>5. h[0] = c
  <2>1. 1 .. 0 = {} /\ 1 .. 0 \in SUBSET DOMAIN s
    OBVIOUS
  <2> QED BY <1>2, <1>4, <2>1
<1>6. ASSUME NEW i \in 1 .. N PROVE h[i] = Step(kind, lost, a, b, h[i - 1], s[i])
  <2>1. PICK x : x = 1 .. i
    OBVIOUS
  <2>2. x \in SUBSET DOMAIN s /\ x \in SUBSET Int /\ i \in x /\ \A y \in x : y <= i
    <3>1. \A y \in 1 .. i : y \in 1 .. N /\ y \in Int /\ y <= i
      BY <1>2
    <3> QED BY <1>2, <2>1, <3>1
  <2>3. Max(x) = i
    BY <2>2, MaxIs
  <2>4. x \ {i} = 1 .. i - 1
    BY <2>1
  <2>5. g[x] = Step(kind, lost, a, b, g[x \ {i}], s[i])
    BY <1>4, <2>2, <2>3
  <2>6. h[i] = g[x] /\ h[i - 1] = g[x \ {i}]
    BY <1>2, <2>1, <2>4
  <2> QED BY <2>5, <2>6
<1>7. g[DOMAIN s] = h[N]
  BY <1>2
<1>8. h = [i \in 0 .. N |-> h[i]]
  OBVIOUS
<1> HIDE DEF h
<1> QED BY <1>1, <1>5, <1>6, <1>7, <1>8

\* The folds over a line and over the edges; that of a line for streams is in ReleaseIs.
LEMMA AdmitTrace ==
  ASSUME NEW lost, NEW n, NEW e
  PROVE  AdmitEdgeSlotWaiters(lost, n, e) =
           Iterated("admit", lost, e, e, n, n.line[e])[DOMAIN n.line[e]]
BY DEF AdmitEdgeSlotWaiters, FoldLeft, MapThenFoldSet, Iterated, Iterates, Step, AdmitOne

LEMMA ReleaseTrace ==
  ASSUME NEW lost, NEW n, NEW r, NEW es
  PROVE  ReleaseConnectionLeases(lost, n, r, es) =
           Iterated("release", lost, r, es, n, [e \in Edges |-> e])[DOMAIN [e \in Edges |-> e]]
BY DEF ReleaseConnectionLeases, FoldLeft, MapThenFoldSet, Iterated, Iterates, Step, ReleaseOne

-----------------------------------------------------------------------------
(* First in, first out: what happens to a line.                              *)

\* One departure or arrival after another.
LEMMA FairnessComposes ==
  ASSUME NEW A, NEW s \in Seq(A), NEW t \in Seq(A), NEW u \in Seq(A), NEW X, NEW Y, NEW Z,
         FirstInFirstOut(s, t, X), FirstInFirstOut(t, u, Y),
         Range(s) \cap Range(u) \subseteq Range(t), Z \subseteq X \cup Y
  PROVE  FirstInFirstOut(s, u, Z)
<1>1. ASSUME NEW i \in DOMAIN u, NEW k \in DOMAIN s, u[i] = s[k]
      PROVE  \E q \in DOMAIN t : t[q] = u[i]
  BY <1>1 DEF Range
<1>2. ASSUME NEW i \in DOMAIN u, NEW k \in DOMAIN s, u[i] = s[k], NEW j \in 1 .. i - 1
      PROVE  \E l \in 1 .. k - 1 : u[j] = s[l]
  <2>1. PICK q \in DOMAIN t : t[q] = u[i]
    BY <1>1, <1>2
  <2>2. PICK l \in 1 .. q - 1 : u[j] = t[l]
    BY <1>2, <2>1 DEF FirstInFirstOut
  <2>3. t[q] = s[k]
    BY <1>2, <2>1
  <2>4. \E o \in 1 .. k - 1 : t[l] = s[o]
    BY <2>2, <2>3 DEF FirstInFirstOut
  <2> QED BY <2>2, <2>4
<1>3. ASSUME NEW k \in DOMAIN s, s[k] \in Range(u), NEW z \in Z
      PROVE  \E l \in 1 .. k : z = s[l]
  <2>1. s[k] \in Range(t)
    BY <1>3 DEF Range
  <2>2. CASE z \in X
    BY <1>3, <2>1, <2>2 DEF FirstInFirstOut
  <2>3. CASE z \in Y
    <3>1. PICK q \in DOMAIN t : t[q] = s[k]
      BY <2>1 DEF Range
    <3>2. PICK l \in 1 .. q : z = t[l]
      BY <1>3, <2>3, <3>1 DEF FirstInFirstOut
    <3>3. CASE l = q
      <4>1. k \in 1 .. k
        OBVIOUS
      <4> QED BY <3>1, <3>2, <3>3, <4>1
    <3>4. CASE l # q
      <4>1. l \in 1 .. q - 1
        BY <3>1, <3>2, <3>4
      <4>2. PICK o \in 1 .. k - 1 : t[l] = s[o]
        BY <3>1, <4>1 DEF FirstInFirstOut
      <4> QED BY <3>2, <4>2
    <3> QED BY <3>3, <3>4
  <2> QED BY <2>2, <2>3
<1> QED BY <1>2, <1>3 DEF FirstInFirstOut

LEMMA FairIfUnchanged ==
  ASSUME NEW A, NEW s \in Seq(A), IsInjective(s)
  PROVE  FirstInFirstOut(s, s, {})
BY DEF FirstInFirstOut, IsInjective

LEMMA FairIfEmpty ==
  ASSUME NEW t, NEW X
  PROVE  FirstInFirstOut(<<>>, t, X)
BY DEF FirstInFirstOut

\* Some leave the front together.
FirstOnes(s, k) == {s[j] : j \in 1 .. k}
Dropped(A, s, t, k) ==
  /\ t \in Seq(A) /\ Len(t) = Len(s) - k /\ IsInjective(t)
  /\ \A i \in 1 .. Len(t) : t[i] = s[k + i]
  /\ Range(t) = Range(s) \ FirstOnes(s, k)
  /\ \A X \in SUBSET FirstOnes(s, k) : FirstInFirstOut(s, t, X)

LEMMA FairIfDropped ==
  ASSUME NEW A, NEW s \in Seq(A), IsInjective(s), NEW k \in 0 .. Len(s)
  PROVE  Dropped(A, s, SubSeq(s, k + 1, Len(s)), k)
<1> DEFINE t == SubSeq(s, k + 1, Len(s))
<1>1. t \in Seq(A) /\ Len(t) = Len(s) - k /\ \A i \in 1 .. Len(t) : t[i] = s[k + i]
  OBVIOUS
<1> HIDE DEF t
<1>2. IsInjective(t)
  <2> SUFFICES ASSUME NEW i \in 1 .. Len(t), NEW j \in 1 .. Len(t), t[i] = t[j] PROVE i = j
    BY <1>1 DEF IsInjective
  <2>1. s[k + i] = s[k + j] /\ k + i \in DOMAIN s /\ k + j \in DOMAIN s
    BY <1>1
  <2>2. k + i = k + j
    BY <2>1 DEF IsInjective
  <2> QED BY <1>1, <2>2
<1>3. ASSUME NEW x \in Range(t) PROVE x \in Range(s) \ {s[j] : j \in 1 .. k}
  <2>0. PICK i \in DOMAIN t : x = t[i]
    BY DEF Range
  <2>1. i \in 1 .. Len(t) /\ x = s[k + i]
    BY <1>1, <2>0
  <2>2. k + i \in DOMAIN s
    BY <1>1
  <2>3. ASSUME NEW j \in 1 .. k PROVE s[j] # x
    <3>1. j \in DOMAIN s /\ j # k + i
      BY <1>1
    <3> QED BY <2>1, <2>2, <3>1 DEF IsInjective
  <2> QED BY <2>1, <2>2, <2>3 DEF Range
<1>4. ASSUME NEW x \in Range(s) \ {s[j] : j \in 1 .. k} PROVE x \in Range(t)
  <2>1. PICK i \in DOMAIN s : x = s[i]
    BY DEF Range
  <2>2. i \notin 1 .. k
    BY <2>1
  <2>3. i - k \in 1 .. Len(t) /\ k + (i - k) = i
    BY <1>1, <2>2
  <2>4. t[i - k] = x
    BY <1>1, <2>1, <2>3
  <2> QED BY <1>1, <2>3, <2>4 DEF Range
<1>5. ASSUME NEW i \in DOMAIN t, NEW l \in DOMAIN s, t[i] = s[l], NEW j \in 1 .. i - 1
      PROVE  \E o \in 1 .. l - 1 : t[j] = s[o]
  <2>1. i \in 1 .. Len(t) /\ j \in 1 .. Len(t) /\ k + i \in DOMAIN s
    BY <1>1
  <2>2. l = k + i
    BY <1>1, <1>5, <2>1 DEF IsInjective
  <2>3. t[j] = s[k + j] /\ k + j \in 1 .. l - 1
    BY <1>1, <2>1, <2>2
  <2> QED BY <2>3
<1>6. ASSUME NEW X \in SUBSET FirstOnes(s, k), NEW l \in DOMAIN s, s[l] \in Range(t), NEW x \in X
      PROVE  \E o \in 1 .. l : x = s[o]
  <2>1. l \notin 1 .. k
    BY <1>3, <1>6
  <2>2. PICK j \in 1 .. k : x = s[j]
    BY DEF FirstOnes
  <2>3. j \in 1 .. l
    BY <2>1
  <2> QED BY <2>2, <2>3
<1>7. \A X \in SUBSET FirstOnes(s, k) : FirstInFirstOut(s, t, X)
  BY <1>5, <1>6 DEF FirstInFirstOut
<1> QED BY <1>1, <1>2, <1>3, <1>4, <1>7 DEF t, Dropped, FirstOnes

LEMMA Rest ==
  ASSUME NEW A, NEW s \in Seq(A), NEW i \in 1 .. Len(s)
  PROVE  LET t == SubSeq(s, i, Len(s))
         IN  t # <<>> /\ Head(t) = s[i] /\ Tail(t) = SubSeq(s, i + 1, Len(s))
<1>1. PICK t : t = SubSeq(s, i, Len(s))
  OBVIOUS
<1>2. /\ t \in Seq(A) /\ Len(t) = Len(s) - i + 1 /\ Len(t) \in Nat \ {0}
      /\ \A j \in 1 .. Len(t) : t[j] = s[i + j - 1]
  BY <1>1
<1>3. PICK u : u = SubSeq(s, i + 1, Len(s))
  OBVIOUS
<1>4. u \in Seq(A) /\ Len(u) = Len(s) - i /\ \A j \in 1 .. Len(u) : u[j] = s[i + j]
  BY <1>3
<1>5. t # <<>> /\ Head(t) = s[i]
  BY <1>2
<1>6. PICK v : v = Tail(t)
  OBVIOUS
<1>7. v \in Seq(A) /\ Len(v) = Len(t) - 1 /\ \A j \in 1 .. Len(v) : v[j] = t[j + 1]
  BY <1>2, <1>6
<1>8. Len(u) = Len(v)
  BY <1>2, <1>4, <1>7
<1>9. ASSUME NEW j \in 1 .. Len(u) PROVE u[j] = v[j]
  <2>1. j + 1 \in 1 .. Len(t) /\ i + (j + 1) - 1 = i + j
    BY <1>2, <1>4
  <2>2. v[j] = s[i + j]
    BY <1>2, <1>7, <1>8, <2>1
  <2> QED BY <1>4, <2>2
<1>10. u = v
  BY <1>4, <1>7, <1>8, <1>9
<1> QED BY <1>1, <1>3, <1>5, <1>6, <1>10

\* One joins at the end.
LEMMA FairIfJoined ==
  ASSUME NEW A, NEW s \in Seq(A), IsInjective(s), NEW r \in A, r \notin Range(s)
  PROVE  LET t == Append(s, r)
         IN  /\ t \in Seq(A) /\ Len(t) = Len(s) + 1 /\ IsInjective(t)
             /\ Range(t) = Range(s) \cup {r}
             /\ FirstInFirstOut(s, t, {})
<1> DEFINE t == Append(s, r)
<1>1. /\ t \in Seq(A) /\ Len(t) = Len(s) + 1 /\ t[Len(s) + 1] = r
      /\ \A i \in 1 .. Len(s) : t[i] = s[i]
  OBVIOUS
<1> HIDE DEF t
<1>2. \A i \in DOMAIN t : i \in DOMAIN s \/ i = Len(s) + 1
  BY <1>1
<1>3. \A i \in DOMAIN s : s[i] # r /\ t[i] = s[i] /\ i \in DOMAIN t
  BY <1>1 DEF Range
<1>4. IsInjective(t)
  BY <1>1, <1>2, <1>3 DEF IsInjective
<1>5. Range(t) = Range(s) \cup {r}
  <2>1. \A x \in Range(t) : x \in Range(s) \cup {r}
    BY <1>1, <1>2, <1>3 DEF Range
  <2>2. \A x \in Range(s) : x \in Range(t)
    BY <1>3 DEF Range
  <2>3. r \in Range(t)
    <3>1. Len(s) + 1 \in DOMAIN t
      BY <1>1
    <3> QED BY <1>1, <3>1 DEF Range
  <2> QED BY <2>1, <2>2, <2>3
<1>6. ASSUME NEW i \in DOMAIN t, NEW k \in DOMAIN s, t[i] = s[k], NEW j \in 1 .. i - 1
      PROVE  \E l \in 1 .. k - 1 : t[j] = s[l]
  <2>1. i = k
    BY <1>1, <1>2, <1>3, <1>6 DEF IsInjective
  <2>2. j \in DOMAIN s /\ j \in 1 .. k - 1
    BY <2>1
  <2> QED BY <1>3, <2>2
<1>7. FirstInFirstOut(s, t, {})
  BY <1>6 DEF FirstInFirstOut
<1> QED BY <1>1, <1>4, <1>5, <1>7 DEF t

LEMMA Joined ==
  ASSUME NEW S, NEW s \in Seq(S), NEW t \in Seq(S)
  PROVE  /\ s \o t \in Seq(S) /\ Len(s \o t) = Len(s) + Len(t)
         /\ \A i \in 1 .. Len(s) + Len(t) : (s \o t)[i] = IF i <= Len(s) THEN s[i] ELSE t[i - Len(s)]
OBVIOUS

\* One leaves from wherever it stands.
LEMMA FairIfRemoved ==
  ASSUME NEW A, NEW s \in Seq(A), IsInjective(s), NEW r
  PROVE  LET t == RemoveFirst(s, r)
         IN  /\ t \in Seq(A) /\ Len(t) <= Len(s) /\ IsInjective(t)
             /\ Range(t) = Range(s) \ {r}
             /\ FirstInFirstOut(s, t, {})
<1>1. CASE ~\E i \in 1 .. Len(s) : s[i] = r
  <2>1. RemoveFirst(s, r) = s
    BY <1>1 DEF RemoveFirst
  <2>2. r \notin Range(s)
    BY <1>1 DEF Range
  <2> QED BY <2>1, <2>2, FairIfUnchanged
<1>2. CASE \E i \in 1 .. Len(s) : s[i] = r
  <2> DEFINE I == {i \in 1 .. Len(s) : s[i] = r}
             k == SelectInSeq(s, LAMBDA v : v = r)
             t == SubSeq(s, 1, k - 1) \o SubSeq(s, k + 1, Len(s))
  <2>1. k = Min(I) /\ I # {}
    BY <1>2 DEF SelectInSeq
  <2>2. I \in SUBSET (0 .. Len(s))
    OBVIOUS
  <2>3. \E m \in I : \A v \in I : m <= v
    <3>1. I # {} /\ Len(s) \in Nat
      BY <1>2
    <3> HIDE DEF I
    <3> QED BY <2>2, <3>1, Least
  <2>4. k \in I
    <3> HIDE DEF I
    <3> QED BY <2>1, <2>3 DEF Min
  <2>5. k \in 1 .. Len(s) /\ s[k] = r
    BY <2>4
  <2>6. RemoveFirst(s, r) = t
    BY <1>2 DEF RemoveFirst, RemoveAt
  <2> HIDE DEF k
  <2>7. /\ t \in Seq(A) /\ Len(t) = Len(s) - 1
        /\ \A i \in 1 .. Len(t) : t[i] = IF i < k THEN s[i] ELSE s[i + 1]
    <3>1. PICK u : u = SubSeq(s, 1, k - 1)
      OBVIOUS
    <3>2. PICK v : v = SubSeq(s, k + 1, Len(s))
      OBVIOUS
    <3>3. u \in Seq(A) /\ Len(u) = k - 1 /\ \A i \in 1 .. k - 1 : u[i] = s[i]
      BY <2>5, <3>1
    <3>4. v \in Seq(A) /\ Len(v) = Len(s) - k /\ \A i \in 1 .. Len(s) - k : v[i] = s[k + i]
      BY <2>5, <3>2
    <3>5. t = u \o v
      BY <3>1, <3>2
    <3> HIDE DEF t
    <3>6. t \in Seq(A) /\ Len(t) = Len(s) - 1
      <4> HIDE DEF t
      <4>1. t \in Seq(A) /\ Len(t) = Len(u) + Len(v)
        BY <3>3, <3>4, <3>5, Joined
      <4> QED BY <2>5, <3>3, <3>4, <4>1
    <3>7. ASSUME NEW i \in 1 .. Len(t) PROVE t[i] = IF i < k THEN s[i] ELSE s[i + 1]
      <4>1. t[i] = IF i <= Len(u) THEN u[i] ELSE v[i - Len(u)]
        <5>1. i \in 1 .. Len(u) + Len(v)
          BY <2>5, <3>3, <3>4, <3>6
        <5> QED BY <3>3, <3>4, <3>5, <5>1, Joined
      <4>2. CASE i < k
        BY <2>5, <3>3, <4>1, <4>2
      <4>3. CASE ~(i < k)
        <5>1. i - (k - 1) \in 1 .. Len(s) - k /\ k + (i - (k - 1)) = i + 1
          BY <2>5, <3>6, <4>3
        <5>2. t[i] = v[i - (k - 1)]
          BY <2>5, <3>3, <4>1, <4>3
        <5> QED BY <3>4, <4>3, <5>1, <5>2
      <4> QED BY <4>2, <4>3
    <3> QED BY <3>6, <3>7
  <2> HIDE DEF t
  <2> DEFINE From(i) == IF i < k THEN i ELSE i + 1
  <2>8. \A i \in DOMAIN t : From(i) \in DOMAIN s /\ From(i) # k /\ t[i] = s[From(i)]
    BY <2>5, <2>7
  <2>9. \A i, j \in DOMAIN t : (From(i) = From(j) => i = j) /\ (i < j => From(i) < From(j))
    BY <2>5, <2>7
  <2>10. \A o \in DOMAIN s : o # k => \E i \in DOMAIN t : From(i) = o
    <3> TAKE o \in DOMAIN s
    <3>1. CASE o < k
      <4>1. o \in DOMAIN t /\ From(o) = o
        BY <2>5, <2>7, <3>1
      <4> QED BY <4>1
    <3>2. CASE o > k
      <4>1. o - 1 \in DOMAIN t /\ From(o - 1) = o
        BY <2>5, <2>7, <3>2
      <4> QED BY <4>1
    <3> QED BY <2>5, <3>1, <3>2
  <2> HIDE DEF From
  <2>11. IsInjective(t)
    BY <2>8, <2>9 DEF IsInjective
  <2>12. Range(t) = Range(s) \ {r}
    <3>1. ASSUME NEW x \in Range(t) PROVE x \in Range(s) \ {r}
      BY <2>5, <2>8 DEF Range, IsInjective
    <3>2. ASSUME NEW x \in Range(s) \ {r} PROVE x \in Range(t)
      <4>1. PICK o \in DOMAIN s : x = s[o] /\ o # k
        BY <2>5 DEF Range
      <4>2. PICK i \in DOMAIN t : From(i) = o
        BY <2>10, <4>1
      <4> QED BY <2>8, <4>1, <4>2 DEF Range
    <3> QED BY <3>1, <3>2
  <2>13. ASSUME NEW i \in DOMAIN t, NEW l \in DOMAIN s, t[i] = s[l], NEW j \in 1 .. i - 1
         PROVE  \E o \in 1 .. l - 1 : t[j] = s[o]
    <3>1. l = From(i)
      BY <2>8, <2>13 DEF IsInjective
    <3>2. j \in DOMAIN t /\ j < i
      BY <2>7
    <3>3. From(j) \in DOMAIN s /\ From(j) < From(i)
      BY <2>8, <2>9, <3>2
    <3>4. From(j) \in 1 .. l - 1
      BY <3>1, <3>3
    <3> QED BY <2>8, <3>2, <3>4
  <2>14. FirstInFirstOut(s, t, {})
    BY <2>13 DEF FirstInFirstOut
  <2> QED BY <2>6, <2>7, <2>11, <2>12, <2>14
<1> QED BY <1>1, <1>2

-----------------------------------------------------------------------------
(* The invariant, edge by edge. n is the network, h where the requests are.  *)

Pools == UNION {[C -> Nat] : C \in SUBSET Nat}

Nets ==
  [phase : [Requests -> Phases], conns : [Edges -> Pools], wait : [Edges -> Seq(Requests)],
   lease : [Requests -> [Edges -> Nat]], load : [Edges -> Nat], line : [Edges -> Seq(Requests)]]

Hops == [Requests -> Nodes]

\* The requests in a phase before an edge.
Before(n, h, e, p) == {r \in Requests : n.phase[r] = p /\ h[r] + 1 = e}
Lessees(n, e, c) == {r \in Requests : n.lease[r][e] = c}
Stands(n, h, r, e) == n.phase[r] \in {"lining", "flying", "refused"} /\ h[r] + 1 = e

\* The slots: their count is that of the transfers, their line those who wait for one.
SlotsAt(n, h, e) ==
  /\ n.load[e] = Cardinality(Before(n, h, e, "flying")) /\ n.load[e] <= edge[e].slots
  /\ IsInjective(n.line[e]) /\ Range(n.line[e]) = Before(n, h, e, "lining")
  /\ Len(n.line[e]) <= edge[e].slots

\* The pool: its counts are those of the leases.
PoolAt(n, e) ==
  /\ DOMAIN n.conns[e] \subseteq 1 .. edge[e].connections
  /\ \A c \in DOMAIN n.conns[e] :
       n.conns[e][c] \in 0 .. edge[e].streams /\ n.conns[e][c] = Cardinality(Lessees(n, e, c))
  /\ \A r \in Requests : n.lease[r][e] # NoStream => n.lease[r][e] \in DOMAIN n.conns[e]
  /\ ~Pooled(e) => \A r \in Requests : n.lease[r][e] = NoStream

\* The line for a stream is those who wait for one.
WaitAt(n, h, e) ==
  /\ IsInjective(n.wait[e]) /\ Range(n.wait[e]) = Before(n, h, e, "pooling")
  /\ ~Pooled(e) => n.wait[e] = <<>>

\* A stream is held while it is in use, or by one of those about to give it back.
UseAt(n, h, e, owing) ==
  \A r \in Requests :
    /\ n.lease[r][e] # NoStream =>
         r \in owing \/ Stands(n, h, r, e) \/ (n.phase[r] # "ended" /\ h[r] >= e /\ edge[e].paired)
    /\ Stands(n, h, r, e) /\ Pooled(e) => n.lease[r][e] # NoStream

NoIdleStreamAt(n, e) ==
  Pooled(e) /\ n.wait[e] # <<>> => WithFreeStream(n, e) = {} /\ Unopened(n, e) = 0
NoIdleSlotAt(n, e) == n.line[e] # <<>> => n.load[e] = edge[e].slots

Sound(n, h, e, owing) ==
  /\ SlotsAt(n, h, e) /\ PoolAt(n, e) /\ WaitAt(n, h, e) /\ UseAt(n, h, e, owing)
  /\ NoIdleStreamAt(n, e) /\ NoIdleSlotAt(n, e)

-----------------------------------------------------------------------------
(* What an operation on one edge may touch.                                  *)

Later(p, q) ==
  \/ p = "pooling" /\ q \in {"lining", "flying", "refused"}
  \/ p = "lining" /\ q \in {"flying", "refused"}

\* Nothing of another edge, and those before this one only go on.
Moves(n, m, h, e) ==
  /\ \A f \in Edges : f # e =>
       /\ m.conns[f] = n.conns[f] /\ m.wait[f] = n.wait[f]
       /\ m.load[f] = n.load[f] /\ m.line[f] = n.line[f]
       /\ \A r \in Requests : m.lease[r][f] = n.lease[r][f]
  /\ \A r \in Requests :
       m.phase[r] = n.phase[r] \/ (h[r] + 1 = e /\ Later(n.phase[r], m.phase[r]))

FairLine(n, m, h, e) ==
  FirstInFirstOut(n.line[e], m.line[e], Before(m, h, e, "flying") \ Before(n, h, e, "flying"))
FairWait(n, m, e) ==
  FirstInFirstOut(n.wait[e], m.wait[e],
    {r \in Requests : n.lease[r][e] = NoStream /\ m.lease[r][e] # NoStream})

LEMMA ChainType ==
  ASSUME edge \in Topologies
  PROVE  /\ Len(edge) \in Nat /\ Edges = 1 .. Len(edge)
         /\ \A e \in Edges :
              /\ edge[e].connections \in Nat \ {0} /\ edge[e].streams \in Nat \ {0}
              /\ edge[e].slots \in Nat \ {0} /\ edge[e].attempts \in Nat
<1> DEFINE R == [reuse : Reuses, connections : Nat \ {0}, streams : Nat \ {0},
                 slots : Nat \ {0}, paired : BOOLEAN, attempts : Nat]
<1>1. edge \in Seq(R)
  BY EdgeAssumption
<1>2. Len(edge) \in Nat /\ DOMAIN edge = 1 .. Len(edge) /\ \A e \in DOMAIN edge : edge[e] \in R
  <2> HIDE DEF R
  <2> QED BY <1>1
<1>3. \A x \in R : x.connections \in Nat \ {0} /\ x.streams \in Nat \ {0}
                    /\ x.slots \in Nat \ {0} /\ x.attempts \in Nat
  OBVIOUS
<1> HIDE DEF R
<1>4. \A e \in DOMAIN edge : /\ edge[e].connections \in Nat \ {0} /\ edge[e].streams \in Nat \ {0}
                             /\ edge[e].slots \in Nat \ {0} /\ edge[e].attempts \in Nat
  BY <1>2, <1>3
<1> QED BY <1>2, <1>4 DEF Edges

LEMMA PoolsType ==
  ASSUME NEW P
  PROVE  P \in Pools <=> P = [c \in DOMAIN P |-> P[c]] /\ DOMAIN P \subseteq Nat /\ \A c \in DOMAIN P : P[c] \in Nat
<1>1. ASSUME P \in Pools
      PROVE  P = [c \in DOMAIN P |-> P[c]] /\ DOMAIN P \subseteq Nat /\ \A c \in DOMAIN P : P[c] \in Nat
  <2>1. PICK C \in SUBSET Nat : P \in [C -> Nat]
    BY <1>1 DEF Pools
  <2> QED BY <2>1
<1>2. ASSUME P = [c \in DOMAIN P |-> P[c]] /\ DOMAIN P \subseteq Nat /\ \A c \in DOMAIN P : P[c] \in Nat
      PROVE  P \in Pools
  <2>1. P \in [DOMAIN P -> Nat]
    BY <1>2
  <2> QED BY <1>2, <2>1 DEF Pools
<1> QED BY <1>1, <1>2

\* The type of the network, field by field.
LEMMA NetsType ==
  ASSUME NEW n \in Nets
  PROVE  /\ n.phase \in [Requests -> Phases] /\ n.conns \in [Edges -> Pools]
         /\ n.wait \in [Edges -> Seq(Requests)] /\ n.lease \in [Requests -> [Edges -> Nat]]
         /\ n.load \in [Edges -> Nat] /\ n.line \in [Edges -> Seq(Requests)]
BY DEF Nets

\* Subsets of the requests can be counted.
LEMMA Counted ==
  ASSUME NEW S \in SUBSET Requests
  PROVE  /\ IsFiniteSet(S) /\ Cardinality(S) \in Nat
         /\ \A r : r \notin S => Cardinality(S \cup {r}) = Cardinality(S) + 1
         /\ \A r : r \in S => Cardinality(S \ {r}) = Cardinality(S) - 1
<1>1. IsFiniteSet(S)
  BY EdgeAssumption, FS_Subset
<1> QED BY <1>1, FS_CardinalityType, FS_AddElement, FS_RemoveElement

LEMMA MovesCompose ==
  ASSUME NEW h, NEW e, NEW n, NEW m, NEW o, Moves(n, m, h, e), Moves(m, o, h, e)
  PROVE  Moves(n, o, h, e)
<1>1. \A r \in Requests : Later(n.phase[r], m.phase[r]) /\ Later(m.phase[r], o.phase[r]) => Later(n.phase[r], o.phase[r])
  BY DEF Later
<1>2. \A r \in Requests :
        o.phase[r] = n.phase[r] \/ (h[r] + 1 = e /\ Later(n.phase[r], o.phase[r]))
  BY <1>1 DEF Moves
<1>3. \A f \in Edges : f # e =>
       /\ o.conns[f] = n.conns[f] /\ o.wait[f] = n.wait[f]
       /\ o.load[f] = n.load[f] /\ o.line[f] = n.line[f]
       /\ \A r \in Requests : o.lease[r][f] = n.lease[r][f]
  BY DEF Moves
<1> QED BY <1>2, <1>3 DEF Moves

\* What one edge goes through leaves the others as they are.
LEMMA Elsewhere ==
  ASSUME NEW h, NEW e, NEW n, NEW m, Moves(n, m, h, e), NEW f \in Edges, f # e, NEW owing
  PROVE  /\ \A p : Before(m, h, f, p) = Before(n, h, f, p)
         /\ Sound(n, h, f, owing) => Sound(m, h, f, owing)
<1>1. \A r \in Requests : h[r] + 1 = f => m.phase[r] = n.phase[r]
  BY DEF Moves
<1>2. \A p : Before(m, h, f, p) = Before(n, h, f, p)
  BY <1>1 DEF Before
<1>3. /\ m.conns[f] = n.conns[f] /\ m.wait[f] = n.wait[f]
      /\ m.load[f] = n.load[f] /\ m.line[f] = n.line[f]
      /\ \A r \in Requests : m.lease[r][f] = n.lease[r][f]
  BY DEF Moves
<1>4. \A r \in Requests : n.phase[r] # "ended" => m.phase[r] # "ended"
  BY DEF Moves, Later
<1>5. \A r \in Requests : Stands(m, h, r, f) <=> Stands(n, h, r, f)
  BY <1>1 DEF Stands
<1>6. \A c : Lessees(m, f, c) = Lessees(n, f, c)
  BY <1>3 DEF Lessees
<1>7. UseAt(n, h, f, owing) => UseAt(m, h, f, owing)
  BY <1>3, <1>4, <1>5 DEF UseAt
<1>8. PoolAt(n, f) => PoolAt(m, f)
  BY <1>3, <1>6 DEF PoolAt
<1>9. SlotsAt(n, h, f) => SlotsAt(m, h, f)
  BY <1>2, <1>3 DEF SlotsAt
<1>10. WaitAt(n, h, f) => WaitAt(m, h, f)
  BY <1>2, <1>3 DEF WaitAt
<1>11. /\ NoIdleStreamAt(n, f) => NoIdleStreamAt(m, f)
       /\ NoIdleSlotAt(n, f) => NoIdleSlotAt(m, f)
  BY <1>3 DEF NoIdleStreamAt, NoIdleSlotAt, WithFreeStream, Unopened
<1> QED BY <1>2, <1>7, <1>8, <1>9, <1>10, <1>11 DEF Sound

\* Fairness to the line for slots, through two operations.
LEMMA FairLineComposes ==
  ASSUME NEW h, NEW e \in Edges, NEW n \in Nets, NEW m \in Nets, NEW o \in Nets,
         Moves(n, m, h, e), Moves(m, o, h, e), FairLine(n, m, h, e), FairLine(m, o, h, e),
         SlotsAt(n, h, e), SlotsAt(m, h, e), SlotsAt(o, h, e)
  PROVE  FairLine(n, o, h, e)
<1> DEFINE F(k) == Before(k, h, e, "flying")
<1>1. n.line[e] \in Seq(Requests) /\ m.line[e] \in Seq(Requests) /\ o.line[e] \in Seq(Requests)
  BY NetsType
<1>2. Range(n.line[e]) \cap Range(o.line[e]) \subseteq Range(m.line[e])
  <2>1. \A r \in Requests : n.phase[r] = "lining" /\ o.phase[r] = "lining" => m.phase[r] = "lining"
    BY DEF Moves, Later
  <2> QED BY <2>1 DEF SlotsAt, Before
<1>3. F(o) \ F(n) \subseteq (F(m) \ F(n)) \cup (F(o) \ F(m))
  OBVIOUS
<1> HIDE DEF F
<1>4. FirstInFirstOut(n.line[e], m.line[e], F(m) \ F(n)) /\ FirstInFirstOut(m.line[e], o.line[e], F(o) \ F(m))
  BY DEF FairLine, F
<1>5. FirstInFirstOut(n.line[e], o.line[e], F(o) \ F(n))
  BY <1>1, <1>2, <1>3, <1>4, FairnessComposes
<1> QED BY <1>5 DEF FairLine, F

-----------------------------------------------------------------------------
(* Slots                                                                     *)

\* An operation that touches the slots only.
KeepsPools(n, m) == m.conns = n.conns /\ m.wait = n.wait /\ m.lease = n.lease

\* A transfer is refused, or takes off.
Transmitted(n, m, r, e) ==
  /\ m \in Nets /\ KeepsPools(n, m) /\ m.line = n.line
  /\ \/ m.phase = [n.phase EXCEPT ![r] = "refused"] /\ m.load = n.load
     \/ /\ m.phase = [n.phase EXCEPT ![r] = "flying"]
        /\ \E x \in Nat : x = n.load[e] + 1 /\ m.load = [n.load EXCEPT ![e] = x]

LEMMA TransmitFields ==
  ASSUME NEW lost, NEW n \in Nets, NEW r \in Requests, NEW e \in Edges
  PROVE  Transmitted(n, Transmit(lost, n, r, e), r, e)
<1>1. n.load[e] \in Nat
  BY NetsType
<1>2. CASE r \in lost
  <2>1. PICK m : m = [n EXCEPT !.phase[r] = "refused"]
    OBVIOUS
  <2>2. /\ m \in Nets /\ KeepsPools(n, m) /\ m.line = n.line
        /\ m.phase = [n.phase EXCEPT ![r] = "refused"] /\ m.load = n.load
    BY <2>1 DEF Nets, KeepsPools, Phases
  <2>3. Transmit(lost, n, r, e) = m
    BY <1>2, <2>1 DEF Transmit
  <2> QED BY <2>2, <2>3 DEF Transmitted
<1>3. CASE r \notin lost
  <2>1. PICK x \in Nat : x = n.load[e] + 1
    BY <1>1
  <2>2. PICK m : m = [n EXCEPT !.phase[r] = "flying", !.load[e] = x]
    OBVIOUS
  <2>3. /\ m \in Nets /\ KeepsPools(n, m) /\ m.line = n.line
        /\ m.phase = [n.phase EXCEPT ![r] = "flying"] /\ m.load = [n.load EXCEPT ![e] = x]
    BY <2>2 DEF Nets, KeepsPools, Phases
  <2>4. Transmit(lost, n, r, e) = m
    BY <1>3, <2>1, <2>2 DEF Transmit
  <2> QED BY <2>1, <2>3, <2>4 DEF Transmitted
<1> QED BY <1>2, <1>3

\* A transfer takes off, or is refused: what becomes of the slots. The request came
\* from nowhere in the line for slots, or has just left it.
LEMMA TransmitSlots ==
  ASSUME NEW lost, NEW n \in Nets, NEW r \in Requests, NEW e \in Edges, NEW h, edge \in Topologies,
         h[r] + 1 = e, n.phase[r] # "flying", n.load[e] < edge[e].slots,
         n.load[e] = Cardinality(Before(n, h, e, "flying")),
         IsInjective(n.line[e]), Range(n.line[e]) = Before(n, h, e, "lining") \ {r},
         Len(n.line[e]) <= edge[e].slots,
         NEW m, Transmitted(n, m, r, e)
  PROVE  /\ SlotsAt(m, h, e)
         /\ Before(m, h, e, "flying") \subseteq Before(n, h, e, "flying") \cup {r}
<1>2. /\ m \in Nets /\ m.line = n.line
      /\ \/ m.phase = [n.phase EXCEPT ![r] = "refused"] /\ m.load = n.load
         \/ /\ m.phase = [n.phase EXCEPT ![r] = "flying"]
            /\ \E x \in Nat : x = n.load[e] + 1 /\ m.load = [n.load EXCEPT ![e] = x]
  BY DEF Transmitted
<1>3. n.phase \in [Requests -> Phases] /\ n.load \in [Edges -> Nat] /\ edge[e].slots \in Nat
  BY NetsType, ChainType
<1>4. Before(m, h, e, "lining") = Before(n, h, e, "lining") \ {r}
  BY <1>2, <1>3 DEF Before
<1>5. CASE m.phase = [n.phase EXCEPT ![r] = "refused"] /\ m.load = n.load
  <2>1. Before(m, h, e, "flying") = Before(n, h, e, "flying")
    BY <1>3, <1>5 DEF Before
  <2>2. m.load[e] = n.load[e] /\ n.load[e] <= edge[e].slots
    BY <1>3, <1>5
  <2>3. SlotsAt(m, h, e)
    BY <1>2, <1>4, <2>1, <2>2 DEF SlotsAt
  <2> QED BY <2>1, <2>3
<1>6. CASE /\ m.phase = [n.phase EXCEPT ![r] = "flying"]
           /\ \E x \in Nat : x = n.load[e] + 1 /\ m.load = [n.load EXCEPT ![e] = x]
  <2>1. Before(m, h, e, "flying") = Before(n, h, e, "flying") \cup {r}
    BY <1>3, <1>6 DEF Before
  <2>2. r \notin Before(n, h, e, "flying") /\ Before(n, h, e, "flying") \in SUBSET Requests
    BY DEF Before
  <2>3. Cardinality(Before(m, h, e, "flying")) = n.load[e] + 1
    BY <2>1, <2>2, Counted
  <2>4. m.load[e] = n.load[e] + 1 /\ n.load[e] + 1 <= edge[e].slots
    BY <1>3, <1>6
  <2> QED BY <1>2, <1>3, <1>4, <2>1, <2>3, <2>4 DEF SlotsAt
<1> QED BY <1>2, <1>5, <1>6

\* A request is sent on the edge: it takes off, is refused, or joins the line.
Dispatched(n, m, h, r, e) ==
  /\ m \in Nets /\ KeepsPools(n, m)
  /\ \A f \in Edges : f # e => m.load[f] = n.load[f] /\ m.line[f] = n.line[f]
  /\ \E p \in {"lining", "flying", "refused"} : m.phase = [n.phase EXCEPT ![r] = p]
  /\ SlotsAt(m, h, e) /\ NoIdleSlotAt(m, e) /\ FairLine(n, m, h, e)

LEMMA DispatchSlots ==
  ASSUME NEW lost, NEW n \in Nets, NEW r \in Requests, NEW e \in Edges, NEW h, edge \in Topologies,
         h[r] + 1 = e, n.phase[r] \in {"served", "pooling"},
         SlotsAt(n, h, e), NoIdleSlotAt(n, e)
  PROVE  Dispatched(n, DispatchEdgeTransfer(lost, n, r, e), h, r, e)
<1>1. PICK m : m = DispatchEdgeTransfer(lost, n, r, e)
  OBVIOUS
<1>2. /\ n.phase \in [Requests -> Phases] /\ n.load \in [Edges -> Nat] /\ edge[e].slots \in Nat \ {0}
      /\ n.line \in [Edges -> Seq(Requests)]
  BY NetsType, ChainType
<1>3. r \notin Before(n, h, e, "lining") /\ r \notin Before(n, h, e, "flying")
  BY DEF Before
<1>4. CASE n.load[e] < edge[e].slots
  <2>1. m = Transmit(lost, n, r, e)
    BY <1>1, <1>4 DEF DispatchEdgeTransfer
  <2>2. SlotsAt(m, h, e)
    <3>1. /\ n.load[e] = Cardinality(Before(n, h, e, "flying")) /\ IsInjective(n.line[e])
          /\ Range(n.line[e]) = Before(n, h, e, "lining") \ {r} /\ Len(n.line[e]) <= edge[e].slots
      BY <1>3 DEF SlotsAt
    <3>2. Transmitted(n, m, r, e)
      BY <2>1, TransmitFields
    <3> QED BY <1>4, <3>1, <3>2, TransmitSlots
  <2>3. n.line[e] = <<>>
    BY <1>2, <1>4 DEF NoIdleSlotAt
  <2>4. /\ m \in Nets /\ KeepsPools(n, m) /\ m.line = n.line
        /\ \E p \in {"lining", "flying", "refused"} : m.phase = [n.phase EXCEPT ![r] = p]
        /\ \A f \in Edges : f # e => m.load[f] = n.load[f]
    <3>1. Transmitted(n, m, r, e)
      BY <2>1, TransmitFields
    <3> QED BY <1>2, <3>1 DEF Transmitted
  <2>5. NoIdleSlotAt(m, e)
    BY <2>3, <2>4 DEF NoIdleSlotAt
  <2>6. FairLine(n, m, h, e)
    BY <2>3, FairIfEmpty DEF FairLine
  <2> QED BY <1>1, <2>2, <2>4, <2>5, <2>6 DEF Dispatched
<1>5. CASE ~(n.load[e] < edge[e].slots)
  <2>1. n.load[e] = edge[e].slots
    BY <1>2, <1>5 DEF SlotsAt
  <2>2. CASE EdgeSlotLineFull(n, e)
    <3>1. m = [n EXCEPT !.phase[r] = "refused"]
      BY <1>1, <1>5, <2>2 DEF DispatchEdgeTransfer
    <3>2. /\ m \in Nets /\ KeepsPools(n, m) /\ m.line = n.line /\ m.load = n.load
          /\ m.phase = [n.phase EXCEPT ![r] = "refused"]
      BY <3>1 DEF Nets, KeepsPools, Phases
    <3>3. /\ Before(m, h, e, "flying") = Before(n, h, e, "flying")
          /\ Before(m, h, e, "lining") = Before(n, h, e, "lining")
      BY <1>2, <3>2 DEF Before
    <3>4. SlotsAt(m, h, e) /\ NoIdleSlotAt(m, e)
      BY <3>2, <3>3 DEF SlotsAt, NoIdleSlotAt
    <3>5. Before(m, h, e, "flying") \ Before(n, h, e, "flying") = {}
      BY <3>3
    <3>6. FairLine(n, m, h, e)
      <4>1. n.line[e] \in Seq(Requests) /\ IsInjective(n.line[e]) /\ m.line[e] = n.line[e]
        BY <1>2, <3>2 DEF SlotsAt
      <4> QED BY <3>5, <4>1, FairIfUnchanged DEF FairLine
    <3> QED BY <1>1, <3>2, <3>4, <3>6 DEF Dispatched
  <2>3. CASE ~EdgeSlotLineFull(n, e)
    <3>1. m = [n EXCEPT !.phase[r] = "lining", !.line[e] = Append(@, r)]
      BY <1>1, <1>5, <2>3 DEF DispatchEdgeTransfer
    <3>2. n.line[e] \in Seq(Requests) /\ IsInjective(n.line[e]) /\ r \notin Range(n.line[e])
      BY <1>2, <1>3 DEF SlotsAt
    <3>3. /\ Append(n.line[e], r) \in Seq(Requests) /\ Len(Append(n.line[e], r)) = Len(n.line[e]) + 1
          /\ IsInjective(Append(n.line[e], r)) /\ Range(Append(n.line[e], r)) = Range(n.line[e]) \cup {r}
          /\ FirstInFirstOut(n.line[e], Append(n.line[e], r), {})
      BY <3>2, FairIfJoined
    <3>4. PICK t : t = Append(n.line[e], r)
      OBVIOUS
    <3>5. /\ m \in Nets /\ KeepsPools(n, m) /\ m.line = [n.line EXCEPT ![e] = t] /\ m.load = n.load
          /\ m.phase = [n.phase EXCEPT ![r] = "lining"]
      BY <3>1, <3>3, <3>4 DEF Nets, KeepsPools, Phases
    <3>6. m.line[e] = t
      BY <1>2, <3>5
    <3>7. /\ Before(m, h, e, "flying") = Before(n, h, e, "flying")
          /\ Before(m, h, e, "lining") = Before(n, h, e, "lining") \cup {r}
      BY <1>2, <3>5 DEF Before
    <3>8. Len(n.line[e]) + 1 <= edge[e].slots
      BY <1>2, <2>3, <3>2 DEF EdgeSlotLineFull
    <3>9. SlotsAt(m, h, e) /\ NoIdleSlotAt(m, e)
      BY <2>1, <3>3, <3>4, <3>5, <3>6, <3>7, <3>8 DEF SlotsAt, NoIdleSlotAt
    <3>10. Before(m, h, e, "flying") \ Before(n, h, e, "flying") = {}
      BY <3>7
    <3>11. FairLine(n, m, h, e)
      BY <3>3, <3>4, <3>6, <3>10 DEF FairLine
    <3> QED BY <1>1, <1>2, <3>5, <3>9, <3>11 DEF Dispatched
  <2> QED BY <2>2, <2>3
<1> QED BY <1>4, <1>5

\* The head of the line takes its turn.
Served(n, m, h, e) ==
  /\ m \in Nets /\ KeepsPools(n, m) /\ Moves(n, m, h, e)
  /\ SlotsAt(m, h, e) /\ FairLine(n, m, h, e) /\ m.line[e] = Tail(n.line[e])
  /\ Before(m, h, e, "pooling") = Before(n, h, e, "pooling")

LEMMA ServeHead ==
  ASSUME NEW lost, NEW n \in Nets, NEW e \in Edges, NEW h, edge \in Topologies,
         SlotsAt(n, h, e), n.line[e] # <<>>, n.load[e] < edge[e].slots
  PROVE  Served(n, AdmitOne(lost, e, n, Head(n.line[e])), h, e)
<1> DEFINE s == n.line[e]
           r == Head(s)
           t == Tail(s)
<1>1. /\ s \in Seq(Requests) /\ IsInjective(s) /\ Range(s) = Before(n, h, e, "lining")
      /\ Len(s) \in Nat \ {0} /\ r = s[1] /\ Len(s) <= edge[e].slots
  BY NetsType DEF SlotsAt
<1>2. t = SubSeq(s, 2, Len(s))
  BY <1>1
<1>3. /\ t \in Seq(Requests) /\ Len(t) = Len(s) - 1 /\ IsInjective(t)
      /\ Range(t) = Range(s) \ {r} /\ FirstInFirstOut(s, t, {}) /\ FirstInFirstOut(s, t, {r})
  <2>1. PICK k \in 0 .. Len(s) : k = 1
    BY <1>1
  <2>2. Dropped(Requests, s, SubSeq(s, k + 1, Len(s)), k)
    BY <1>1, FairIfDropped
  <2>3. SubSeq(s, k + 1, Len(s)) = t
    BY <1>2, <2>1
  <2>4. FirstOnes(s, k) = {r}
    BY <1>1, <2>1 DEF FirstOnes
  <2> HIDE DEF s, r, t
  <2> QED BY <2>1, <2>2, <2>3, <2>4 DEF Dropped
<1>4. r \in Requests /\ r \in Before(n, h, e, "lining")
  BY <1>1 DEF Range
<1> HIDE DEF s, r, t
<1>5. PICK o : o = [n EXCEPT !.line[e] = t]
  OBVIOUS
<1>6. /\ o \in Nets /\ KeepsPools(n, o) /\ o.phase = n.phase /\ o.load = n.load
      /\ o.line = [n.line EXCEPT ![e] = t]
  BY <1>3, <1>5 DEF Nets, KeepsPools
<1>7. o.line[e] = t
  BY <1>6, NetsType
<1>8. PICK m : m = AdmitOne(lost, e, n, r)
  OBVIOUS
<1>9. Transmitted(o, m, r, e)
  <2>1. AdmitOne(lost, e, n, r) = Transmit(lost, o, r, e)
    BY <1>5 DEF AdmitOne, t, s
  <2> QED BY <1>4, <1>6, <1>8, <2>1, TransmitFields
<1>10. /\ h[r] + 1 = e /\ n.phase[r] = "lining" /\ o.phase[r] # "flying"
  BY <1>4, <1>6 DEF Before
<1>11. \A p : Before(o, h, e, p) = Before(n, h, e, p)
  BY <1>6 DEF Before
<1>12. /\ SlotsAt(m, h, e)
       /\ Before(m, h, e, "flying") \subseteq Before(n, h, e, "flying") \cup {r}
  <2>1. /\ o.load[e] < edge[e].slots /\ o.load[e] = Cardinality(Before(o, h, e, "flying"))
        /\ Range(o.line[e]) = Before(o, h, e, "lining") \ {r}
        /\ IsInjective(o.line[e]) /\ Len(o.line[e]) <= edge[e].slots
    <3>1. edge[e].slots \in Nat /\ Len(t) <= edge[e].slots
      BY <1>1, <1>3, ChainType
    <3> QED BY <1>1, <1>3, <1>6, <1>7, <1>11, <3>1 DEF SlotsAt, s
  <2>2. /\ SlotsAt(m, h, e)
        /\ Before(m, h, e, "flying") \subseteq Before(o, h, e, "flying") \cup {r}
    <3>1. o \in Nets
      BY <1>6
    <3> QED BY <1>4, <1>9, <1>10, <2>1, <3>1, TransmitSlots
  <2> QED BY <1>11, <2>2
<1>13. m \in Nets /\ KeepsPools(n, m) /\ m.line[e] = t
  BY <1>6, <1>7, <1>9 DEF Transmitted, KeepsPools
<1>14. Moves(n, m, h, e)
  <2>1. \A w \in Requests : m.phase[w] = n.phase[w] \/ (h[w] + 1 = e /\ Later(n.phase[w], m.phase[w]))
    <3>1. m.phase = [n.phase EXCEPT ![r] = "refused"] \/ m.phase = [n.phase EXCEPT ![r] = "flying"]
      BY <1>6, <1>9 DEF Transmitted
    <3>2. n.phase \in [Requests -> Phases]
      BY NetsType
    <3> QED BY <1>10, <3>1, <3>2 DEF Later
  <2>2. \A f \in Edges : f # e => m.load[f] = n.load[f] /\ m.line[f] = n.line[f]
    <3>1. n.load \in [Edges -> Nat] /\ n.line \in [Edges -> Seq(Requests)]
      BY NetsType
    <3> QED BY <1>6, <1>9, <3>1 DEF Transmitted
  <2> QED BY <1>13, <2>1, <2>2 DEF Moves, KeepsPools
<1>15. FairLine(n, m, h, e)
  <2> DEFINE X == Before(m, h, e, "flying") \ Before(n, h, e, "flying")
  <2>1. X = {} \/ X = {r}
    BY <1>12
  <2> HIDE DEF X
  <2>2. FirstInFirstOut(s, t, X)
    BY <1>3, <2>1
  <2> QED BY <1>13, <2>2 DEF FairLine, X, s
<1>16. Before(m, h, e, "pooling") = Before(n, h, e, "pooling")
  <2>1. m.phase = [n.phase EXCEPT ![r] = "refused"] \/ m.phase = [n.phase EXCEPT ![r] = "flying"]
    BY <1>6, <1>9 DEF Transmitted
  <2>2. n.phase \in [Requests -> Phases]
    BY NetsType
  <2> QED BY <1>10, <2>1, <2>2 DEF Before
<1> QED BY <1>8, <1>12, <1>13, <1>14, <1>15, <1>16 DEF Served, t, s, r

\* Those in line are served one after another, until the slots are taken.
Admitted(n, m, h, e) ==
  /\ m \in Nets /\ KeepsPools(n, m) /\ Moves(n, m, h, e)
  /\ SlotsAt(m, h, e) /\ NoIdleSlotAt(m, e) /\ FairLine(n, m, h, e)
  /\ Before(m, h, e, "pooling") = Before(n, h, e, "pooling")

LEMMA AdmitSlots ==
  ASSUME NEW lost, NEW n \in Nets, NEW e \in Edges, NEW h, edge \in Topologies, SlotsAt(n, h, e)
  PROVE  Admitted(n, AdmitEdgeSlotWaiters(lost, n, e), h, e)
<1> DEFINE s == n.line[e]
           N == Len(s)
<1>1. s \in Seq(Requests) /\ N \in Nat /\ DOMAIN s = 1 .. N /\ IsInjective(s) /\ edge[e].slots \in Nat
  BY NetsType, ChainType DEF SlotsAt
<1> HIDE DEF s
<1>0. s \in Seq(Requests)
  BY <1>1
<1>2. PICK g : /\ g[0] = n
               /\ \A i \in 1 .. N : g[i] = Step("admit", lost, e, e, g[i - 1], s[i])
               /\ Iterated("admit", lost, e, e, n, s)[DOMAIN s] = g[N]
  BY <1>0, FoldTrace
<1>3. \A i \in 1 .. N : g[i] = AdmitOne(lost, e, g[i - 1], s[i])
  BY <1>2 DEF Step
<1> DEFINE Good(i, m) ==
             /\ m \in Nets /\ KeepsPools(n, m) /\ Moves(n, m, h, e)
             /\ SlotsAt(m, h, e) /\ FairLine(n, m, h, e)
             /\ Before(m, h, e, "pooling") = Before(n, h, e, "pooling")
             /\ m.line[e] = SubSeq(s, i + 1, N) \/ ~(m.load[e] < edge[e].slots)
           D == {i \in 0 .. N : Good(i, g[i])}
<1>4. 0 \in D
  <2>1. Moves(n, n, h, e) /\ KeepsPools(n, n)
    BY DEF Moves, KeepsPools
  <2>2. FairLine(n, n, h, e)
    <3>1. Before(n, h, e, "flying") \ Before(n, h, e, "flying") = {}
      OBVIOUS
    <3> QED BY <1>1, <3>1, FairIfUnchanged DEF FairLine, s
  <2>3. n.line[e] = SubSeq(s, 0 + 1, N)
    BY <1>1 DEF s
  <2> QED BY <1>1, <1>2, <2>1, <2>2, <2>3
<1>5. ASSUME NEW i \in 1 .. N, i - 1 \in D PROVE i \in D
  <2>1. PICK m : m = g[i - 1]
    OBVIOUS
  <2>2. Good(i - 1, m)
    BY <1>5, <2>1
  <2>3. CASE ~(m.load[e] < edge[e].slots)
    <3>1. g[i] = m
      BY <1>3, <2>1, <2>3 DEF AdmitOne
    <3> QED BY <2>2, <2>3, <3>1
  <2>4. CASE m.load[e] < edge[e].slots
    <3>1. m.line[e] = SubSeq(s, i, N)
      BY <1>1, <2>2, <2>4
    <3>2. /\ m.line[e] # <<>> /\ Head(m.line[e]) = s[i] /\ Tail(m.line[e]) = SubSeq(s, i + 1, N)
      BY <1>1, <3>1, Rest
    <3>3. PICK o : o = g[i]
      OBVIOUS
    <3>4. Served(m, o, h, e)
      <4>1. g[i] = AdmitOne(lost, e, m, Head(m.line[e]))
        BY <1>3, <2>1, <3>2
      <4> QED BY <2>2, <2>4, <3>2, <3>3, <4>1, ServeHead
    <3>5. KeepsPools(n, o)
      BY <2>2, <3>4 DEF Served, KeepsPools
    <3>6. Moves(n, o, h, e)
      BY <2>2, <3>4, MovesCompose DEF Served
    <3>7. FairLine(n, o, h, e)
      BY <2>2, <3>4, FairLineComposes DEF Served
    <3>8. Good(i, o)
      BY <2>2, <3>2, <3>4, <3>5, <3>6, <3>7 DEF Served
    <3> QED BY <3>3, <3>8
  <2> QED BY <2>3, <2>4
<1>6. N \in D
  <2> HIDE DEF D, N
  <2>1. \A i \in 0 .. N : i \in D
    BY <1>1, <1>4, <1>5, UpTo
  <2> QED BY <1>1, <2>1
<1>7. Good(N, g[N])
  BY <1>6
<1>8. NoIdleSlotAt(g[N], e)
  <2>1. SubSeq(s, N + 1, N) = <<>>
    BY <1>1
  <2>3. g[N].load[e] <= edge[e].slots
    BY <1>7 DEF SlotsAt
  <2>4. g[N].line[e] = <<>> \/ ~(g[N].load[e] < edge[e].slots)
    BY <1>7, <2>1
  <2>5. g[N].load[e] \in Nat
    BY <1>7, NetsType
  <2> QED BY <1>1, <2>3, <2>4, <2>5 DEF NoIdleSlotAt
<1>9. AdmitEdgeSlotWaiters(lost, n, e) = g[N]
  BY <1>2, AdmitTrace DEF s
<1> HIDE DEF N
<1> QED BY <1>7, <1>8, <1>9 DEF Admitted

\* A slot is given back: by a transfer that was counted and is in transit no more.
LEMMA ReleaseSlots ==
  ASSUME NEW lost, NEW n \in Nets, NEW e \in Edges, NEW h, edge \in Topologies,
         n.load[e] = Cardinality(Before(n, h, e, "flying")) + 1, n.load[e] <= edge[e].slots,
         IsInjective(n.line[e]), Range(n.line[e]) = Before(n, h, e, "lining"),
         Len(n.line[e]) <= edge[e].slots
  PROVE  Admitted(n, ReleaseEdgeTransfer(lost, n, e), h, e)
<1>1. /\ n.load \in [Edges -> Nat] /\ edge[e].slots \in Nat
      /\ Cardinality(Before(n, h, e, "flying")) \in Nat
  <2>1. Before(n, h, e, "flying") \in SUBSET Requests
    BY DEF Before
  <2> QED BY <2>1, NetsType, ChainType, Counted
<1>2. PICK x \in Nat : x = n.load[e] - 1
  BY <1>1
<1>3. PICK o : o = [n EXCEPT !.load[e] = x]
  OBVIOUS
<1>4. /\ o \in Nets /\ KeepsPools(n, o) /\ o.phase = n.phase /\ o.line = n.line
      /\ o.load = [n.load EXCEPT ![e] = x]
  BY <1>3 DEF Nets, KeepsPools
<1>5. \A p : Before(o, h, e, p) = Before(n, h, e, p)
  BY <1>4 DEF Before
<1>6. o.load[e] = x /\ x <= edge[e].slots /\ x = Cardinality(Before(n, h, e, "flying"))
  BY <1>1, <1>2, <1>4
<1>7. SlotsAt(o, h, e)
  BY <1>4, <1>5, <1>6 DEF SlotsAt
<1>8. PICK m : m = AdmitEdgeSlotWaiters(lost, o, e)
  OBVIOUS
<1>9. Admitted(o, m, h, e)
  BY <1>4, <1>7, <1>8, AdmitSlots
<1>10. ReleaseEdgeTransfer(lost, n, e) = m
  BY <1>1, <1>2, <1>3, <1>8 DEF ReleaseEdgeTransfer
<1>11. Moves(n, m, h, e)
  <2>1. Moves(n, o, h, e)
    BY <1>1, <1>4 DEF Moves, KeepsPools
  <2> QED BY <1>9, <2>1, MovesCompose DEF Admitted
<1>12. FairLine(n, m, h, e)
  BY <1>4, <1>5, <1>9 DEF Admitted, FairLine
<1>13. KeepsPools(n, m)
  BY <1>4, <1>9 DEF Admitted, KeepsPools
<1> QED BY <1>5, <1>9, <1>10, <1>11, <1>12, <1>13 DEF Admitted

-----------------------------------------------------------------------------
(* Pools                                                                     *)

LEMMA Interval ==
  ASSUME NEW N \in Nat
  PROVE  IsFiniteSet(1 .. N) /\ Cardinality(1 .. N) = N
BY FS_Interval

LEMMA Connections ==
  ASSUME NEW n \in Nets, NEW e \in Edges, edge \in Topologies, PoolAt(n, e)
  PROVE  /\ n.conns[e] \in Pools /\ IsFiniteSet(DOMAIN n.conns[e])
         /\ edge[e].connections \in Nat \ {0} /\ edge[e].streams \in Nat \ {0}
         /\ Unopened(n, e) \in Nat
         /\ Unopened(n, e) = 0 <=> DOMAIN n.conns[e] = 1 .. edge[e].connections
<1>1. n.conns[e] \in Pools /\ edge[e].connections \in Nat \ {0} /\ edge[e].streams \in Nat \ {0}
  BY NetsType, ChainType
<1>2. PICK T : T = 1 .. edge[e].connections
  OBVIOUS
<1>3. IsFiniteSet(T) /\ Cardinality(T) = edge[e].connections
  BY <1>1, <1>2, Interval
<1>4. PICK D : D = DOMAIN n.conns[e]
  OBVIOUS
<1>5. D \in SUBSET T
  BY <1>2, <1>4 DEF PoolAt
<1>6. /\ IsFiniteSet(D) /\ Cardinality(D) <= Cardinality(T) /\ Cardinality(D) \in Nat
      /\ Cardinality(T) = Cardinality(D) => T = D
  BY <1>3, <1>5, FS_Subset, FS_CardinalityType
<1>7. Unopened(n, e) = edge[e].connections - Cardinality(D)
  BY <1>4 DEF Unopened
<1> QED BY <1>1, <1>2, <1>3, <1>4, <1>6, <1>7

LEMMA FreeStreamsCounted ==
  ASSUME NEW n \in Nets, NEW e \in Edges, edge \in Topologies
  PROVE  IsFiniteSet(FreeStreams(n, e)) /\ Cardinality(FreeStreams(n, e)) \in Nat
<1>1. edge[e].connections \in Nat /\ edge[e].streams \in Nat
  BY ChainType
<1>2. IsFiniteSet(1 .. edge[e].connections) /\ IsFiniteSet(1 .. edge[e].streams)
  BY <1>1, Interval
<1>3. IsFiniteSet((1 .. edge[e].connections) \X (1 .. edge[e].streams))
  BY <1>2, FS_Product
<1>4. FreeStreams(n, e) \in SUBSET ((1 .. edge[e].connections) \X (1 .. edge[e].streams))
  BY DEF FreeStreams
<1> HIDE DEF FreeStreams
<1> QED BY <1>3, <1>4, FS_Subset, FS_CardinalityType

\* There is room where there is a stream free, or a connection to open.
LEMMA RoomIs ==
  ASSUME NEW n \in Nets, NEW e \in Edges, edge \in Topologies, PoolAt(n, e)
  PROVE  Room(n, e) \in Nat /\ (Room(n, e) = 0 <=> WithFreeStream(n, e) = {} /\ Unopened(n, e) = 0)
<1>1. /\ n.conns[e] \in Pools
      /\ edge[e].connections \in Nat \ {0} /\ edge[e].streams \in Nat \ {0}
      /\ Unopened(n, e) \in Nat
      /\ Unopened(n, e) = 0 <=> DOMAIN n.conns[e] = 1 .. edge[e].connections
  BY Connections
<1>2. CASE edge[e].reuse = "per-request"
  BY <1>1, <1>2 DEF Room, WithFreeStream
<1>3. CASE edge[e].reuse # "per-request"
  <2>1. Room(n, e) = Cardinality(FreeStreams(n, e))
    BY <1>3 DEF Room
  <2>2. Room(n, e) \in Nat /\ (Room(n, e) = 0 <=> FreeStreams(n, e) = {})
    BY <2>1, FreeStreamsCounted, FS_EmptySet
  <2>3. \A c \in DOMAIN n.conns[e] : n.conns[e][c] \in Nat /\ c \in 1 .. edge[e].connections
    BY <1>1, PoolsType DEF PoolAt
  <2>4. ASSUME NEW c \in WithFreeStream(n, e) PROVE FreeStreams(n, e) # {}
    <3>1. c \in DOMAIN n.conns[e] /\ n.conns[e][c] < edge[e].streams
      BY <1>3 DEF WithFreeStream
    <3>2. <<c, edge[e].streams>> \in FreeStreams(n, e)
      BY <1>1, <2>3, <3>1 DEF FreeStreams
    <3> QED BY <3>2
  <2>5. ASSUME NEW c \in 1 .. edge[e].connections, c \notin DOMAIN n.conns[e]
        PROVE  FreeStreams(n, e) # {}
    <3>1. <<c, 1>> \in FreeStreams(n, e)
      BY <1>1, <2>5 DEF FreeStreams
    <3> QED BY <3>1
  <2>6. ASSUME NEW s \in FreeStreams(n, e), DOMAIN n.conns[e] = 1 .. edge[e].connections
        PROVE  s[1] \in WithFreeStream(n, e)
    <3>1. /\ s[1] \in DOMAIN n.conns[e] /\ s[2] > n.conns[e][s[1]] /\ s[2] \in 1 .. edge[e].streams
      BY <2>6 DEF FreeStreams
    <3>2. n.conns[e][s[1]] < edge[e].streams
      BY <1>1, <2>3, <3>1
    <3> QED BY <1>3, <3>1, <3>2 DEF WithFreeStream
  <2>7. CASE DOMAIN n.conns[e] = 1 .. edge[e].connections
    BY <1>1, <2>2, <2>4, <2>6, <2>7
  <2>8. CASE DOMAIN n.conns[e] # 1 .. edge[e].connections
    <3>1. \E c \in 1 .. edge[e].connections : c \notin DOMAIN n.conns[e]
      BY <2>3, <2>8
    <3> QED BY <1>1, <2>2, <2>5, <2>8, <3>1
  <2> QED BY <2>7, <2>8
<1> QED BY <1>2, <1>3

\* The connection chosen has a stream free, or is not open yet.
LEMMA ChoiceIs ==
  ASSUME NEW n \in Nets, NEW e \in Edges, edge \in Topologies, PoolAt(n, e),
         ~(WithFreeStream(n, e) = {} /\ Unopened(n, e) <= 0)
  PROVE  /\ Choice(n, e) \in 1 .. edge[e].connections
         /\ Choice(n, e) \in DOMAIN n.conns[e] =>
              n.conns[e][Choice(n, e)] < edge[e].streams /\ edge[e].reuse # "per-request"
<1>1. /\ n.conns[e] \in Pools
      /\ edge[e].connections \in Nat \ {0} /\ edge[e].streams \in Nat \ {0}
      /\ Unopened(n, e) \in Nat
      /\ Unopened(n, e) = 0 <=> DOMAIN n.conns[e] = 1 .. edge[e].connections
  BY Connections
<1>2. \A c \in DOMAIN n.conns[e] : n.conns[e][c] \in 0 .. edge[e].streams /\ c \in 1 .. edge[e].connections
  BY DEF PoolAt
<1>3. PICK free : free = WithFreeStream(n, e)
  OBVIOUS
<1>4. /\ \A c \in free : c \in DOMAIN n.conns[e] /\ n.conns[e][c] < edge[e].streams
      /\ free # {} => edge[e].reuse # "per-request"
  BY <1>3 DEF WithFreeStream
<1>5. CASE free # {}
  <2>1. PICK V : V = {n.conns[e][c] : c \in free}
    OBVIOUS
  <2>2. V \in SUBSET (0 .. edge[e].streams) /\ V # {}
    BY <1>2, <1>4, <1>5, <2>1
  <2>3. PICK m \in V : \A v \in V : v <= m
    BY <1>1, <2>2, Greatest
  <2>4. PICK c \in free : m = n.conns[e][c]
    BY <2>1
  <2>5. \A d \in free : n.conns[e][c] >= n.conns[e][d]
    <3>1. \A d \in free : n.conns[e][d] \in V /\ n.conns[e][d] \in Int
      BY <1>2, <1>4, <2>1
    <3> QED BY <2>3, <2>4, <3>1
  <2>6. Choice(n, e) = CHOOSE c1 \in free : \A d \in free : n.conns[e][c1] >= n.conns[e][d]
    BY <1>3, <1>5 DEF Choice
  <2>7. Choice(n, e) \in free
    BY <2>5, <2>6
  <2> QED BY <1>2, <1>4, <1>5, <2>7
<1>6. CASE free = {}
  <2>1. PICK V : V = (1 .. edge[e].connections) \ DOMAIN n.conns[e]
    OBVIOUS
  <2>2. Unopened(n, e) # 0
    BY <1>1, <1>3, <1>6
  <2>3. V # {}
    BY <1>1, <1>2, <2>1, <2>2
  <2>4. V \in SUBSET (0 .. edge[e].connections)
    BY <1>1, <2>1
  <2>5. \E m \in V : \A v \in V : m <= v
    BY <1>1, <2>3, <2>4, Least
  <2>6. Choice(n, e) = Min(V)
    BY <1>3, <1>6, <2>1 DEF Choice
  <2>7. Choice(n, e) \in V
    BY <2>5, <2>6 DEF Min
  <2> QED BY <2>1, <2>7
<1> QED BY <1>5, <1>6

\* A pool changes, and the leases on its edge with it.
OnlyPool(n, m, e) ==
  /\ m \in Nets
  /\ m.phase = n.phase /\ m.wait = n.wait /\ m.load = n.load /\ m.line = n.line
  /\ \A f \in Edges : f # e =>
       m.conns[f] = n.conns[f] /\ \A w \in Requests : m.lease[w][f] = n.lease[w][f]

\* A request gets a stream.
Granted(n, m, r, e) ==
  /\ OnlyPool(n, m, e) /\ PoolAt(m, e) /\ Room(m, e) = Room(n, e) - 1
  /\ \A w \in Requests : w # r => m.lease[w][e] = n.lease[w][e]
  /\ m.lease[r][e] # NoStream

LEMMA TakeStream ==
  ASSUME NEW n \in Nets, NEW e \in Edges, NEW r \in Requests, edge \in Topologies,
         PoolAt(n, e), Pooled(e), n.lease[r][e] = NoStream,
         ~(WithFreeStream(n, e) = {} /\ Unopened(n, e) <= 0),
         NEW c, c = Choice(n, e)
  PROVE  Granted(n, [n EXCEPT !.conns[e] = StreamTaken(@, c), !.lease[r][e] = c], r, e)
<1> DEFINE P == n.conns[e]
<1>0. PICK inUse : inUse = IF c \in DOMAIN n.conns[e] THEN n.conns[e][c] ELSE 0
  OBVIOUS
<1>1. /\ P \in Pools
      /\ edge[e].connections \in Nat \ {0} /\ edge[e].streams \in Nat \ {0}
      /\ Unopened(n, e) \in Nat /\ IsFiniteSet(DOMAIN P)
  BY Connections
<1>2. c \in 1 .. edge[e].connections /\ (c \in DOMAIN P => P[c] < edge[e].streams /\ edge[e].reuse # "per-request")
  BY ChoiceIs
<1>3. \A d \in DOMAIN P : P[d] \in 0 .. edge[e].streams /\ d \in 1 .. edge[e].connections /\ P[d] = Cardinality(Lessees(n, e, d))
  BY DEF PoolAt
<1>4. inUse \in Nat /\ inUse + 1 \in 0 .. edge[e].streams /\ c \in Nat \ {0}
  BY <1>0, <1>1, <1>2, <1>3
<1>5. PICK x \in Nat : x = inUse + 1
  BY <1>4
<1>6. PICK Q : Q = [d \in DOMAIN P \cup {c} |-> IF d = c THEN x ELSE P[d]]
  OBVIOUS
<1>7. StreamTaken(P, c) = Q
  BY <1>0, <1>3, <1>5, <1>6 DEF StreamTaken
<1>8. DOMAIN Q = DOMAIN P \cup {c} /\ Q[c] = x /\ \A d \in DOMAIN P : d # c => Q[d] = P[d]
  BY <1>6
<1>9. Q \in Pools
  <2>1. Q = [d \in DOMAIN Q |-> Q[d]]
    BY <1>6
  <2>2. DOMAIN Q \subseteq Nat /\ \A d \in DOMAIN Q : Q[d] \in Nat
    BY <1>1, <1>3, <1>4, <1>8, PoolsType
  <2> QED BY <2>1, <2>2, PoolsType
<1> HIDE DEF P
<1>10. PICK m : m = [n EXCEPT !.conns[e] = Q, !.lease[r][e] = c]
  OBVIOUS
<1>11. n.lease \in [Requests -> [Edges -> Nat]] /\ n.conns \in [Edges -> Pools]
  BY NetsType
<1>12. PICK l : l = [n.lease EXCEPT ![r][e] = c]
  OBVIOUS
<1>13. l \in [Requests -> [Edges -> Nat]]
  BY <1>4, <1>11, <1>12
<1>14. m = [n EXCEPT !.conns[e] = Q, !.lease = l]
  BY <1>10, <1>12
<1>15. /\ m \in Nets /\ m.phase = n.phase /\ m.wait = n.wait /\ m.load = n.load /\ m.line = n.line
       /\ m.conns = [n.conns EXCEPT ![e] = Q] /\ m.lease = l
  BY <1>9, <1>13, <1>14 DEF Nets
<1>16. /\ m.lease[r][e] = c
       /\ \A w \in Requests : w # r => m.lease[w] = n.lease[w]
       /\ \A f \in Edges : f # e => m.lease[r][f] = n.lease[r][f] /\ m.conns[f] = n.conns[f]
       /\ m.conns[e] = Q
  BY <1>11, <1>12, <1>13, <1>15
<1>17. OnlyPool(n, m, e)
  BY <1>15, <1>16 DEF OnlyPool
<1>18. Lessees(m, e, c) = Lessees(n, e, c) \cup {r} /\ \A d : d # c /\ d # NoStream => Lessees(m, e, d) = Lessees(n, e, d)
  BY <1>16 DEF Lessees
<1>19. Cardinality(Lessees(m, e, c)) = x
  <2>1. Lessees(n, e, c) \in SUBSET Requests /\ r \notin Lessees(n, e, c)
    BY <1>4 DEF Lessees, NoStream
  <2>2. Cardinality(Lessees(n, e, c)) = inUse
    <3>1. CASE c \in DOMAIN P
      BY <1>0, <1>3, <3>1 DEF P
    <3>2. CASE c \notin DOMAIN P
      <4>1. Lessees(n, e, c) = {}
        BY <1>4, <3>2 DEF Lessees, PoolAt, NoStream, P
      <4>2. inUse = 0
        BY <1>0, <3>2 DEF P
      <4> QED BY <4>1, <4>2, FS_EmptySet
    <3> QED BY <3>1, <3>2
  <2> QED BY <1>5, <1>18, <2>1, <2>2, Counted
<1>20. PoolAt(m, e)
  <2>1. \A d \in DOMAIN Q : d \in 1 .. edge[e].connections /\ Q[d] \in 0 .. edge[e].streams
    BY <1>2, <1>3, <1>4, <1>5, <1>8
  <2>2. \A d \in DOMAIN Q : Q[d] = Cardinality(Lessees(m, e, d))
    <3>1. \A d \in DOMAIN P : d # NoStream
      BY <1>3 DEF NoStream
    <3> QED BY <1>3, <1>8, <1>18, <1>19, <3>1
  <2>3. \A w \in Requests : m.lease[w][e] # NoStream => m.lease[w][e] \in DOMAIN Q
    BY <1>8, <1>16 DEF PoolAt, P
  <2> QED BY <1>16, <2>1, <2>2, <2>3 DEF PoolAt
<1>21. Room(m, e) = Room(n, e) - 1
  <2>1. CASE edge[e].reuse = "per-request"
    <3>1. c \notin DOMAIN P
      BY <1>2, <2>1
    <3>2. Cardinality(DOMAIN Q) = Cardinality(DOMAIN P) + 1
      BY <1>1, <1>8, <3>1, FS_AddElement DEF P
    <3>3. Cardinality(DOMAIN P) \in Nat
      BY <1>1, FS_CardinalityType DEF P
    <3> QED BY <1>1, <1>16, <2>1, <3>2, <3>3 DEF Room, Unopened, P
  <2>2. CASE edge[e].reuse # "per-request"
    <3>1. FreeStreams(m, e) = FreeStreams(n, e) \ {<<c, x>>}
      <4>1. ASSUME NEW s \in (1 .. edge[e].connections) \X (1 .. edge[e].streams)
            PROVE  s \in FreeStreams(m, e) <=> s \in FreeStreams(n, e) /\ s # <<c, x>>
        <5>1. s[1] \in Nat /\ s[2] \in Nat \ {0} /\ (s = <<c, x>> <=> s[1] = c /\ s[2] = x)
          BY <1>1
        <5>2. CASE s[1] = c
          BY <1>0, <1>4, <1>5, <1>8, <1>16, <5>1, <5>2 DEF FreeStreams, P
        <5>3. CASE s[1] # c
          BY <1>8, <1>16, <5>1, <5>3 DEF FreeStreams, P
        <5> QED BY <5>2, <5>3
      <4>2. /\ FreeStreams(m, e) \subseteq (1 .. edge[e].connections) \X (1 .. edge[e].streams)
            /\ FreeStreams(n, e) \subseteq (1 .. edge[e].connections) \X (1 .. edge[e].streams)
        BY DEF FreeStreams
      <4> HIDE DEF FreeStreams
      <4> QED BY <4>1, <4>2
    <3>2. <<c, x>> \in FreeStreams(n, e)
      BY <1>0, <1>2, <1>4, <1>5 DEF FreeStreams, P
    <3>3. Cardinality(FreeStreams(m, e)) = Cardinality(FreeStreams(n, e)) - 1
      <4>1. PICK F : F = FreeStreams(n, e)
        OBVIOUS
      <4>2. IsFiniteSet(F)
        BY <4>1, FreeStreamsCounted
      <4>3. Cardinality(F \ {<<c, x>>}) = Cardinality(F) - 1
        BY <3>2, <4>1, <4>2, FS_RemoveElement
      <4> QED BY <3>1, <4>1, <4>3
    <3> QED BY <2>2, <3>3 DEF Room
  <2> QED BY <2>1, <2>2
<1>22. m.lease[r][e] # NoStream /\ \A w \in Requests : w # r => m.lease[w][e] = n.lease[w][e]
  BY <1>4, <1>16 DEF NoStream
<1>23. Granted(n, m, r, e)
  BY <1>17, <1>20, <1>21, <1>22 DEF Granted
<1>24. m = [n EXCEPT !.conns[e] = StreamTaken(@, c), !.lease[r][e] = c]
  BY <1>7, <1>10 DEF P
<1> QED BY <1>23, <1>24

\* Connections nobody uses are closed.
Closed(n, m, e) == OnlyPool(n, m, e) /\ PoolAt(m, e) /\ m.lease = n.lease

LEMMA CloseIdleKeeps ==
  ASSUME NEW n \in Nets, NEW e \in Edges, edge \in Topologies, PoolAt(n, e),
         NEW X \in SUBSET Idle(n, e)
  PROVE  /\ Closed(n, CloseIdle(n, e, X), e)
         /\ X = {} => CloseIdle(n, e, X).conns = n.conns
<1>1. PICK P : P = n.conns[e]
  OBVIOUS
<1>2. P \in Pools /\ n.conns \in [Edges -> Pools]
  BY <1>1, NetsType
<1>3. PICK Q : Q = [c \in DOMAIN P \ X |-> P[c]]
  OBVIOUS
<1>4. DOMAIN Q = DOMAIN P \ X /\ \A c \in DOMAIN Q : Q[c] = P[c]
  BY <1>3
<1>5. Q \in Pools
  <2>1. Q = [c \in DOMAIN Q |-> Q[c]]
    BY <1>3
  <2>2. DOMAIN Q \subseteq Nat /\ \A c \in DOMAIN Q : Q[c] \in Nat
    BY <1>2, <1>4, PoolsType
  <2> QED BY <2>1, <2>2, PoolsType
<1>6. PICK m : m = [n EXCEPT !.conns[e] = Q]
  OBVIOUS
<1>7. /\ m \in Nets /\ m.phase = n.phase /\ m.wait = n.wait /\ m.load = n.load /\ m.line = n.line
      /\ m.lease = n.lease /\ m.conns = [n.conns EXCEPT ![e] = Q]
  BY <1>5, <1>6 DEF Nets
<1>8. CloseIdle(n, e, X) = m
  BY <1>1, <1>3, <1>6 DEF CloseIdle, Restrict
<1>9. OnlyPool(n, m, e) /\ m.conns[e] = Q
  BY <1>2, <1>7 DEF OnlyPool
<1>10. \A c : Lessees(m, e, c) = Lessees(n, e, c)
  BY <1>7 DEF Lessees
<1>11. \A w \in Requests : n.lease[w][e] \notin X
  <2> SUFFICES ASSUME NEW w \in Requests, n.lease[w][e] \in X PROVE FALSE
    OBVIOUS
  <2>1. PICK c \in X : c = n.lease[w][e]
    OBVIOUS
  <2>2. c \in DOMAIN n.conns[e] /\ n.conns[e][c] = 0
    BY DEF Idle
  <2>3. Cardinality(Lessees(n, e, c)) = 0
    BY <2>2 DEF PoolAt
  <2>4. w \in Lessees(n, e, c) /\ Lessees(n, e, c) \in SUBSET Requests
    BY <2>1 DEF Lessees
  <2>5. Lessees(n, e, c) = {}
    BY <2>3, <2>4, Counted, FS_EmptySet
  <2> QED BY <2>4, <2>5
<1>12. PoolAt(m, e)
  BY <1>1, <1>4, <1>7, <1>9, <1>10, <1>11 DEF PoolAt
<1>13. ASSUME X = {} PROVE m.conns = n.conns
  <2>1. Q = P
    BY <1>2, <1>3, <1>13, PoolsType
  <2> QED BY <1>1, <1>2, <1>7, <2>1
<1> QED BY <1>7, <1>8, <1>9, <1>12, <1>13 DEF Closed

\* A request gives back its stream.
Freed(n, m, r, e) ==
  /\ OnlyPool(n, m, e) /\ PoolAt(m, e)
  /\ m.lease[r][e] = NoStream
  /\ \A w \in Requests : w # r => m.lease[w][e] = n.lease[w][e]

LEMMA FreeStream ==
  ASSUME NEW n \in Nets, NEW e \in Edges, NEW r \in Requests, edge \in Topologies,
         PoolAt(n, e), n.lease[r][e] # NoStream,
         NEW c, c = n.lease[r][e]
  PROVE  Freed(n, StreamFreed([n EXCEPT !.lease[r][e] = NoStream], e, c), r, e)
<1>1. PICK P : P = n.conns[e]
  OBVIOUS
<1>2. P \in Pools /\ n.conns \in [Edges -> Pools] /\ n.lease \in [Requests -> [Edges -> Nat]]
  BY <1>1, NetsType
<1>3. c \in DOMAIN P /\ c # NoStream /\ P[c] = Cardinality(Lessees(n, e, c)) /\ P[c] \in 0 .. edge[e].streams
  BY <1>1 DEF PoolAt
<1>4. r \in Lessees(n, e, c) /\ Lessees(n, e, c) \in SUBSET Requests
  BY DEF Lessees
<1>5. P[c] \in Nat \ {0}
  <2>1. Lessees(n, e, c) # {} /\ IsFiniteSet(Lessees(n, e, c)) /\ Cardinality(Lessees(n, e, c)) \in Nat
    BY <1>4, Counted
  <2> QED BY <1>3, <2>1, FS_EmptySet
<1>6. PICK x \in Nat : x = P[c] - 1
  BY <1>5
<1>7. Max({0, P[c] - 1}) = x
  <2>1. PICK S : S = {0, x}
    OBVIOUS
  <2>2. x \in S /\ S \in SUBSET Int /\ \A y \in S : y <= x
    BY <2>1
  <2>3. Max(S) = x
    BY <2>2, MaxIs
  <2> QED BY <1>6, <2>1, <2>3
<1>8. PICK Q : Q = [P EXCEPT ![c] = x]
  OBVIOUS
<1>9. /\ P = [d \in DOMAIN P |-> P[d]] /\ DOMAIN P \subseteq Nat /\ \A d \in DOMAIN P : P[d] \in Nat
  BY <1>2, PoolsType
<1>10. DOMAIN Q = DOMAIN P /\ Q[c] = x /\ (\A d \in DOMAIN P : d # c => Q[d] = P[d]) /\ Q \in Pools
  <2>1. DOMAIN Q = DOMAIN P /\ Q[c] = x /\ (\A d \in DOMAIN P : d # c => Q[d] = P[d])
    BY <1>3, <1>8
  <2>2. Q = [d \in DOMAIN Q |-> Q[d]]
    BY <1>8
  <2>3. DOMAIN Q \subseteq Nat /\ \A d \in DOMAIN Q : Q[d] \in Nat
    BY <1>9, <2>1
  <2> QED BY <2>1, <2>2, <2>3, PoolsType
<1>11. PICK l : l = [n.lease EXCEPT ![r][e] = NoStream]
  OBVIOUS
<1>12. /\ l \in [Requests -> [Edges -> Nat]] /\ l[r][e] = NoStream
       /\ \A w \in Requests : w # r => l[w] = n.lease[w]
       /\ \A f \in Edges : f # e => l[r][f] = n.lease[r][f]
  BY <1>2, <1>11 DEF NoStream
<1>13. PICK o : o = [n EXCEPT !.lease = l, !.conns[e] = Q]
  OBVIOUS
<1>14. /\ o \in Nets /\ o.phase = n.phase /\ o.wait = n.wait /\ o.load = n.load /\ o.line = n.line
       /\ o.lease = l /\ o.conns = [n.conns EXCEPT ![e] = Q]
  BY <1>10, <1>12, <1>13 DEF Nets
<1>15. o.conns[e] = Q /\ OnlyPool(n, o, e)
  BY <1>2, <1>12, <1>14 DEF OnlyPool
<1>16. Lessees(o, e, c) = Lessees(n, e, c) \ {r} /\ \A d : d # c /\ d # NoStream => Lessees(o, e, d) = Lessees(n, e, d)
  BY <1>3, <1>12, <1>14 DEF Lessees
<1>17. PoolAt(o, e)
  <2>1. \A d \in DOMAIN Q : d \in 1 .. edge[e].connections
    BY <1>1, <1>10 DEF PoolAt
  <2>2. Q[c] = Cardinality(Lessees(o, e, c)) /\ Q[c] \in 0 .. edge[e].streams
    <3>1. Cardinality(Lessees(o, e, c)) = x
      BY <1>3, <1>4, <1>6, <1>16, Counted
    <3>2. edge[e].streams \in Nat
      BY ChainType
    <3> QED BY <1>3, <1>6, <1>10, <3>1, <3>2
  <2>3. \A d \in DOMAIN Q : Q[d] \in 0 .. edge[e].streams /\ Q[d] = Cardinality(Lessees(o, e, d))
    <3> TAKE d \in DOMAIN Q
    <3>1. CASE d = c
      BY <2>2, <3>1
    <3>2. CASE d # c
      BY <1>1, <1>10, <1>16, <2>1, <3>2 DEF PoolAt, NoStream
    <3> QED BY <3>1, <3>2
  <2>4. \A w \in Requests : o.lease[w][e] # NoStream => o.lease[w][e] \in DOMAIN Q
    BY <1>1, <1>10, <1>12, <1>14 DEF PoolAt
  <2>5. Pooled(e)
    BY DEF PoolAt
  <2> QED BY <1>15, <2>1, <2>3, <2>4, <2>5 DEF PoolAt
<1>18. Freed(n, o, r, e)
  BY <1>12, <1>14, <1>15, <1>17 DEF Freed
<1>19. PICK fewer : fewer = [[n EXCEPT !.lease[r][e] = NoStream] EXCEPT !.conns[e][c] = Max({0, @ - 1})]
  OBVIOUS
<1>20. fewer = o
  <2>1. [n EXCEPT !.lease[r][e] = NoStream].conns[e][c] = P[c]
    BY <1>1
  <2>2. PICK q : q = [n EXCEPT !.lease[r][e] = NoStream]
    OBVIOUS
  <2>3. q = [n EXCEPT !.lease = l]
    BY <1>11, <2>2
  <2>4. fewer = [q EXCEPT !.conns[e][c] = x]
    BY <1>7, <1>19, <2>1, <2>2
  <2>5. q.conns = n.conns /\ q.conns[e] = P
    BY <1>1, <2>3 DEF Nets
  <2>6. fewer = [q EXCEPT !.conns[e] = Q]
    BY <1>8, <2>4, <2>5
  <2> QED BY <1>13, <2>3, <2>6
<1>21. CASE edge[e].reuse # "per-request"
  <2>1. StreamFreed([n EXCEPT !.lease[r][e] = NoStream], e, c) = o
    BY <1>19, <1>20, <1>21 DEF StreamFreed
  <2> QED BY <1>18, <2>1
<1>22. CASE edge[e].reuse = "per-request"
  <2>1. PICK m : m = CloseIdle(o, e, Idle(o, e) \cap {c})
    OBVIOUS
  <2>2. StreamFreed([n EXCEPT !.lease[r][e] = NoStream], e, c) = m
    BY <1>19, <1>20, <1>22, <2>1 DEF StreamFreed
  <2>3. PICK X \in SUBSET Idle(o, e) : X = Idle(o, e) \cap {c}
    OBVIOUS
  <2>4. Closed(o, m, e)
    BY <1>14, <1>17, <2>1, <2>3, CloseIdleKeeps
  <2>5. OnlyPool(n, m, e)
    BY <1>15, <2>4 DEF Closed, OnlyPool
  <2>6. Freed(n, m, r, e)
    BY <1>18, <2>4, <2>5 DEF Freed, Closed
  <2> QED BY <2>2, <2>6
<1> QED BY <1>21, <1>22

\* A request with a stream goes on to the slots.
Sent(n, m, h, r, e) ==
  /\ m \in Nets /\ m.wait = n.wait /\ PoolAt(m, e) /\ Room(m, e) = Room(n, e) - 1
  /\ SlotsAt(m, h, e) /\ NoIdleSlotAt(m, e) /\ FairLine(n, m, h, e)
  /\ \E p \in {"lining", "flying", "refused"} : m.phase = [n.phase EXCEPT ![r] = p]
  /\ \A f \in Edges : f # e =>
       /\ m.conns[f] = n.conns[f] /\ m.load[f] = n.load[f] /\ m.line[f] = n.line[f]
       /\ \A w \in Requests : m.lease[w][f] = n.lease[w][f]
  /\ m.lease[r][e] # NoStream
  /\ \A w \in Requests : w # r => m.lease[w][e] = n.lease[w][e]

LEMMA AcquireSends ==
  ASSUME NEW lost, NEW n \in Nets, NEW r \in Requests, NEW e \in Edges, NEW h, NEW requeued,
         edge \in Topologies, h[r] + 1 = e, n.phase[r] \in {"served", "pooling"},
         PoolAt(n, e), Pooled(e), n.lease[r][e] = NoStream,
         ~(WithFreeStream(n, e) = {} /\ Unopened(n, e) <= 0),
         SlotsAt(n, h, e), NoIdleSlotAt(n, e)
  PROVE  Sent(n, AcquireConnectionAndDispatch(lost, n, r, e, requeued), h, r, e)
<1>1. PICK c : c = Choice(n, e)
  OBVIOUS
<1>2. PICK g : g = [n EXCEPT !.conns[e] = StreamTaken(@, c), !.lease[r][e] = c]
  OBVIOUS
<1>3. Granted(n, g, r, e)
  BY <1>1, <1>2, TakeStream
<1>4. PICK m : m = DispatchEdgeTransfer(lost, g, r, e)
  OBVIOUS
<1>5. AcquireConnectionAndDispatch(lost, n, r, e, requeued) = m
  BY <1>1, <1>2, <1>4 DEF AcquireConnectionAndDispatch
<1>6. /\ g \in Nets /\ g.phase = n.phase /\ g.wait = n.wait /\ g.load = n.load /\ g.line = n.line
      /\ PoolAt(g, e) /\ Room(g, e) = Room(n, e) - 1 /\ g.lease[r][e] # NoStream
      /\ \A w \in Requests : w # r => g.lease[w][e] = n.lease[w][e]
      /\ \A f \in Edges : f # e =>
           g.conns[f] = n.conns[f] /\ \A w \in Requests : g.lease[w][f] = n.lease[w][f]
  BY <1>3 DEF Granted, OnlyPool
<1>7. \A p : Before(g, h, e, p) = Before(n, h, e, p)
  BY <1>6 DEF Before
<1>8. SlotsAt(g, h, e) /\ NoIdleSlotAt(g, e)
  BY <1>6, <1>7 DEF SlotsAt, NoIdleSlotAt
<1>9. Dispatched(g, m, h, r, e)
  <2>1. g.phase[r] \in {"served", "pooling"}
    BY <1>6
  <2> QED BY <1>4, <1>6, <1>8, <2>1, DispatchSlots
<1>10. /\ m \in Nets /\ m.conns = g.conns /\ m.wait = g.wait /\ m.lease = g.lease
       /\ \A f \in Edges : f # e => m.load[f] = g.load[f] /\ m.line[f] = g.line[f]
       /\ \E p \in {"lining", "flying", "refused"} : m.phase = [g.phase EXCEPT ![r] = p]
       /\ SlotsAt(m, h, e) /\ NoIdleSlotAt(m, e) /\ FairLine(g, m, h, e)
  BY <1>9 DEF Dispatched, KeepsPools
<1>11. \A d : Lessees(m, e, d) = Lessees(g, e, d)
  BY <1>10 DEF Lessees
<1>12. PoolAt(m, e)
  BY <1>6, <1>10, <1>11 DEF PoolAt
<1>13. Room(m, e) = Room(g, e)
  BY <1>10 DEF Room, FreeStreams, Unopened
<1>14. FairLine(n, m, h, e)
  BY <1>6, <1>7, <1>10 DEF FairLine
<1> QED BY <1>5, <1>6, <1>10, <1>12, <1>13, <1>14 DEF Sent

LEMMA MinOfTwo ==
  ASSUME NEW a \in Nat, NEW b \in Nat
  PROVE  Min({a, b}) = IF a <= b THEN a ELSE b
<1>1. PICK S : S = {a, b}
  OBVIOUS
<1>2. PICK m \in Nat : m = IF a <= b THEN a ELSE b
  OBVIOUS
<1>3. m \in S /\ \A y \in S : m <= y
  BY <1>1, <1>2
<1>4. \A k \in S : k \in Int
  BY <1>1
<1>5. \A k \in S : (\A y \in S : k <= y) => k = m
  BY <1>3, <1>4
<1>6. Min(S) = m
  BY <1>3, <1>5 DEF Min
<1> QED BY <1>1, <1>2, <1>6

\* What a waiter with a turn goes through leaves the edge as it should be.
WaiterSent(m, o, h, w, e) ==
  /\ o \in Nets /\ Moves(m, o, h, e) /\ o.wait[e] = m.wait[e]
  /\ PoolAt(o, e) /\ Room(o, e) = Room(m, e) - 1
  /\ SlotsAt(o, h, e) /\ NoIdleSlotAt(o, e) /\ FairLine(m, o, h, e) /\ UseAt(o, h, e, {})
  /\ Before(o, h, e, "pooling") = Before(m, h, e, "pooling") \ {w}
  /\ \A v \in Requests : v # w => o.lease[v][e] = m.lease[v][e]

LEMMA WaiterServed ==
  ASSUME NEW lost, NEW m \in Nets, NEW w \in Requests, NEW e \in Edges, NEW h \in Hops,
         edge \in Topologies, w \in Before(m, h, e, "pooling"), Pooled(e),
         PoolAt(m, e), SlotsAt(m, h, e), NoIdleSlotAt(m, e), UseAt(m, h, e, {}), Room(m, e) > 0
  PROVE  WaiterSent(m, AcquireConnectionAndDispatch(lost, m, w, e, TRUE), h, w, e)
<1>1. PICK o : o = AcquireConnectionAndDispatch(lost, m, w, e, TRUE)
  OBVIOUS
<1>2. h[w] + 1 = e /\ m.phase[w] = "pooling" /\ h[w] \in Int /\ m.phase \in [Requests -> Phases]
  <2>1. h[w] + 1 = e /\ m.phase[w] = "pooling" /\ m.phase \in [Requests -> Phases]
    BY NetsType DEF Before
  <2>2. h[w] \in 0 .. Len(edge) /\ Len(edge) \in Nat
    BY ChainType DEF Hops, Nodes
  <2> QED BY <2>1, <2>2
<1>3. m.lease[w][e] = NoStream
  <2>1. ~(h[w] >= e)
    BY <1>2
  <2> QED BY <1>2, <2>1 DEF UseAt, Stands
<1>4. ~(WithFreeStream(m, e) = {} /\ Unopened(m, e) <= 0)
  <2>1. Room(m, e) # 0 /\ Unopened(m, e) \in Nat
    BY RoomIs, Connections
  <2>2. ~(WithFreeStream(m, e) = {} /\ Unopened(m, e) = 0)
    BY <2>1, RoomIs
  <2> QED BY <2>1, <2>2
<1>5. Sent(m, o, h, w, e)
  <2>1. m.phase[w] \in {"served", "pooling"} /\ h[w] + 1 = e
    BY <1>2
  <2> QED BY <1>1, <1>3, <1>4, <2>1, AcquireSends
<1>6. /\ o \in Nets /\ o.wait = m.wait /\ PoolAt(o, e) /\ Room(o, e) = Room(m, e) - 1
      /\ SlotsAt(o, h, e) /\ NoIdleSlotAt(o, e) /\ FairLine(m, o, h, e)
      /\ o.lease[w][e] # NoStream
      /\ \A v \in Requests : v # w => o.lease[v][e] = m.lease[v][e]
  BY <1>5 DEF Sent
<1>7. PICK p \in {"lining", "flying", "refused"} : o.phase = [m.phase EXCEPT ![w] = p]
  BY <1>5 DEF Sent
<1>8. o.phase[w] = p /\ \A v \in Requests : v # w => o.phase[v] = m.phase[v]
  BY <1>2, <1>7
<1>9. Moves(m, o, h, e)
  <2>1. \A f \in Edges : f # e =>
           /\ o.conns[f] = m.conns[f] /\ o.load[f] = m.load[f] /\ o.line[f] = m.line[f]
           /\ \A v \in Requests : o.lease[v][f] = m.lease[v][f]
    BY <1>5 DEF Sent
  <2>2. \A v \in Requests : o.phase[v] = m.phase[v] \/ (h[v] + 1 = e /\ Later(m.phase[v], o.phase[v]))
    BY <1>2, <1>8 DEF Later
  <2> QED BY <1>6, <2>1, <2>2 DEF Moves
<1>10. UseAt(o, h, e, {})
  <2>1. Stands(o, h, w, e)
    BY <1>2, <1>8 DEF Stands
  <2>2. \A v \in Requests : v # w => (Stands(o, h, v, e) <=> Stands(m, h, v, e))
    BY <1>8 DEF Stands
  <2> QED BY <1>6, <1>8, <2>1, <2>2 DEF UseAt
<1>11. Before(o, h, e, "pooling") = Before(m, h, e, "pooling") \ {w}
  BY <1>8 DEF Before
<1> QED BY <1>1, <1>6, <1>9, <1>10, <1>11 DEF WaiterSent

\* A stream is given back, and the room there is handed to those who wait.
Released(n, m, h, r, e) ==
  /\ m \in Nets /\ Moves(n, m, h, e) /\ Sound(m, h, e, {})
  /\ FairLine(n, m, h, e) /\ FairWait(n, m, e)

LEMMA ReleaseIs ==
  ASSUME NEW lost, NEW n, NEW r, NEW e
  PROVE  Release(lost, n, r, e) =
           LET freed == StreamFreed([n EXCEPT !.lease[r][e] = NoStream], e, n.lease[r][e])
               taken == Min({Len(freed.wait[e]), Room(freed, e)})
               left  == [freed EXCEPT !.wait[e] = SubSeq(@, taken + 1, Len(@))]
               first == SubSeq(freed.wait[e], 1, taken)
           IN Iterated("serve", lost, e, e, left, first)[DOMAIN first]
BY DEF Release, FoldLeft, MapThenFoldSet, Iterated, Iterates, Step

LEMMA ReleaseStream ==
  ASSUME NEW lost, NEW n \in Nets, NEW r \in Requests, NEW e \in Edges, NEW h \in Hops,
         edge \in Topologies, Sound(n, h, e, {r}), n.phase[r] \in {"served", "ended"},
         n.lease[r][e] # NoStream
  PROVE  Released(n, Release(lost, n, r, e), h, r, e)
<1> DEFINE W == n.wait[e]
<1>1. /\ W \in Seq(Requests) /\ Len(W) \in Nat /\ DOMAIN W = 1 .. Len(W)
      /\ IsInjective(W) /\ Range(W) = Before(n, h, e, "pooling")
      /\ n.wait \in [Edges -> Seq(Requests)]
  BY NetsType DEF Sound, WaitAt
<1>2. PoolAt(n, e) /\ SlotsAt(n, h, e) /\ NoIdleSlotAt(n, e) /\ UseAt(n, h, e, {r})
  BY DEF Sound
<1>3. Pooled(e)
  BY <1>2 DEF PoolAt
<1> HIDE DEF W
<1>4. PICK f : f = StreamFreed([n EXCEPT !.lease[r][e] = NoStream], e, n.lease[r][e])
  OBVIOUS
<1>5. Freed(n, f, r, e)
  BY <1>2, <1>4, FreeStream
<1>6. /\ f \in Nets /\ f.phase = n.phase /\ f.wait = n.wait /\ f.load = n.load /\ f.line = n.line
      /\ PoolAt(f, e) /\ f.lease[r][e] = NoStream
      /\ \A w \in Requests : w # r => f.lease[w][e] = n.lease[w][e]
      /\ \A g \in Edges : g # e =>
           f.conns[g] = n.conns[g] /\ \A w \in Requests : f.lease[w][g] = n.lease[w][g]
  BY <1>5 DEF Freed, OnlyPool
<1>7. Room(f, e) \in Nat
  BY <1>6, RoomIs
<1>8. PICK taken : taken = Min({Len(W), Room(f, e)})
  OBVIOUS
<1>9. taken \in 0 .. Len(W) /\ taken <= Room(f, e) /\ (taken # Len(W) => taken = Room(f, e))
  BY <1>1, <1>7, <1>8, MinOfTwo
<1>10. PICK T : T = SubSeq(W, taken + 1, Len(W))
  OBVIOUS
<1>11. Dropped(Requests, W, T, taken)
  BY <1>1, <1>9, <1>10, FairIfDropped
<1>12. PICK s : s = SubSeq(W, 1, taken)
  OBVIOUS
<1>13. s \in Seq(Requests) /\ Len(s) = taken /\ \A i \in 1 .. taken : s[i] = W[i]
  BY <1>1, <1>9, <1>12
<1>14. PICK o : o = [f EXCEPT !.wait[e] = T]
  OBVIOUS
<1>15. /\ o \in Nets /\ o.phase = f.phase /\ o.conns = f.conns /\ o.lease = f.lease
       /\ o.load = f.load /\ o.line = f.line /\ o.wait = [f.wait EXCEPT ![e] = T]
  <2>1. T \in Seq(Requests)
    BY <1>11 DEF Dropped
  <2> QED BY <1>6, <1>14, <2>1 DEF Nets
<1>16. o.wait[e] = T /\ \A g \in Edges : g # e => o.wait[g] = n.wait[g]
  BY <1>1, <1>6, <1>15
<1>17. PICK g : /\ g[0] = o
                /\ \A i \in 1 .. taken : g[i] = Step("serve", lost, e, e, g[i - 1], s[i])
                /\ Iterated("serve", lost, e, e, o, s)[DOMAIN s] = g[taken]
  BY <1>13, FoldTrace
<1>18. \A i \in 1 .. taken : g[i] = AcquireConnectionAndDispatch(lost, g[i - 1], W[i], e, TRUE)
  BY <1>13, <1>17 DEF Step
<1>19. Release(lost, n, r, e) = g[taken]
  <2>1. f.wait[e] = W
    BY <1>6 DEF W
  <2>2. Release(lost, n, r, e) = Iterated("serve", lost, e, e, o, s)[DOMAIN s]
    <3>1. o = [f EXCEPT !.wait[e] = SubSeq(@, taken + 1, Len(@))]
      BY <1>10, <1>14, <2>1
    <3>2. s = SubSeq(f.wait[e], 1, taken) /\ taken = Min({Len(f.wait[e]), Room(f, e)})
      BY <1>8, <1>12, <2>1
    <3> QED BY <1>4, <3>1, <3>2, ReleaseIs
  <2> QED BY <1>17, <2>2
<1> DEFINE Good(i, m) ==
             /\ m \in Nets /\ Moves(n, m, h, e) /\ m.wait[e] = T
             /\ PoolAt(m, e) /\ Room(m, e) = Room(f, e) - i
             /\ SlotsAt(m, h, e) /\ NoIdleSlotAt(m, e) /\ FairLine(n, m, h, e) /\ UseAt(m, h, e, {})
             /\ Before(m, h, e, "pooling") = Before(n, h, e, "pooling") \ FirstOnes(W, i)
             /\ \A w \in Requests : w \notin FirstOnes(W, i) => m.lease[w][e] = f.lease[w][e]
           D == {i \in 0 .. taken : Good(i, g[i])}
<1>20. 0 \in D
  <2>1. FirstOnes(W, 0) = {}
    BY DEF FirstOnes
  <2>2. \A p : Before(o, h, e, p) = Before(n, h, e, p)
    BY <1>6, <1>15 DEF Before
  <2>3. Moves(n, o, h, e)
    BY <1>6, <1>15, <1>16 DEF Moves
  <2>4. PoolAt(o, e)
    <3>1. \A c : Lessees(o, e, c) = Lessees(f, e, c)
      BY <1>15 DEF Lessees
    <3> QED BY <1>6, <1>15, <3>1 DEF PoolAt
  <2>5. Room(o, e) = Room(f, e) - 0
    <3>1. Room(o, e) = Room(f, e)
      BY <1>15 DEF Room, FreeStreams, Unopened
    <3> QED BY <1>7, <3>1
  <2>6. SlotsAt(o, h, e) /\ NoIdleSlotAt(o, e)
    BY <1>2, <1>6, <1>15, <2>2 DEF SlotsAt, NoIdleSlotAt
  <2>7. FairLine(n, o, h, e)
    <3>1. Before(o, h, e, "flying") \ Before(n, h, e, "flying") = {}
      BY <2>2
    <3>2. n.line[e] \in Seq(Requests) /\ IsInjective(n.line[e]) /\ o.line[e] = n.line[e]
      BY <1>2, <1>6, <1>15, NetsType DEF SlotsAt
    <3> QED BY <3>1, <3>2, FairIfUnchanged DEF FairLine
  <2>8. UseAt(o, h, e, {})
    <3>1. \A w \in Requests : Stands(o, h, w, e) <=> Stands(n, h, w, e)
      BY <1>6, <1>15 DEF Stands
    <3>2. ~Stands(n, h, r, e)
      BY DEF Stands
    <3> QED BY <1>2, <1>6, <1>15, <3>1, <3>2 DEF UseAt
  <2>9. Good(0, o)
    BY <1>15, <1>16, <2>1, <2>2, <2>3, <2>4, <2>5, <2>6, <2>7, <2>8
  <2> HIDE DEF Good
  <2> QED BY <1>9, <1>17, <2>9
<1>21. ASSUME NEW i \in 1 .. taken, i - 1 \in D PROVE i \in D
  <2>1. PICK m : m = g[i - 1]
    OBVIOUS
  <2>2. Good(i - 1, m)
    BY <1>21, <2>1
  <2>3. PICK w : w = W[i]
    OBVIOUS
  <2>4. i \in DOMAIN W /\ i \in 1 .. Len(W) /\ i - 1 \in Nat
    BY <1>1, <1>9
  <2>5. w \in Requests /\ w \in Before(n, h, e, "pooling")
    BY <1>1, <2>3, <2>4 DEF Range
  <2>6. w \notin FirstOnes(W, i - 1)
    <3> SUFFICES ASSUME NEW j \in 1 .. i - 1, W[j] = W[i] PROVE FALSE
      BY <2>3 DEF FirstOnes
    <3>1. j \in DOMAIN W /\ j # i
      BY <1>1, <2>4
    <3> QED BY <1>1, <2>4, <3>1 DEF IsInjective
  <2>7. FirstOnes(W, i) = FirstOnes(W, i - 1) \cup {w}
    <3>1. \A j : j \in 1 .. i <=> j \in 1 .. i - 1 \/ j = i
      OBVIOUS
    <3> QED BY <2>3, <3>1 DEF FirstOnes
  <2>8. PICK q : q = g[i]
    OBVIOUS
  <2>9. q = AcquireConnectionAndDispatch(lost, m, w, e, TRUE)
    BY <1>18, <2>1, <2>3, <2>8
  <2>10. Room(m, e) > 0
    BY <1>7, <1>9, <2>2
  <2>11. WaiterSent(m, q, h, w, e)
    <3>1. w \in Before(m, h, e, "pooling")
      BY <2>2, <2>5, <2>6
    <3>2. m \in Nets /\ PoolAt(m, e) /\ SlotsAt(m, h, e) /\ NoIdleSlotAt(m, e) /\ UseAt(m, h, e, {})
      BY <2>2
    <3> HIDE DEF Good
    <3> QED BY <1>3, <2>5, <2>9, <2>10, <3>1, <3>2, WaiterServed
  <2>12. Moves(n, q, h, e)
    BY <2>2, <2>11, MovesCompose DEF WaiterSent
  <2>13. FairLine(n, q, h, e)
    <3>1. /\ m \in Nets /\ q \in Nets /\ Moves(n, m, h, e) /\ Moves(m, q, h, e)
          /\ FairLine(n, m, h, e) /\ FairLine(m, q, h, e) /\ SlotsAt(m, h, e) /\ SlotsAt(q, h, e)
      BY <2>2, <2>11 DEF WaiterSent
    <3> HIDE DEF Good
    <3> QED BY <1>2, <3>1, FairLineComposes
  <2>14. Room(q, e) = Room(f, e) - i
    BY <1>7, <2>2, <2>11 DEF WaiterSent
  <2>15. Before(q, h, e, "pooling") = Before(n, h, e, "pooling") \ FirstOnes(W, i)
    BY <2>2, <2>7, <2>11 DEF WaiterSent
  <2>16. \A v \in Requests : v \notin FirstOnes(W, i) => q.lease[v][e] = f.lease[v][e]
    BY <2>2, <2>7, <2>11 DEF WaiterSent
  <2>17. q.wait[e] = T
    BY <2>2, <2>11 DEF WaiterSent
  <2>18. Good(i, q)
    BY <2>11, <2>12, <2>13, <2>14, <2>15, <2>16, <2>17 DEF WaiterSent
  <2> HIDE DEF Good
  <2> QED BY <1>9, <2>8, <2>18
<1>22. PICK m : m = g[taken]
  OBVIOUS
<1>23. Good(taken, m)
  <2> HIDE DEF D
  <2>1. \A i \in 0 .. taken : i \in D
    BY <1>9, <1>20, <1>21, UpTo
  <2>2. taken \in D
    BY <1>9, <2>1
  <2> QED BY <1>22, <2>2 DEF D
<1>24. WaitAt(m, h, e)
  BY <1>1, <1>3, <1>11, <1>23 DEF WaitAt, Dropped
<1>25. NoIdleStreamAt(m, e)
  <2> SUFFICES ASSUME m.wait[e] # <<>> PROVE WithFreeStream(m, e) = {} /\ Unopened(m, e) = 0
    BY DEF NoIdleStreamAt
  <2>1. taken # Len(W)
    <3>1. CASE taken = Len(W)
      <4>1. T \in Seq(Requests) /\ Len(T) = 0
        BY <1>1, <1>11, <3>1 DEF Dropped
      <4>2. T = <<>>
        BY <4>1
      <4> QED BY <1>23, <4>2
    <3> QED BY <3>1
  <2>2. Room(m, e) = 0
    BY <1>7, <1>9, <1>23, <2>1
  <2>3. m \in Nets /\ PoolAt(m, e)
    BY <1>23
  <2> HIDE DEF Good
  <2> QED BY <2>2, <2>3, RoomIs
<1>26. FairWait(n, m, e)
  <2>1. \A w \in Requests : f.lease[w][e] # NoStream => n.lease[w][e] # NoStream
    BY <1>6
  <2> DEFINE X == {w \in Requests : n.lease[w][e] = NoStream /\ m.lease[w][e] # NoStream}
  <2>2. X \in SUBSET FirstOnes(W, taken)
    BY <1>23, <2>1
  <2> HIDE DEF X
  <2>3. FirstInFirstOut(W, T, X)
    BY <1>11, <2>2 DEF Dropped
  <2>4. m.wait[e] = T
    BY <1>23
  <2> QED BY <2>3, <2>4 DEF FairWait, X, W
<1>27. Sound(m, h, e, {})
  BY <1>23, <1>24, <1>25 DEF Sound
<1>28. Released(n, m, h, r, e)
  BY <1>23, <1>26, <1>27 DEF Released
<1> HIDE DEF Good
<1> QED BY <1>19, <1>22, <1>28

-----------------------------------------------------------------------------
(* Every stream given back, edge after edge.                                 *)

Owing(r, es, e, i) == IF e \in es /\ e > i THEN {r} ELSE {}

\* The edges from i on are as they were.
AsBefore(n, m, h, i) ==
  \A e \in Edges : e > i =>
    /\ m.wait[e] = n.wait[e] /\ m.line[e] = n.line[e]
    /\ \A w \in Requests : m.lease[w][e] = n.lease[w][e]
    /\ \A p : Before(m, h, e, p) = Before(n, h, e, p)

Onward(n, m) == \A w \in Requests : m.phase[w] = n.phase[w] \/ Later(n.phase[w], m.phase[w])

FairlyServed(n, m, h) == \A e \in Edges : FairLine(n, m, h, e) /\ FairWait(n, m, e)

\* The network once the streams of the first i edges are given back.
GivenBack(n, m, h, r, es, i) ==
  /\ m \in Nets /\ Onward(n, m) /\ FairlyServed(n, m, h) /\ AsBefore(n, m, h, i)
  /\ \A e \in Edges : Sound(m, h, e, Owing(r, es, e, i))

LEMMA FairAtFirst ==
  ASSUME NEW n \in Nets, NEW h, NEW e \in Edges, NEW owing, Sound(n, h, e, owing)
  PROVE  FairLine(n, n, h, e) /\ FairWait(n, n, e)
<1>1. /\ n.line[e] \in Seq(Requests) /\ IsInjective(n.line[e])
      /\ n.wait[e] \in Seq(Requests) /\ IsInjective(n.wait[e])
  BY NetsType DEF Sound, SlotsAt, WaitAt
<1>2. /\ Before(n, h, e, "flying") \ Before(n, h, e, "flying") = {}
      /\ {w \in Requests : n.lease[w][e] = NoStream /\ n.lease[w][e] # NoStream} = {}
  OBVIOUS
<1> QED BY <1>1, <1>2, FairIfUnchanged DEF FairLine, FairWait

\* One edge more.
LEMMA GiveBackOne ==
  ASSUME NEW lost, NEW n \in Nets, NEW m \in Nets, NEW r \in Requests, NEW h \in Hops,
         edge \in Topologies, NEW es \in SUBSET Edges, NEW i \in Edges,
         n.phase[r] \in {"served", "ended"}, \A e \in es : n.lease[r][e] # NoStream,
         GivenBack(n, m, h, r, es, i - 1)
  PROVE  GivenBack(n, ReleaseOne(lost, r, es, m, i), h, r, es, i)
<1>1. Edges = 1 .. Len(edge) /\ Len(edge) \in Nat
  BY ChainType
<1>2. /\ \A e \in Edges : e # i => Owing(r, es, e, i) = Owing(r, es, e, i - 1)
      /\ Owing(r, es, i, i) = {} /\ (i \in es => Owing(r, es, i, i - 1) = {r})
      /\ (i \notin es => Owing(r, es, i, i - 1) = {})
      /\ \A e \in Edges : e > i => e > i - 1 /\ e # i
      /\ i > i - 1
  BY <1>1 DEF Owing
<1>3. CASE i \notin es
  <2>1. ReleaseOne(lost, r, es, m, i) = m
    BY <1>3 DEF ReleaseOne
  <2>2. \A e \in Edges : Owing(r, es, e, i) = Owing(r, es, e, i - 1)
    BY <1>2, <1>3
  <2>3. AsBefore(n, m, h, i)
    BY <1>2 DEF GivenBack, AsBefore
  <2> QED BY <2>1, <2>2, <2>3 DEF GivenBack
<1>4. CASE i \in es
  <2>1. PICK q : q = Release(lost, m, r, i)
    OBVIOUS
  <2>2. ReleaseOne(lost, r, es, m, i) = q
    BY <1>4, <2>1 DEF ReleaseOne
  <2>3. /\ m.wait[i] = n.wait[i] /\ m.line[i] = n.line[i]
        /\ \A w \in Requests : m.lease[w][i] = n.lease[w][i]
        /\ \A p : Before(m, h, i, p) = Before(n, h, i, p)
    BY <1>2 DEF GivenBack, AsBefore
  <2>4. m.phase[r] \in {"served", "ended"}
    BY DEF GivenBack, Onward, Later
  <2>5. Released(m, q, h, r, i)
    <3>1. Sound(m, h, i, {r}) /\ m.lease[r][i] # NoStream
      BY <1>2, <1>4, <2>3 DEF GivenBack
    <3> QED BY <2>1, <2>4, <3>1, ReleaseStream
  <2>6. q \in Nets /\ Moves(m, q, h, i) /\ Sound(q, h, i, {}) /\ FairLine(m, q, h, i) /\ FairWait(m, q, i)
    BY <2>5 DEF Released
  <2>7. \A e \in Edges : e # i =>
           /\ \A p : Before(q, h, e, p) = Before(m, h, e, p)
           /\ Sound(q, h, e, Owing(r, es, e, i))
    <3> SUFFICES ASSUME NEW e \in Edges, e # i
                 PROVE  /\ \A p : Before(q, h, e, p) = Before(m, h, e, p)
                        /\ Sound(q, h, e, Owing(r, es, e, i))
      OBVIOUS
    <3>1. PICK owing : owing = Owing(r, es, e, i)
      OBVIOUS
    <3>2. Sound(m, h, e, owing)
      BY <1>2, <3>1 DEF GivenBack
    <3>3. (\A p : Before(q, h, e, p) = Before(m, h, e, p)) /\ Sound(q, h, e, owing)
      BY <2>6, <3>2, Elsewhere
    <3> QED BY <3>1, <3>3
  <2>8. \A e \in Edges : e # i =>
           /\ q.wait[e] = m.wait[e] /\ q.line[e] = m.line[e]
           /\ \A w \in Requests : q.lease[w][e] = m.lease[w][e]
    BY <2>6 DEF Moves
  <2>9. \A e \in Edges : Sound(q, h, e, Owing(r, es, e, i))
    BY <1>2, <2>6, <2>7
  <2>10. AsBefore(n, q, h, i)
    <3>1. AsBefore(n, m, h, i)
      BY <1>2 DEF GivenBack, AsBefore
    <3> SUFFICES ASSUME NEW e \in Edges, e > i
                 PROVE  /\ q.wait[e] = n.wait[e] /\ q.line[e] = n.line[e]
                        /\ \A w \in Requests : q.lease[w][e] = n.lease[w][e]
                        /\ \A p : Before(q, h, e, p) = Before(n, h, e, p)
      BY DEF AsBefore
    <3>2. e # i
      BY <1>2
    <3>3. /\ m.wait[e] = n.wait[e] /\ m.line[e] = n.line[e]
          /\ \A w \in Requests : m.lease[w][e] = n.lease[w][e]
          /\ \A p : Before(m, h, e, p) = Before(n, h, e, p)
      BY <3>1 DEF AsBefore
    <3> QED BY <2>7, <2>8, <3>2, <3>3
  <2>11. Onward(n, q)
    <3>1. \A w \in Requests : q.phase[w] = m.phase[w] \/ Later(m.phase[w], q.phase[w])
      BY <2>6 DEF Moves
    <3>2. \A w \in Requests : m.phase[w] = n.phase[w] \/ Later(n.phase[w], m.phase[w])
      BY DEF GivenBack, Onward
    <3> QED BY <3>1, <3>2 DEF Onward, Later
  <2>12. FairlyServed(n, q, h)
    <3> SUFFICES ASSUME NEW e \in Edges PROVE FairLine(n, q, h, e) /\ FairWait(n, q, e)
      BY DEF FairlyServed
    <3>1. CASE e = i
      BY <2>3, <2>6, <3>1 DEF FairLine, FairWait
    <3>2. CASE e # i
      <4>1. FairLine(n, m, h, e) /\ FairWait(n, m, e)
        BY DEF GivenBack, FairlyServed
      <4>2. /\ q.wait[e] = m.wait[e] /\ q.line[e] = m.line[e]
            /\ \A w \in Requests : q.lease[w][e] = m.lease[w][e]
            /\ Before(q, h, e, "flying") = Before(m, h, e, "flying")
        BY <2>7, <2>8, <3>2
      <4>3. {w \in Requests : n.lease[w][e] = NoStream /\ q.lease[w][e] # NoStream}
              = {w \in Requests : n.lease[w][e] = NoStream /\ m.lease[w][e] # NoStream}
        BY <4>2
      <4> QED BY <4>1, <4>2, <4>3 DEF FairLine, FairWait
    <3> QED BY <3>1, <3>2
  <2> QED BY <2>2, <2>6, <2>9, <2>10, <2>11, <2>12 DEF GivenBack
<1> QED BY <1>3, <1>4

LEMMA ReleaseLeases ==
  ASSUME NEW lost, NEW n \in Nets, NEW r \in Requests, NEW h \in Hops, edge \in Topologies,
         NEW es \in SUBSET Edges, n.phase[r] \in {"served", "ended"},
         \A e \in es : n.lease[r][e] # NoStream,
         \A e \in Edges : Sound(n, h, e, IF e \in es THEN {r} ELSE {})
  PROVE  LET m == ReleaseConnectionLeases(lost, n, r, es)
         IN  /\ m \in Nets /\ Onward(n, m) /\ FairlyServed(n, m, h)
             /\ \A e \in Edges : Sound(m, h, e, {})
<1>1. PICK N : N = Len(edge)
  OBVIOUS
<1>2. N \in Nat /\ Edges = 1 .. N
  BY <1>1, ChainType
<1>3. PICK s : s = [e \in Edges |-> e]
  OBVIOUS
<1>4. s \in Seq(Nat) /\ Len(s) = N /\ \A i \in 1 .. N : s[i] = i
  BY <1>2, <1>3
<1>5. PICK g : /\ g[0] = n
               /\ \A i \in 1 .. N : g[i] = Step("release", lost, r, es, g[i - 1], s[i])
               /\ Iterated("release", lost, r, es, n, s)[DOMAIN s] = g[N]
  BY <1>4, FoldTrace
<1>6. \A i \in 1 .. N : g[i] = ReleaseOne(lost, r, es, g[i - 1], i)
  BY <1>4, <1>5 DEF Step
<1>7. ReleaseConnectionLeases(lost, n, r, es) = g[N]
  BY <1>3, <1>5, ReleaseTrace
<1> DEFINE D == {i \in 0 .. N : GivenBack(n, g[i], h, r, es, i)}
<1>8. 0 \in D
  <2>1. \A e \in Edges : Owing(r, es, e, 0) = IF e \in es THEN {r} ELSE {}
    BY <1>2 DEF Owing
  <2>2. \A e \in Edges : Sound(n, h, e, Owing(r, es, e, 0))
    BY <2>1
  <2>3. FairlyServed(n, n, h)
    BY FairAtFirst DEF FairlyServed
  <2>4. Onward(n, n) /\ AsBefore(n, n, h, 0)
    BY DEF Onward, AsBefore
  <2> QED BY <1>2, <1>5, <2>2, <2>3, <2>4 DEF GivenBack
<1>9. ASSUME NEW i \in 1 .. N, i - 1 \in D PROVE i \in D
  <2>1. PICK m : m = g[i - 1]
    OBVIOUS
  <2>2. GivenBack(n, m, h, r, es, i - 1) /\ i \in Edges
    BY <1>2, <1>9, <2>1
  <2>3. m \in Nets
    BY <2>2 DEF GivenBack
  <2>4. PICK q : q = ReleaseOne(lost, r, es, m, i)
    OBVIOUS
  <2>5. GivenBack(n, q, h, r, es, i)
    BY <2>2, <2>3, <2>4, GiveBackOne
  <2>6. q = g[i]
    BY <1>6, <2>1, <2>4
  <2> QED BY <1>2, <2>5, <2>6
<1>10. PICK m : m = g[N]
  OBVIOUS
<1>11. GivenBack(n, m, h, r, es, N)
  <2> HIDE DEF D
  <2>1. \A i \in 0 .. N : i \in D
    BY <1>2, <1>8, <1>9, UpTo
  <2>2. N \in D
    BY <1>2, <2>1
  <2> QED BY <1>10, <2>2 DEF D
<1>12. \A e \in Edges : Owing(r, es, e, N) = {}
  BY <1>2 DEF Owing
<1>13. \A e \in Edges : Sound(m, h, e, {})
  BY <1>11, <1>12 DEF GivenBack
<1> QED BY <1>7, <1>10, <1>11, <1>13 DEF GivenBack

-----------------------------------------------------------------------------
(* A handler: the request it is about goes its way, and streams are given    *)
(* back. n is the network and h the places before, m and g those after.      *)

Bound(n, h) ==
  \A w \in Requests : n.phase[w] \in {"pooling", "lining", "flying", "refused"} => h[w] < Len(edge)

Whole(n, h) == n \in Nets /\ h \in Hops /\ Bound(n, h) /\ \A e \in Edges : Sound(n, h, e, {})

FairTo(n, h, m, g) ==
  \A e \in Edges :
    /\ FirstInFirstOut(n.line[e], m.line[e], Before(m, g, e, "flying") \ Before(n, h, e, "flying"))
    /\ FairWait(n, m, e)

\* What every step of the network comes to.
Follows(n, h, m, g) == Whole(m, g) /\ FairTo(n, h, m, g)

\* The others stay where they are; some may go on with what they wait for.
Others(n, h, m, g, r) ==
  \A w \in Requests : w # r =>
    g[w] = h[w] /\ (m.phase[w] = n.phase[w] \/ Later(n.phase[w], m.phase[w]))

\* The fair lines of an edge where nothing happens to them.
LEMMA FairIfSame ==
  ASSUME NEW n \in Nets, NEW h, NEW m, NEW g, NEW e \in Edges, Sound(n, h, e, {}),
         m.line[e] = n.line[e], Before(m, g, e, "flying") \subseteq Before(n, h, e, "flying")
  PROVE  FirstInFirstOut(n.line[e], m.line[e], Before(m, g, e, "flying") \ Before(n, h, e, "flying"))
<1>1. n.line[e] \in Seq(Requests) /\ IsInjective(n.line[e])
  BY NetsType DEF Sound, SlotsAt
<1>2. Before(m, g, e, "flying") \ Before(n, h, e, "flying") = {}
  OBVIOUS
<1> QED BY <1>1, <1>2, FairIfUnchanged

LEMMA FairWaitIfSame ==
  ASSUME NEW n \in Nets, NEW h, NEW m, NEW e \in Edges, Sound(n, h, e, {}), m.wait[e] = n.wait[e],
         \A w \in Requests : m.lease[w][e] # NoStream => n.lease[w][e] # NoStream
  PROVE  FairWait(n, m, e)
<1>1. n.wait[e] \in Seq(Requests) /\ IsInjective(n.wait[e])
  BY NetsType DEF Sound, WaitAt
<1>2. {w \in Requests : n.lease[w][e] = NoStream /\ m.lease[w][e] # NoStream} = {}
  OBVIOUS
<1> QED BY <1>1, <1>2, FairIfUnchanged DEF FairWait

\* The request is out of the way, and owes the streams of the edges es.
Ready(n, h, o, g, r, es) ==
  /\ o.phase[r] \in {"served", "ended"}
  /\ \A e \in es : o.lease[r][e] # NoStream
  /\ \A e \in Edges : Sound(o, g, e, IF e \in es THEN {r} ELSE {})
  /\ Bound(o, g) /\ FairTo(n, h, o, g) /\ Others(n, h, o, g, r)

LEMMA HandOver ==
  ASSUME NEW lost, NEW n, NEW h, NEW o \in Nets, NEW g \in Hops, edge \in Topologies, Whole(n, h),
         NEW r \in Requests, NEW es \in SUBSET Edges, Ready(n, h, o, g, r, es)
  PROVE  Follows(n, h, ReleaseConnectionLeases(lost, o, r, es), g)
<1>1. PICK m : m = ReleaseConnectionLeases(lost, o, r, es)
  OBVIOUS
<1>2. m \in Nets /\ Onward(o, m) /\ FairlyServed(o, m, g) /\ \A e \in Edges : Sound(m, g, e, {})
  BY <1>1, ReleaseLeases DEF Ready
<1>3. Bound(m, g)
  BY <1>2 DEF Ready, Bound, Onward, Later
<1>4. ASSUME NEW e \in Edges
      PROVE  /\ FirstInFirstOut(n.line[e], m.line[e], Before(m, g, e, "flying") \ Before(n, h, e, "flying"))
             /\ FairWait(n, m, e)
  <2>1. PICK owing : Sound(o, g, e, owing)
    BY DEF Ready
  <2>2. /\ Range(n.line[e]) = Before(n, h, e, "lining") /\ Range(o.line[e]) = Before(o, g, e, "lining")
        /\ Range(m.line[e]) = Before(m, g, e, "lining")
        /\ Range(n.wait[e]) = Before(n, h, e, "pooling") /\ Range(o.wait[e]) = Before(o, g, e, "pooling")
        /\ Range(m.wait[e]) = Before(m, g, e, "pooling")
    BY <1>2, <2>1 DEF Whole, Sound, SlotsAt, WaitAt
  <2>3. /\ n.line[e] \in Seq(Requests) /\ o.line[e] \in Seq(Requests) /\ m.line[e] \in Seq(Requests)
        /\ n.wait[e] \in Seq(Requests) /\ o.wait[e] \in Seq(Requests) /\ m.wait[e] \in Seq(Requests)
    BY <1>2, NetsType DEF Whole
  <2>4. Range(n.line[e]) \cap Range(m.line[e]) \subseteq Range(o.line[e])
    BY <1>2, <2>2 DEF Ready, Before, Onward, Others, Later
  <2>5. Range(n.wait[e]) \cap Range(m.wait[e]) \subseteq Range(o.wait[e])
    BY <1>2, <2>2 DEF Before, Onward, Later
  <2> DEFINE A == Before(o, g, e, "flying") \ Before(n, h, e, "flying")
             B == Before(m, g, e, "flying") \ Before(o, g, e, "flying")
             C == Before(m, g, e, "flying") \ Before(n, h, e, "flying")
             X == {w \in Requests : n.lease[w][e] = NoStream /\ o.lease[w][e] # NoStream}
             Y == {w \in Requests : o.lease[w][e] = NoStream /\ m.lease[w][e] # NoStream}
             Z == {w \in Requests : n.lease[w][e] = NoStream /\ m.lease[w][e] # NoStream}
  <2>6. C \subseteq A \cup B /\ Z \subseteq X \cup Y
    OBVIOUS
  <2> HIDE DEF A, B, C, X, Y, Z
  <2>7. FirstInFirstOut(n.line[e], o.line[e], A) /\ FirstInFirstOut(o.line[e], m.line[e], B)
    BY <1>2 DEF Ready, FairTo, FairlyServed, FairLine, A, B
  <2>8. FirstInFirstOut(n.wait[e], o.wait[e], X) /\ FirstInFirstOut(o.wait[e], m.wait[e], Y)
    BY <1>2 DEF Ready, FairTo, FairlyServed, FairWait, X, Y
  <2>9. FirstInFirstOut(n.line[e], m.line[e], C)
    <3>1. PICK s, t, u : s = n.line[e] /\ t = o.line[e] /\ u = m.line[e]
      OBVIOUS
    <3>2. s \in Seq(Requests) /\ t \in Seq(Requests) /\ u \in Seq(Requests)
      BY <2>3, <3>1
    <3>3. Range(s) \cap Range(u) \subseteq Range(t) /\ FirstInFirstOut(s, t, A) /\ FirstInFirstOut(t, u, B)
      BY <2>4, <2>7, <3>1
    <3>4. FirstInFirstOut(s, u, C)
      BY <2>6, <3>2, <3>3, FairnessComposes
    <3> QED BY <3>1, <3>4
  <2>10. FirstInFirstOut(n.wait[e], m.wait[e], Z)
    <3>1. PICK s, t, u : s = n.wait[e] /\ t = o.wait[e] /\ u = m.wait[e]
      OBVIOUS
    <3>2. s \in Seq(Requests) /\ t \in Seq(Requests) /\ u \in Seq(Requests)
      BY <2>3, <3>1
    <3>3. Range(s) \cap Range(u) \subseteq Range(t) /\ FirstInFirstOut(s, t, X) /\ FirstInFirstOut(t, u, Y)
      BY <2>5, <2>8, <3>1
    <3>4. FirstInFirstOut(s, u, Z)
      BY <2>6, <3>2, <3>3, FairnessComposes
    <3> QED BY <3>1, <3>4
  <2> QED BY <2>9, <2>10 DEF FairWait, C, Z
<1> QED BY <1>1, <1>2, <1>3, <1>4 DEF Follows, Whole, FairTo

\* An edge that only sees the request go, or come from elsewhere.
Same(n, o, e) ==
  /\ o.conns[e] = n.conns[e] /\ o.wait[e] = n.wait[e]
  /\ o.load[e] = n.load[e] /\ o.line[e] = n.line[e]
  /\ \A w \in Requests : o.lease[w][e] = n.lease[w][e]
Away(n, h, r, e) == \A p \in {"pooling", "lining", "flying"} : r \notin Before(n, h, e, p)
Apart(n, h, o, g, r) == \A w \in Requests : w # r => o.phase[w] = n.phase[w] /\ g[w] = h[w]
MayHold(o, g, r, e, owing) ==
  /\ ~Stands(o, g, r, e)
  /\ o.lease[r][e] # NoStream =>
       r \in owing \/ (o.phase[r] # "ended" /\ g[r] >= e /\ edge[e].paired)

LEMMA PoolIfSame ==
  ASSUME NEW n, NEW o, NEW e \in Edges, PoolAt(n, e), o.conns[e] = n.conns[e],
         \A w \in Requests : o.lease[w][e] = n.lease[w][e]
  PROVE  PoolAt(o, e) /\ WithFreeStream(o, e) = WithFreeStream(n, e) /\ Unopened(o, e) = Unopened(n, e)
<1>1. \A c : Lessees(o, e, c) = Lessees(n, e, c)
  BY DEF Lessees
<1>2. PoolAt(o, e)
  BY <1>1 DEF PoolAt
<1> QED BY <1>2 DEF WithFreeStream, Unopened

LEMMA UseIfApart ==
  ASSUME NEW n, NEW h, NEW o, NEW g, NEW r \in Requests, NEW e \in Edges, NEW owing,
         UseAt(n, h, e, {}), Apart(n, h, o, g, r), MayHold(o, g, r, e, owing),
         \A w \in Requests : o.lease[w][e] = n.lease[w][e]
  PROVE  UseAt(o, g, e, owing)
<1>1. \A w \in Requests : w # r => (Stands(o, g, w, e) <=> Stands(n, h, w, e))
  BY DEF Stands, Apart
<1> QED BY <1>1 DEF UseAt, MayHold, Apart

LEMMA Untouched ==
  ASSUME NEW n, NEW h, NEW o, NEW g, NEW r \in Requests, NEW e \in Edges, NEW owing,
         Sound(n, h, e, {}), Same(n, o, e), Apart(n, h, o, g, r),
         Away(n, h, r, e), Away(o, g, r, e), MayHold(o, g, r, e, owing)
  PROVE  Sound(o, g, e, owing) /\ Before(o, g, e, "flying") = Before(n, h, e, "flying")
<1>1. /\ Before(o, g, e, "pooling") = Before(n, h, e, "pooling")
      /\ Before(o, g, e, "lining") = Before(n, h, e, "lining")
      /\ Before(o, g, e, "flying") = Before(n, h, e, "flying")
  BY DEF Before, Apart, Away
<1>3. SlotsAt(o, g, e) /\ NoIdleSlotAt(o, e)
  BY <1>1 DEF Sound, SlotsAt, NoIdleSlotAt, Same
<1>4. WaitAt(o, g, e)
  BY <1>1 DEF Sound, WaitAt, Same
<1>5. PoolAt(o, e) /\ WithFreeStream(o, e) = WithFreeStream(n, e) /\ Unopened(o, e) = Unopened(n, e)
  BY PoolIfSame DEF Sound, Same
<1>6. NoIdleStreamAt(o, e)
  BY <1>5 DEF Sound, NoIdleStreamAt, Same
<1>7. UseAt(o, g, e, owing)
  BY UseIfApart DEF Sound, Same
<1> QED BY <1>1, <1>3, <1>4, <1>5, <1>6, <1>7 DEF Sound

OnlyPhase(n, o, r, p) ==
  /\ o \in Nets /\ o.conns = n.conns /\ o.wait = n.wait /\ o.lease = n.lease
  /\ o.load = n.load /\ o.line = n.line
  /\ o.phase[r] = p /\ \A w \in Requests : w # r => o.phase[w] = n.phase[w]

LEMMA PhaseSet ==
  ASSUME NEW n \in Nets, NEW r \in Requests, NEW p \in Phases
  PROVE  OnlyPhase(n, [n EXCEPT !.phase[r] = p], r, p)
<1>1. PICK o : o = [n EXCEPT !.phase[r] = p]
  OBVIOUS
<1>2. /\ o \in Nets /\ o.conns = n.conns /\ o.wait = n.wait /\ o.lease = n.lease
      /\ o.load = n.load /\ o.line = n.line /\ o.phase = [n.phase EXCEPT ![r] = p]
  BY <1>1 DEF Nets
<1>3. n.phase \in [Requests -> Phases]
  BY NetsType
<1> QED BY <1>1, <1>2, <1>3 DEF OnlyPhase

\* A request at a node, or refused on its edge, ends or goes back to a caller.
LEMMA LeavesNode ==
  ASSUME NEW n, NEW h, NEW g \in Hops, edge \in Topologies, Whole(n, h), NEW r \in Requests,
         n.phase[r] \in {"served", "refused"}, NEW p \in {"served", "ended"},
         \A w \in Requests : w # r => g[w] = h[w],
         NEW o, OnlyPhase(n, o, r, p), NEW es, es = Leased(o, r)
  PROVE  Ready(n, h, o, g, r, es)
<1>1. \A e \in Edges : Same(n, o, e) /\ Away(n, h, r, e) /\ Away(o, g, r, e)
  BY DEF OnlyPhase, Same, Away, Before
<1>2. Apart(n, h, o, g, r)
  BY DEF Apart, OnlyPhase
<1>3. \A e \in es : o.lease[r][e] # NoStream
  BY DEF Leased
<1>4. ASSUME NEW e \in Edges
      PROVE  /\ Sound(o, g, e, IF e \in es THEN {r} ELSE {})
             /\ Before(o, g, e, "flying") = Before(n, h, e, "flying")
  <2>1. PICK owing : owing = IF e \in es THEN {r} ELSE {}
    OBVIOUS
  <2>2. MayHold(o, g, r, e, owing)
    BY <2>1 DEF MayHold, Stands, OnlyPhase, Leased
  <2>3. Sound(n, h, e, {})
    BY DEF Whole
  <2> QED BY <1>1, <1>2, <2>1, <2>2, <2>3, Untouched
<1>5. Bound(o, g)
  BY DEF Bound, Whole, OnlyPhase
<1>6. FairTo(n, h, o, g)
  <2> SUFFICES ASSUME NEW e \in Edges
               PROVE  /\ FirstInFirstOut(n.line[e], o.line[e], Before(o, g, e, "flying") \ Before(n, h, e, "flying"))
                      /\ FairWait(n, o, e)
    BY DEF FairTo
  <2>1. n \in Nets /\ Sound(n, h, e, {}) /\ Before(o, g, e, "flying") = Before(n, h, e, "flying")
    BY <1>4 DEF Whole
  <2>2. o.line[e] = n.line[e] /\ o.wait[e] = n.wait[e] /\ o.lease = n.lease
    BY DEF OnlyPhase
  <2> QED BY <2>1, <2>2, FairIfSame, FairWaitIfSame
<1>7. Others(n, h, o, g, r)
  BY DEF Others, OnlyPhase
<1> QED BY <1>3, <1>4, <1>5, <1>6, <1>7 DEF Ready, OnlyPhase

\* A request leaves a line at its deadline.
LEMMA LeavesWait ==
  ASSUME NEW n, NEW h, edge \in Topologies, Whole(n, h), NEW r \in Requests, NEW e \in Edges,
         n.phase[r] = "pooling", h[r] + 1 = e,
         NEW q \in Nets, q.phase = n.phase /\ q.conns = n.conns /\ q.lease = n.lease,
         q.load = n.load /\ q.line = n.line,
         \A f \in Edges : f # e => q.wait[f] = n.wait[f],
         q.wait[e] = RemoveFirst(n.wait[e], r),
         NEW o, OnlyPhase(q, o, r, "ended"), NEW es, es = Leased(o, r)
  PROVE  Ready(n, h, o, h, r, es)
<1>1. /\ o \in Nets /\ o.conns = n.conns /\ o.lease = n.lease /\ o.load = n.load /\ o.line = n.line
      /\ o.phase[r] = "ended" /\ (\A w \in Requests : w # r => o.phase[w] = n.phase[w])
      /\ o.wait[e] = RemoveFirst(n.wait[e], r)
      /\ \A f \in Edges : f # e => o.wait[f] = n.wait[f]
  BY DEF OnlyPhase
<1>2. n \in Nets /\ h \in Hops /\ Bound(n, h) /\ \A f \in Edges : Sound(n, h, f, {})
  BY DEF Whole
<1>3. n.wait[e] \in Seq(Requests) /\ IsInjective(n.wait[e]) /\ Range(n.wait[e]) = Before(n, h, e, "pooling")
  BY <1>2, NetsType DEF Sound, WaitAt
<1>4. PICK t : t = RemoveFirst(n.wait[e], r)
  OBVIOUS
<1>5. /\ t \in Seq(Requests) /\ IsInjective(t) /\ Range(t) = Range(n.wait[e]) \ {r}
      /\ FirstInFirstOut(n.wait[e], t, {}) /\ Len(t) <= Len(n.wait[e])
  BY <1>3, <1>4, FairIfRemoved
<1>6. Apart(n, h, o, h, r)
  BY <1>1 DEF Apart
<1>7. \A f \in Edges : f # e => Same(n, o, f) /\ Away(n, h, r, f)
  BY <1>1 DEF Same, Away, Before
<1>8. \A f \in Edges : Away(o, h, r, f)
  BY <1>1 DEF Away, Before
<1>9. \A f \in Edges : MayHold(o, h, r, f, IF f \in es THEN {r} ELSE {})
  BY <1>1 DEF MayHold, Stands, Leased
<1>10. ASSUME NEW f \in Edges, f # e
       PROVE  /\ Sound(o, h, f, IF f \in es THEN {r} ELSE {})
              /\ Before(o, h, f, "flying") = Before(n, h, f, "flying")
  <2>1. PICK owing : owing = IF f \in es THEN {r} ELSE {}
    OBVIOUS
  <2>2. MayHold(o, h, r, f, owing)
    BY <1>9, <2>1
  <2>3. Sound(o, h, f, owing) /\ Before(o, h, f, "flying") = Before(n, h, f, "flying")
    BY <1>2, <1>6, <1>7, <1>8, <1>10, <2>2, Untouched
  <2> QED BY <2>1, <2>3
<1>11. /\ Before(o, h, e, "pooling") = Before(n, h, e, "pooling") \ {r}
       /\ Before(o, h, e, "lining") = Before(n, h, e, "lining")
       /\ Before(o, h, e, "flying") = Before(n, h, e, "flying")
  BY <1>1 DEF Before
<1>12. Sound(o, h, e, IF e \in es THEN {r} ELSE {})
  <2>1. PICK owing : owing = IF e \in es THEN {r} ELSE {}
    OBVIOUS
  <2>2. Sound(n, h, e, {})
    BY <1>2
  <2>3. SlotsAt(o, h, e) /\ NoIdleSlotAt(o, e)
    BY <1>1, <1>11, <2>2 DEF Sound, SlotsAt, NoIdleSlotAt
  <2>4. PoolAt(o, e) /\ WithFreeStream(o, e) = WithFreeStream(n, e) /\ Unopened(o, e) = Unopened(n, e)
    BY <1>1, <2>2, PoolIfSame DEF Sound
  <2>5. ~Pooled(e) => t = <<>>
    BY <1>3, <1>5, <2>2 DEF Sound, WaitAt
  <2>6. WaitAt(o, h, e)
    BY <1>1, <1>3, <1>4, <1>5, <1>11, <2>5 DEF WaitAt
  <2>7. t # <<>> => n.wait[e] # <<>>
    BY <1>3, <1>5
  <2>8. NoIdleStreamAt(o, e)
    BY <1>1, <1>4, <2>2, <2>4, <2>7 DEF Sound, NoIdleStreamAt
  <2>9. UseAt(o, h, e, owing)
    <3>1. MayHold(o, h, r, e, owing)
      BY <1>9, <2>1
    <3> QED BY <1>1, <1>6, <2>2, <3>1, UseIfApart DEF Sound
  <2> QED BY <2>1, <2>3, <2>4, <2>6, <2>8, <2>9 DEF Sound
<1>13. \A f \in Edges : Sound(o, h, f, IF f \in es THEN {r} ELSE {})
  BY <1>10, <1>12
<1>14. FairTo(n, h, o, h)
  <2> SUFFICES ASSUME NEW f \in Edges
               PROVE  /\ FirstInFirstOut(n.line[f], o.line[f], Before(o, h, f, "flying") \ Before(n, h, f, "flying"))
                      /\ FairWait(n, o, f)
    BY DEF FairTo
  <2>1. FirstInFirstOut(n.line[f], o.line[f], Before(o, h, f, "flying") \ Before(n, h, f, "flying"))
    <3>1. Before(o, h, f, "flying") = Before(n, h, f, "flying") /\ o.line[f] = n.line[f]
      BY <1>1, <1>10, <1>11
    <3> QED BY <1>2, <3>1, FairIfSame
  <2>2. CASE f # e
    BY <1>1, <1>2, <2>1, <2>2, FairWaitIfSame
  <2>3. CASE f = e
    <3>1. {w \in Requests : n.lease[w][e] = NoStream /\ o.lease[w][e] # NoStream} = {}
      BY <1>1
    <3> QED BY <1>1, <1>4, <1>5, <2>1, <2>3, <3>1 DEF FairWait
  <2> QED BY <2>2, <2>3
<1>15. Bound(o, h) /\ Others(n, h, o, h, r)
  BY <1>1, <1>2 DEF Bound, Others
<1>16. \A f \in es : o.lease[r][f] # NoStream
  BY DEF Leased
<1> QED BY <1>1, <1>13, <1>14, <1>15, <1>16 DEF Ready

LEMMA LeavesLine ==
  ASSUME NEW n, NEW h, edge \in Topologies, Whole(n, h), NEW r \in Requests, NEW e \in Edges,
         n.phase[r] = "lining", h[r] + 1 = e,
         NEW q \in Nets, q.phase = n.phase /\ q.conns = n.conns /\ q.lease = n.lease,
         q.load = n.load /\ q.wait = n.wait,
         \A f \in Edges : f # e => q.line[f] = n.line[f],
         q.line[e] = RemoveFirst(n.line[e], r),
         NEW o, OnlyPhase(q, o, r, "ended"), NEW es, es = Leased(o, r)
  PROVE  Ready(n, h, o, h, r, es)
<1>1. /\ o \in Nets /\ o.conns = n.conns /\ o.lease = n.lease /\ o.load = n.load /\ o.wait = n.wait
      /\ o.phase[r] = "ended" /\ (\A w \in Requests : w # r => o.phase[w] = n.phase[w])
      /\ o.line[e] = RemoveFirst(n.line[e], r)
      /\ \A f \in Edges : f # e => o.line[f] = n.line[f]
  BY DEF OnlyPhase
<1>2. n \in Nets /\ h \in Hops /\ Bound(n, h) /\ \A f \in Edges : Sound(n, h, f, {})
  BY DEF Whole
<1>3. n.line[e] \in Seq(Requests) /\ IsInjective(n.line[e]) /\ Range(n.line[e]) = Before(n, h, e, "lining")
  BY <1>2, NetsType DEF Sound, SlotsAt
<1>4. PICK t : t = RemoveFirst(n.line[e], r)
  OBVIOUS
<1>5. /\ t \in Seq(Requests) /\ IsInjective(t) /\ Range(t) = Range(n.line[e]) \ {r}
      /\ FirstInFirstOut(n.line[e], t, {}) /\ Len(t) <= Len(n.line[e])
  BY <1>3, <1>4, FairIfRemoved
<1>6. Apart(n, h, o, h, r)
  BY <1>1 DEF Apart
<1>7. \A f \in Edges : f # e => Same(n, o, f) /\ Away(n, h, r, f)
  BY <1>1 DEF Same, Away, Before
<1>8. \A f \in Edges : Away(o, h, r, f)
  BY <1>1 DEF Away, Before
<1>9. \A f \in Edges : MayHold(o, h, r, f, IF f \in es THEN {r} ELSE {})
  BY <1>1 DEF MayHold, Stands, Leased
<1>10. ASSUME NEW f \in Edges, f # e
       PROVE  /\ Sound(o, h, f, IF f \in es THEN {r} ELSE {})
              /\ Before(o, h, f, "flying") = Before(n, h, f, "flying")
  <2>1. PICK owing : owing = IF f \in es THEN {r} ELSE {}
    OBVIOUS
  <2>2. MayHold(o, h, r, f, owing)
    BY <1>9, <2>1
  <2>3. Sound(o, h, f, owing) /\ Before(o, h, f, "flying") = Before(n, h, f, "flying")
    BY <1>2, <1>6, <1>7, <1>8, <1>10, <2>2, Untouched
  <2> QED BY <2>1, <2>3
<1>11. /\ Before(o, h, e, "pooling") = Before(n, h, e, "pooling")
       /\ Before(o, h, e, "lining") = Before(n, h, e, "lining") \ {r}
       /\ Before(o, h, e, "flying") = Before(n, h, e, "flying")
  BY <1>1 DEF Before
<1>12. Sound(o, h, e, IF e \in es THEN {r} ELSE {})
  <2>1. PICK owing : owing = IF e \in es THEN {r} ELSE {}
    OBVIOUS
  <2>2. Sound(n, h, e, {})
    BY <1>2
  <2>3. Len(t) <= edge[e].slots
    <3>1. edge[e].slots \in Nat /\ Len(n.line[e]) <= edge[e].slots /\ Len(n.line[e]) \in Nat /\ Len(t) \in Nat
      BY <1>3, <1>5, <2>2, ChainType DEF Sound, SlotsAt
    <3> QED BY <1>5, <3>1
  <2>4. t # <<>> => n.line[e] # <<>>
    BY <1>3, <1>5
  <2>5. SlotsAt(o, h, e) /\ NoIdleSlotAt(o, e)
    BY <1>1, <1>3, <1>4, <1>5, <1>11, <2>2, <2>3, <2>4 DEF Sound, SlotsAt, NoIdleSlotAt
  <2>6. PoolAt(o, e) /\ WithFreeStream(o, e) = WithFreeStream(n, e) /\ Unopened(o, e) = Unopened(n, e)
    BY <1>1, <2>2, PoolIfSame DEF Sound
  <2>7. WaitAt(o, h, e)
    BY <1>1, <1>11, <2>2 DEF Sound, WaitAt
  <2>8. NoIdleStreamAt(o, e)
    BY <1>1, <2>2, <2>6 DEF Sound, NoIdleStreamAt
  <2>9. UseAt(o, h, e, owing)
    <3>1. MayHold(o, h, r, e, owing)
      BY <1>9, <2>1
    <3> QED BY <1>1, <1>6, <2>2, <3>1, UseIfApart DEF Sound
  <2> QED BY <2>1, <2>5, <2>6, <2>7, <2>8, <2>9 DEF Sound
<1>13. \A f \in Edges : Sound(o, h, f, IF f \in es THEN {r} ELSE {})
  BY <1>10, <1>12
<1>14. FairTo(n, h, o, h)
  <2> SUFFICES ASSUME NEW f \in Edges
               PROVE  /\ FirstInFirstOut(n.line[f], o.line[f], Before(o, h, f, "flying") \ Before(n, h, f, "flying"))
                      /\ FairWait(n, o, f)
    BY DEF FairTo
  <2>1. FairWait(n, o, f)
    BY <1>1, <1>2, FairWaitIfSame
  <2>2. CASE f # e
    BY <1>1, <1>2, <1>10, <2>1, <2>2, FairIfSame
  <2>3. CASE f = e
    <3>1. Before(o, h, e, "flying") \ Before(n, h, e, "flying") = {}
      BY <1>11
    <3> QED BY <1>1, <1>4, <1>5, <2>1, <2>3, <3>1
  <2> QED BY <2>2, <2>3
<1>15. Bound(o, h) /\ Others(n, h, o, h, r)
  BY <1>1, <1>2 DEF Bound, Others
<1>16. \A f \in es : o.lease[r][f] # NoStream
  BY DEF Leased
<1> QED BY <1>1, <1>13, <1>14, <1>15, <1>16 DEF Ready

\* A transfer ends, delivered or at its deadline: its slot goes to those in line.
FlightOver(n, h, q, g, r, p) ==
  /\ q \in Nets /\ q.phase[r] = p /\ q.lease = n.lease
  /\ Bound(q, g) /\ FairTo(n, h, q, g) /\ Others(n, h, q, g, r)
  /\ \A f \in Edges, owing \in SUBSET {r} : MayHold(q, g, r, f, owing) => Sound(q, g, f, owing)

LEMMA LeavesFlight ==
  ASSUME NEW lost, NEW n, NEW h, NEW g \in Hops, edge \in Topologies, Whole(n, h),
         NEW r \in Requests, NEW e \in Edges, n.phase[r] = "flying", h[r] + 1 = e,
         NEW p \in {"served", "ended"}, \A w \in Requests : w # r => g[w] = h[w],
         NEW o, OnlyPhase(n, o, r, p)
  PROVE  FlightOver(n, h, ReleaseEdgeTransfer(lost, o, e), g, r, p)
<1>1. /\ o \in Nets /\ o.conns = n.conns /\ o.lease = n.lease /\ o.load = n.load
      /\ o.line = n.line /\ o.wait = n.wait
      /\ o.phase[r] = p /\ (\A w \in Requests : w # r => o.phase[w] = n.phase[w])
  BY DEF OnlyPhase
<1>2. n \in Nets /\ h \in Hops /\ Bound(n, h) /\ \A f \in Edges : Sound(n, h, f, {})
  BY DEF Whole
<1>3. /\ Before(o, g, e, "pooling") = Before(n, h, e, "pooling")
      /\ Before(o, g, e, "lining") = Before(n, h, e, "lining")
      /\ Before(o, g, e, "flying") = Before(n, h, e, "flying") \ {r}
  BY <1>1 DEF Before
<1>4. /\ o.load[e] = Cardinality(Before(o, g, e, "flying")) + 1 /\ o.load[e] <= edge[e].slots
      /\ IsInjective(o.line[e]) /\ Range(o.line[e]) = Before(o, g, e, "lining")
      /\ Len(o.line[e]) <= edge[e].slots
  <2>1. SlotsAt(n, h, e)
    BY <1>2 DEF Sound
  <2>2. Before(n, h, e, "flying") \in SUBSET Requests /\ r \in Before(n, h, e, "flying")
    BY DEF Before
  <2>3. /\ Cardinality(Before(n, h, e, "flying") \ {r}) = Cardinality(Before(n, h, e, "flying")) - 1
        /\ Cardinality(Before(n, h, e, "flying")) \in Nat
    BY <2>2, Counted
  <2>4. n.load[e] = Cardinality(Before(n, h, e, "flying")) /\ n.load[e] <= edge[e].slots
    BY <2>1 DEF SlotsAt
  <2>5. n.load[e] = Cardinality(Before(n, h, e, "flying") \ {r}) + 1
    BY <2>3, <2>4
  <2>6. /\ IsInjective(n.line[e]) /\ Range(n.line[e]) = Before(n, h, e, "lining")
        /\ Len(n.line[e]) <= edge[e].slots
    BY <2>1 DEF SlotsAt
  <2> QED BY <1>1, <1>3, <2>4, <2>5, <2>6
<1>5. PICK q : q = ReleaseEdgeTransfer(lost, o, e)
  OBVIOUS
<1>6. Admitted(o, q, g, e)
  BY <1>1, <1>4, <1>5, ReleaseSlots
<1>7. /\ q \in Nets /\ Moves(o, q, g, e) /\ SlotsAt(q, g, e) /\ NoIdleSlotAt(q, e)
      /\ FairLine(o, q, g, e) /\ Before(q, g, e, "pooling") = Before(o, g, e, "pooling")
      /\ q.conns = n.conns /\ q.wait = n.wait /\ q.lease = n.lease
  BY <1>1, <1>6 DEF Admitted, KeepsPools
<1>8. q.phase[r] = p
  BY <1>1, <1>7 DEF Moves, Later
<1>9. \A w \in Requests : w # r => q.phase[w] = n.phase[w] \/ (g[w] + 1 = e /\ Later(n.phase[w], q.phase[w]))
  BY <1>1, <1>7 DEF Moves
<1>10. Apart(n, h, o, g, r)
  BY <1>1 DEF Apart
<1>11. ASSUME NEW f \in Edges, f # e, NEW owing, MayHold(q, g, r, f, owing)
       PROVE  /\ Sound(q, g, f, owing)
              /\ Before(q, g, f, "flying") = Before(n, h, f, "flying")
              /\ q.line[f] = n.line[f]
  <2>1. MayHold(o, g, r, f, owing)
    BY <1>1, <1>7, <1>8, <1>11 DEF MayHold, Stands
  <2>2. Same(n, o, f) /\ Away(n, h, r, f) /\ Away(o, g, r, f)
    BY <1>1, <1>11 DEF Same, Away, Before
  <2>3. Sound(o, g, f, owing) /\ Before(o, g, f, "flying") = Before(n, h, f, "flying")
    BY <1>2, <1>10, <2>1, <2>2, Untouched
  <2>4. (\A k : Before(q, g, f, k) = Before(o, g, f, k)) /\ Sound(q, g, f, owing)
    BY <1>7, <1>11, <2>3, Elsewhere
  <2>5. q.line[f] = o.line[f]
    BY <1>7, <1>11 DEF Moves
  <2> QED BY <1>1, <2>3, <2>4, <2>5
<1>12. ASSUME NEW owing, MayHold(q, g, r, e, owing) PROVE Sound(q, g, e, owing)
  <2>1. Sound(n, h, e, {})
    BY <1>2
  <2>2. PoolAt(q, e) /\ WithFreeStream(q, e) = WithFreeStream(n, e) /\ Unopened(q, e) = Unopened(n, e)
    BY <1>7, <2>1, PoolIfSame DEF Sound
  <2>3. WaitAt(q, g, e)
    BY <1>3, <1>7, <2>1 DEF Sound, WaitAt
  <2>4. NoIdleStreamAt(q, e)
    BY <1>7, <2>1, <2>2 DEF Sound, NoIdleStreamAt
  <2>5. \A w \in Requests : w # r => q.phase[w] = n.phase[w] \/ (n.phase[w] = "lining" /\ q.phase[w] \in {"flying", "refused"})
    <3> TAKE w \in Requests
    <3> HAVE w # r
    <3>1. CASE g[w] + 1 = e /\ n.phase[w] = "pooling"
      <4>1. w \in Before(o, g, e, "pooling")
        BY <1>1, <3>1 DEF Before
      <4>2. q.phase[w] = "pooling"
        BY <1>7, <4>1 DEF Before
      <4> QED BY <3>1, <4>2
    <3> QED BY <1>9, <3>1 DEF Later
  <2>6. \A w \in Requests : w # r => (Stands(q, g, w, e) <=> Stands(n, h, w, e))
    BY <2>5 DEF Stands
  <2>7. \A w \in Requests : w # r => (n.phase[w] # "ended" => q.phase[w] # "ended")
    BY <2>5
  <2>8. UseAt(q, g, e, owing)
    BY <1>7, <1>12, <2>1, <2>6, <2>7 DEF Sound, UseAt, MayHold
  <2> QED BY <1>7, <2>2, <2>3, <2>4, <2>8 DEF Sound
<1>13. \A f \in Edges, owing \in SUBSET {r} : MayHold(q, g, r, f, owing) => Sound(q, g, f, owing)
  BY <1>11, <1>12
<1>14. Bound(q, g)
  BY <1>2, <1>8, <1>9 DEF Bound, Later
<1>15. Others(n, h, q, g, r)
  BY <1>9 DEF Others
<1>16. FairTo(n, h, q, g)
  <2> SUFFICES ASSUME NEW f \in Edges
               PROVE  /\ FirstInFirstOut(n.line[f], q.line[f], Before(q, g, f, "flying") \ Before(n, h, f, "flying"))
                      /\ FairWait(n, q, f)
    BY DEF FairTo
  <2>1. FairWait(n, q, f)
    BY <1>2, <1>7, FairWaitIfSame
  <2>2. CASE f # e
    <3>1. MayHold(q, g, r, f, {r})
      BY <1>8 DEF MayHold, Stands
    <3>2. q.line[f] = n.line[f] /\ Before(q, g, f, "flying") = Before(n, h, f, "flying")
      BY <1>11, <2>2, <3>1
    <3> QED BY <1>2, <2>1, <3>2, FairIfSame
  <2>3. CASE f = e
    <3>1. r \notin Before(q, g, e, "flying")
      BY <1>8 DEF Before
    <3>2. Before(q, g, e, "flying") \ Before(n, h, e, "flying") = Before(q, g, e, "flying") \ Before(o, g, e, "flying")
      BY <1>3, <3>1
    <3> QED BY <1>1, <1>7, <2>1, <2>3, <3>2 DEF FairLine
  <2> QED BY <2>2, <2>3
<1> QED BY <1>5, <1>7, <1>8, <1>13, <1>14, <1>15, <1>16 DEF FlightOver

\* A request is sent on: what the edges that it is not sent on see.
SentOn(n, q, r, e) ==
  /\ q \in Nets /\ q.phase[r] \in {"pooling", "lining", "flying", "refused"}
  /\ \A w \in Requests : w # r => q.phase[w] = n.phase[w]
  /\ \A f \in Edges : f # e => Same(n, q, f)

LEMMA Sending ==
  ASSUME NEW n, NEW h, edge \in Topologies, Whole(n, h), NEW r \in Requests, NEW e \in Edges,
         n.phase[r] = "served", h[r] + 1 = e, NEW q, SentOn(n, q, r, e), Sound(q, h, e, {}),
         FirstInFirstOut(n.line[e], q.line[e], Before(q, h, e, "flying") \ Before(n, h, e, "flying")),
         FairWait(n, q, e)
  PROVE  Follows(n, h, q, h)
<1>1. n \in Nets /\ h \in Hops /\ Bound(n, h) /\ \A f \in Edges : Sound(n, h, f, {})
  BY DEF Whole
<1>2. Apart(n, h, q, h, r)
  BY DEF Apart, SentOn
<1>3. ASSUME NEW f \in Edges, f # e
      PROVE  Sound(q, h, f, {}) /\ Before(q, h, f, "flying") = Before(n, h, f, "flying") /\ Same(n, q, f)
  <2>1. Same(n, q, f) /\ Away(n, h, r, f) /\ Away(q, h, r, f)
    BY <1>3 DEF SentOn, Away, Before
  <2>2. MayHold(q, h, r, f, {})
    <3>1. UseAt(n, h, f, {}) /\ ~Stands(n, h, r, f) /\ q.phase[r] # "ended" /\ ~Stands(q, h, r, f)
      BY <1>1, <1>3 DEF Sound, Stands, SentOn
    <3> QED BY <2>1, <3>1 DEF MayHold, UseAt, Same
  <2> QED BY <1>1, <1>2, <2>1, <2>2, Untouched
<1>4. Bound(q, h)
  <2>1. h[r] < Len(edge)
    <3>1. Edges = 1 .. Len(edge) /\ Len(edge) \in Nat /\ h[r] \in Nodes
      BY <1>1, ChainType DEF Hops
    <3> QED BY <3>1 DEF Nodes
  <2> QED BY <1>1, <2>1 DEF Bound, SentOn
<1>5. Whole(q, h)
  BY <1>1, <1>3, <1>4 DEF Whole, SentOn
<1>6. FairTo(n, h, q, h)
  <2> SUFFICES ASSUME NEW f \in Edges, f # e
               PROVE  /\ FirstInFirstOut(n.line[f], q.line[f], Before(q, h, f, "flying") \ Before(n, h, f, "flying"))
                      /\ FairWait(n, q, f)
    BY DEF FairTo
  <2>1. /\ q.line[f] = n.line[f] /\ q.wait[f] = n.wait[f]
        /\ \A w \in Requests : q.lease[w][f] # NoStream => n.lease[w][f] # NoStream
    BY <1>3 DEF Same
  <2> QED BY <1>1, <1>3, <2>1, FairIfSame, FairWaitIfSame
<1> QED BY <1>5, <1>6 DEF Follows

LEMMA NoLeaseYet ==
  ASSUME NEW n, NEW h, edge \in Topologies, Whole(n, h), NEW r \in Requests, NEW e \in Edges,
         n.phase[r] = "served", h[r] + 1 = e
  PROVE  n.lease[r][e] = NoStream
<1>1. UseAt(n, h, e, {})
  BY DEF Whole, Sound
<1>2. ~(h[r] >= e)
  <2>1. h[r] \in 0 .. Len(edge) /\ Len(edge) \in Nat
    BY ChainType DEF Whole, Hops, Nodes
  <2> QED BY <2>1
<1> QED BY <1>1, <1>2 DEF UseAt, Stands

\* On an edge without a pool it goes for a slot at once.
LEMMA SendsOnPlain ==
  ASSUME NEW lost, NEW n, NEW h, edge \in Topologies, Whole(n, h), NEW r \in Requests,
         NEW e \in Edges, n.phase[r] = "served", h[r] + 1 = e, ~Pooled(e)
  PROVE  Follows(n, h, DispatchEdgeTransfer(lost, n, r, e), h)
<1>1. n \in Nets /\ h \in Hops /\ Sound(n, h, e, {})
  BY DEF Whole
<1>2. PICK q : q = DispatchEdgeTransfer(lost, n, r, e)
  OBVIOUS
<1>3. Dispatched(n, q, h, r, e)
  <2>1. SlotsAt(n, h, e) /\ NoIdleSlotAt(n, e) /\ n.phase[r] \in {"served", "pooling"}
    BY <1>1 DEF Sound
  <2> QED BY <1>1, <1>2, <2>1, DispatchSlots
<1>4. /\ q \in Nets /\ q.conns = n.conns /\ q.wait = n.wait /\ q.lease = n.lease
      /\ \A f \in Edges : f # e => q.load[f] = n.load[f] /\ q.line[f] = n.line[f]
      /\ SlotsAt(q, h, e) /\ NoIdleSlotAt(q, e) /\ FairLine(n, q, h, e)
  BY <1>3 DEF Dispatched, KeepsPools
<1>5. PICK p \in {"lining", "flying", "refused"} : q.phase = [n.phase EXCEPT ![r] = p]
  BY <1>3 DEF Dispatched
<1>6. q.phase[r] = p /\ \A w \in Requests : w # r => q.phase[w] = n.phase[w]
  BY <1>1, <1>5, NetsType
<1>7. SentOn(n, q, r, e)
  BY <1>4, <1>6 DEF SentOn, Same
<1>8. Sound(q, h, e, {})
  <2>1. PoolAt(q, e) /\ WithFreeStream(q, e) = WithFreeStream(n, e) /\ Unopened(q, e) = Unopened(n, e)
    BY <1>1, <1>4, PoolIfSame DEF Sound
  <2>2. Before(q, h, e, "pooling") = Before(n, h, e, "pooling")
    BY <1>6 DEF Before
  <2>3. WaitAt(q, h, e)
    BY <1>1, <1>4, <2>2 DEF Sound, WaitAt
  <2>4. NoIdleStreamAt(q, e)
    BY DEF NoIdleStreamAt
  <2>5. UseAt(q, h, e, {})
    BY <2>1 DEF UseAt, PoolAt
  <2> QED BY <1>4, <2>1, <2>3, <2>4, <2>5 DEF Sound
<1>9. FairWait(n, q, e)
  BY <1>1, <1>4, FairWaitIfSame
<1>10. FirstInFirstOut(n.line[e], q.line[e], Before(q, h, e, "flying") \ Before(n, h, e, "flying"))
  BY <1>4 DEF FairLine
<1> QED BY <1>2, <1>7, <1>8, <1>9, <1>10, Sending

\* On an edge with one it takes a stream, or waits for one.
LEMMA SendsOnPooled ==
  ASSUME NEW lost, NEW n, NEW h, edge \in Topologies, Whole(n, h), NEW r \in Requests,
         NEW e \in Edges, n.phase[r] = "served", h[r] + 1 = e, Pooled(e),
         NEW X \in SUBSET Idle(n, e), edge[e].reuse # "keep-alive" => X = {}
  PROVE  Follows(n, h, AcquireConnectionAndDispatch(lost, CloseIdle(n, e, X), r, e, FALSE), h)
<1>1. /\ n \in Nets /\ h \in Hops /\ Sound(n, h, e, {})
      /\ SlotsAt(n, h, e) /\ NoIdleSlotAt(n, e) /\ PoolAt(n, e) /\ WaitAt(n, h, e)
      /\ UseAt(n, h, e, {}) /\ NoIdleStreamAt(n, e)
  BY DEF Whole, Sound
<1>2. PICK o : o = CloseIdle(n, e, X)
  OBVIOUS
<1>3. Closed(n, o, e) /\ (X = {} => o.conns = n.conns)
  BY <1>1, <1>2, CloseIdleKeeps
<1>4. /\ o \in Nets /\ o.phase = n.phase /\ o.wait = n.wait /\ o.load = n.load /\ o.line = n.line
      /\ o.lease = n.lease /\ PoolAt(o, e) /\ \A f \in Edges : f # e => o.conns[f] = n.conns[f]
  BY <1>3 DEF Closed, OnlyPool
<1>5. \A p : Before(o, h, e, p) = Before(n, h, e, p)
  BY <1>4 DEF Before
<1>6. SlotsAt(o, h, e) /\ NoIdleSlotAt(o, e)
  BY <1>1, <1>4, <1>5 DEF SlotsAt, NoIdleSlotAt
<1>7. NoIdleStreamAt(o, e)
  <2> SUFFICES ASSUME n.wait[e] # <<>> PROVE WithFreeStream(o, e) = {} /\ Unopened(o, e) = 0
    BY <1>4 DEF NoIdleStreamAt
  <2>1. WithFreeStream(n, e) = {} /\ Unopened(n, e) = 0
    BY <1>1 DEF NoIdleStreamAt
  <2>2. edge[e].reuse = "keep-alive" => Idle(n, e) = {}
    <3>1. edge[e].streams > 0
      BY ChainType
    <3> QED BY <2>1, <3>1 DEF WithFreeStream, Idle
  <2>3. X = {}
    BY <2>2
  <2>4. o.conns = n.conns
    BY <1>3, <2>3
  <2> QED BY <2>1, <2>4 DEF WithFreeStream, Unopened
<1>8. o.lease[r][e] = NoStream
  BY <1>4, NoLeaseYet
<1>9. PICK q : q = AcquireConnectionAndDispatch(lost, o, r, e, FALSE)
  OBVIOUS
<1>10. CASE ~(WithFreeStream(o, e) = {} /\ Unopened(o, e) <= 0)
  <2>1. Sent(o, q, h, r, e)
    <3>1. o.phase[r] \in {"served", "pooling"}
      BY <1>4
    <3> QED BY <1>4, <1>6, <1>8, <1>9, <1>10, <3>1, AcquireSends
  <2>2. /\ q \in Nets /\ q.wait = o.wait /\ PoolAt(q, e) /\ SlotsAt(q, h, e) /\ NoIdleSlotAt(q, e)
        /\ FairLine(o, q, h, e) /\ q.lease[r][e] # NoStream
        /\ (\A w \in Requests : w # r => q.lease[w][e] = o.lease[w][e])
        /\ \A f \in Edges : f # e =>
             /\ q.conns[f] = o.conns[f] /\ q.load[f] = o.load[f] /\ q.line[f] = o.line[f]
             /\ \A w \in Requests : q.lease[w][f] = o.lease[w][f]
    BY <2>1 DEF Sent
  <2>3. PICK p \in {"lining", "flying", "refused"} : q.phase = [o.phase EXCEPT ![r] = p]
    BY <2>1 DEF Sent
  <2>4. q.phase[r] = p /\ \A w \in Requests : w # r => q.phase[w] = n.phase[w]
    BY <1>4, <2>3, NetsType
  <2>5. SentOn(n, q, r, e)
    BY <1>4, <2>2, <2>4 DEF SentOn, Same
  <2>6. q.wait[e] = <<>> /\ n.wait[e] = <<>>
    <3>1. Unopened(o, e) = 0 => Unopened(o, e) <= 0
      OBVIOUS
    <3> QED BY <1>4, <1>7, <1>10, <2>2, <3>1 DEF NoIdleStreamAt
  <2>7. UseAt(q, h, e, {})
    <3>1. Stands(q, h, r, e)
      BY <2>4 DEF Stands
    <3>2. \A w \in Requests : w # r => (Stands(q, h, w, e) <=> Stands(n, h, w, e))
      BY <2>4 DEF Stands
    <3> QED BY <1>1, <1>4, <2>2, <2>4, <3>1, <3>2 DEF UseAt
  <2>8. WaitAt(q, h, e)
    <3>1. Before(q, h, e, "pooling") = Before(n, h, e, "pooling")
      BY <2>4 DEF Before
    <3> QED BY <1>1, <2>6, <3>1 DEF WaitAt
  <2>9. Sound(q, h, e, {})
    BY <2>2, <2>6, <2>7, <2>8 DEF Sound, NoIdleStreamAt
  <2>10. FairWait(n, q, e)
    BY <2>6, FairIfEmpty DEF FairWait
  <2>11. FirstInFirstOut(n.line[e], q.line[e], Before(q, h, e, "flying") \ Before(n, h, e, "flying"))
    BY <1>4, <1>5, <2>2 DEF FairLine
  <2> QED BY <1>2, <1>9, <2>5, <2>9, <2>10, <2>11, Sending
<1>11. CASE WithFreeStream(o, e) = {} /\ Unopened(o, e) <= 0
  <2>1. Unopened(o, e) = 0
    <3>1. Unopened(o, e) \in Nat
      BY <1>4, Connections
    <3> QED BY <1>11, <3>1
  <2>2. /\ n.wait[e] \in Seq(Requests) /\ IsInjective(n.wait[e]) /\ n.wait \in [Edges -> Seq(Requests)]
        /\ Range(n.wait[e]) = Before(n, h, e, "pooling") /\ r \notin Range(n.wait[e])
    BY <1>1, NetsType DEF WaitAt, Before
  <2>3. PICK t : t = Append(n.wait[e], r)
    OBVIOUS
  <2>4. /\ t \in Seq(Requests) /\ IsInjective(t) /\ Range(t) = Range(n.wait[e]) \cup {r}
        /\ FirstInFirstOut(n.wait[e], t, {})
    BY <2>2, <2>3, FairIfJoined
  <2>5. q = [o EXCEPT !.phase[r] = "pooling", !.wait[e] = t]
    <3>1. q = EnqueueWaiter(o, r, e, FALSE)
      BY <1>9, <1>11 DEF AcquireConnectionAndDispatch
    <3>2. o.wait[e] = n.wait[e]
      BY <1>4
    <3> QED BY <2>3, <3>1, <3>2 DEF EnqueueWaiter
  <2>6. /\ q \in Nets /\ q.conns = o.conns /\ q.lease = o.lease /\ q.load = o.load /\ q.line = o.line
        /\ q.phase = [o.phase EXCEPT ![r] = "pooling"] /\ q.wait = [o.wait EXCEPT ![e] = t]
    BY <1>4, <2>4, <2>5 DEF Nets, Phases
  <2>7. q.phase[r] = "pooling" /\ \A w \in Requests : w # r => q.phase[w] = n.phase[w]
    BY <1>4, <2>6, NetsType
  <2>8. q.wait[e] = t /\ \A f \in Edges : f # e => q.wait[f] = n.wait[f]
    BY <1>4, <2>2, <2>6
  <2>9. SentOn(n, q, r, e)
    BY <1>4, <2>6, <2>7, <2>8 DEF SentOn, Same
  <2>10. /\ Before(q, h, e, "pooling") = Before(n, h, e, "pooling") \cup {r}
         /\ Before(q, h, e, "lining") = Before(n, h, e, "lining")
         /\ Before(q, h, e, "flying") = Before(n, h, e, "flying")
    BY <2>7 DEF Before
  <2>11. SlotsAt(q, h, e) /\ NoIdleSlotAt(q, e)
    BY <1>1, <1>4, <2>6, <2>10 DEF SlotsAt, NoIdleSlotAt
  <2>12. PoolAt(q, e) /\ WithFreeStream(q, e) = WithFreeStream(o, e) /\ Unopened(q, e) = Unopened(o, e)
    BY <1>4, <2>6, PoolIfSame
  <2>13. NoIdleStreamAt(q, e)
    BY <1>11, <2>1, <2>12 DEF NoIdleStreamAt
  <2>14. WaitAt(q, h, e)
    BY <2>2, <2>4, <2>8, <2>10 DEF WaitAt
  <2>15. UseAt(q, h, e, {})
    <3>1. \A w \in Requests : w # r => (Stands(q, h, w, e) <=> Stands(n, h, w, e))
      BY <2>7 DEF Stands
    <3>2. ~Stands(q, h, r, e) /\ q.lease[r][e] = NoStream /\ q.lease = n.lease
      BY <1>4, <1>8, <2>6, <2>7 DEF Stands
    <3> QED BY <1>1, <2>7, <3>1, <3>2 DEF UseAt
  <2>16. Sound(q, h, e, {})
    BY <2>11, <2>12, <2>13, <2>14, <2>15 DEF Sound
  <2>17. FairWait(n, q, e)
    <3>1. {w \in Requests : n.lease[w][e] = NoStream /\ q.lease[w][e] # NoStream} = {}
      BY <1>4, <2>6
    <3> QED BY <2>4, <2>8, <3>1 DEF FairWait
  <2>18. FirstInFirstOut(n.line[e], q.line[e], Before(q, h, e, "flying") \ Before(n, h, e, "flying"))
    <3>1. q.line[e] = n.line[e]
      BY <1>4, <2>6
    <3> QED BY <1>1, <2>10, <3>1, FairIfSame
  <2> QED BY <1>2, <1>9, <2>9, <2>16, <2>17, <2>18, Sending
<1> QED BY <1>10, <1>11

-----------------------------------------------------------------------------
(* The invariant, and what every step does to the lines.                     *)

IInv ==
  /\ edge \in Topologies /\ retries \in [Requests -> [Nodes -> Nat]]
  /\ Whole(net, hop)

FairStep ==
  \A e \in Edges :
    /\ FirstInFirstOut(net.wait[e], net'.wait[e],
         {r \in Requests : net.lease[r][e] = NoStream /\ net'.lease[r][e] # NoStream})
    /\ FirstInFirstOut(net.line[e], net'.line[e], InFlight(e)' \ InFlight(e))

LEMMA InitIInv == EInit => IInv
<1> SUFFICES ASSUME EInit PROVE IInv
  OBVIOUS
<1>1. edge \in Topologies /\ Edges = 1 .. Len(edge) /\ Len(edge) \in Nat
  BY ChainType DEF EInit
<1>2. 0 \in Nodes
  BY <1>1 DEF Nodes
<1>3. hop \in Hops /\ retries \in [Requests -> [Nodes -> Nat]] /\ \A r \in Requests : hop[r] = 0
  BY <1>2 DEF EInit, Hops
<1>4. PICK P : P = [r \in Requests |-> IF r \in Issued(edge) THEN "served" ELSE "ended"]
  OBVIOUS
<1>5. P \in [Requests -> Phases] /\ \A r \in Requests : P[r] \in {"served", "ended"}
  BY <1>4 DEF Phases
<1>6. <<>> \in Pools /\ <<>> \in Seq(Requests)
  <2>1. <<>> \in [{} -> Nat]
    OBVIOUS
  <2>2. <<>> \in Pools
    BY <2>1 DEF Pools
  <2> QED BY <2>2
<1>7. PICK L : L = [r \in Requests |-> [e \in Edges |-> NoStream]]
  OBVIOUS
<1>8. L \in [Requests -> [Edges -> Nat]] /\ \A r \in Requests, e \in Edges : L[r][e] = NoStream
  BY <1>7 DEF NoStream
<1>9. net = [phase |-> P, conns |-> [e \in Edges |-> <<>>], wait |-> [e \in Edges |-> <<>>],
             lease |-> L, load |-> [e \in Edges |-> 0], line |-> [e \in Edges |-> <<>>]]
  BY <1>4, <1>7 DEF EInit
<1>10. /\ [e \in Edges |-> <<>>] \in [Edges -> Pools] /\ [e \in Edges |-> <<>>] \in [Edges -> Seq(Requests)]
       /\ [e \in Edges |-> 0] \in [Edges -> Nat]
  BY <1>6
<1>11. net \in Nets
  BY <1>5, <1>8, <1>9, <1>10 DEF Nets
<1>12. net.phase = P /\ net.lease = L /\ \A e \in Edges :
         net.conns[e] = <<>> /\ net.wait[e] = <<>> /\ net.load[e] = 0 /\ net.line[e] = <<>>
  BY <1>9
<1>13. Bound(net, hop)
  BY <1>5, <1>12 DEF Bound
<1>14. ASSUME NEW e \in Edges PROVE Sound(net, hop, e, {})
  <2>1. \A p \in {"pooling", "lining", "flying"} : Before(net, hop, e, p) = {}
    BY <1>5, <1>12 DEF Before
  <2>2. IsInjective(<<>>) /\ Range(<<>>) = {} /\ Len(<<>>) = 0 /\ DOMAIN <<>> = {}
    BY DEF IsInjective, Range
  <2>3. edge[e].slots \in Nat
    BY <1>1, ChainType
  <2>4. SlotsAt(net, hop, e) /\ NoIdleSlotAt(net, e)
    <3>1. net.load[e] = 0 /\ net.line[e] = <<>>
      BY <1>12
    <3>2. Before(net, hop, e, "flying") = {} /\ Before(net, hop, e, "lining") = {}
      BY <2>1
    <3>3. net.load[e] = Cardinality(Before(net, hop, e, "flying")) /\ net.load[e] <= edge[e].slots
      <4>1. PICK B : B = Before(net, hop, e, "flying")
        OBVIOUS
      <4>2. IsFiniteSet(B) /\ Cardinality(B) = 0
        BY <3>2, <4>1, FS_EmptySet
      <4> QED BY <2>3, <3>1, <4>1, <4>2
    <3>4. IsInjective(net.line[e]) /\ Range(net.line[e]) = {} /\ Len(net.line[e]) <= edge[e].slots
      BY <2>2, <2>3, <3>1
    <3> QED BY <3>1, <3>2, <3>3, <3>4 DEF SlotsAt, NoIdleSlotAt
  <2>5. PoolAt(net, e)
    BY <1>8, <1>12, <2>2 DEF PoolAt
  <2>6. WaitAt(net, hop, e) /\ NoIdleStreamAt(net, e)
    BY <1>12, <2>1, <2>2 DEF WaitAt, NoIdleStreamAt
  <2>7. UseAt(net, hop, e, {})
    BY <1>5, <1>8, <1>12 DEF UseAt, Stands
  <2> QED BY <2>4, <2>5, <2>6, <2>7 DEF Sound
<1> QED BY <1>1, <1>3, <1>11, <1>13, <1>14 DEF IInv, Whole

\* A step of the network, of a topology that does not change.
LEMMA Primed ==
  ASSUME IInv, edge' = edge, retries' \in [Requests -> [Nodes -> Nat]], Follows(net, hop, net', hop')
  PROVE  IInv' /\ FairStep
<1>1. Edges' = Edges /\ Nodes' = Nodes
  BY DEF Edges, Nodes
<1>2. net' \in Nets /\ hop' \in Hops /\ Bound(net', hop')
  BY DEF Follows, Whole
<1>3. Nets' = Nets /\ Hops' = Hops
  BY <1>1 DEF Nets, Hops
<1>4. Bound(net, hop)'
  BY <1>2 DEF Bound
<1>5. ASSUME NEW e \in Edges PROVE Sound(net, hop, e, {})'
  <2>1. Sound(net', hop', e, {})
    BY DEF Follows, Whole
  <2>2. SlotsAt(net, hop, e)'
    BY <2>1 DEF Sound, SlotsAt, Before
  <2>3. PoolAt(net, e)'
    BY <2>1 DEF Sound, PoolAt, Lessees, Pooled
  <2>4. WaitAt(net, hop, e)'
    BY <2>1 DEF Sound, WaitAt, Before, Pooled
  <2>5. UseAt(net, hop, e, {})'
    BY <2>1 DEF Sound, UseAt, Stands, Pooled
  <2>6. NoIdleStreamAt(net, e)' /\ NoIdleSlotAt(net, e)'
    BY <2>1 DEF Sound, NoIdleStreamAt, NoIdleSlotAt, Pooled, WithFreeStream, Unopened
  <2> QED BY <2>2, <2>3, <2>4, <2>5, <2>6 DEF Sound
<1>6. Whole(net, hop)'
  BY <1>1, <1>2, <1>3, <1>4, <1>5 DEF Whole
<1>7. IInv'
  BY <1>1, <1>6 DEF IInv
<1>8. \A e \in Edges : InFlight(e) = Before(net, hop, e, "flying") /\ InFlight(e)' = Before(net', hop', e, "flying")
  BY DEF InFlight, At, NextEdge, Before
<1>9. FairStep
  <2>1. FairTo(net, hop, net', hop')
    BY DEF Follows
  <2> QED BY <1>8, <2>1 DEF FairStep, FairTo, FairWait
<1> QED BY <1>7, <1>9

LEMMA Stays ==
  ASSUME IInv
  PROVE  Follows(net, hop, net, hop)
<1>1. Whole(net, hop)
  BY DEF IInv
<1>2. FairTo(net, hop, net, hop)
  BY <1>1, FairIfSame, FairWaitIfSame DEF Whole, FairTo
<1> QED BY <1>1, <1>2 DEF Follows

LEMMA Places ==
  ASSUME IInv, NEW r \in Requests
  PROVE  /\ edge \in Topologies /\ Edges = 1 .. Len(edge) /\ Len(edge) \in Nat /\ Nodes = 0 .. Len(edge)
         /\ hop \in [Requests -> Nodes] /\ hop[r] \in 0 .. Len(edge)
         /\ net \in Nets /\ Whole(net, hop) /\ retries \in [Requests -> [Nodes -> Nat]]
         /\ net.phase[r] \in {"pooling", "lining", "flying", "refused"} => NextEdge(r) \in Edges
<1>1. edge \in Topologies /\ Whole(net, hop) /\ retries \in [Requests -> [Nodes -> Nat]]
  BY DEF IInv
<1>2. Edges = 1 .. Len(edge) /\ Len(edge) \in Nat /\ Nodes = 0 .. Len(edge)
  BY <1>1, ChainType DEF Nodes
<1>3. hop \in [Requests -> Nodes] /\ hop[r] \in 0 .. Len(edge) /\ net \in Nets /\ Bound(net, hop)
  BY <1>1, <1>2 DEF Whole, Hops
<1>4. net.phase[r] \in {"pooling", "lining", "flying", "refused"} => NextEdge(r) \in Edges
  BY <1>2, <1>3 DEF Bound, NextEdge
<1> QED BY <1>1, <1>2, <1>3, <1>4

\* The handlers.
LEMMA EnqueueStep ==
  ASSUME IInv, NEW r \in Requests, EnqueueEdgeTransfer(r)
  PROVE  IInv' /\ FairStep
<1>1. PICK e : e = NextEdge(r)
  OBVIOUS
<1>2. net.phase[r] = "served" /\ hop[r] < Len(edge) /\ UNCHANGED <<edge, hop, retries>>
  BY DEF EnqueueEdgeTransfer, At
<1>3. e \in Edges /\ hop[r] + 1 = e
  BY <1>1, <1>2, Places DEF NextEdge
<1>4. PICK lost \in SUBSET {r} :
        IF Pooled(e)
        THEN \E expired \in SUBSET (IF edge[e].reuse = "keep-alive" THEN Idle(net, e) ELSE {}) :
               net' = AcquireConnectionAndDispatch(lost, CloseIdle(net, e, expired), r, e, FALSE)
        ELSE net' = DispatchEdgeTransfer(lost, net, r, e)
  BY <1>1 DEF EnqueueEdgeTransfer
<1>5. Follows(net, hop, net', hop)
  <2>1. CASE Pooled(e)
    <3>1. PICK X \in SUBSET (IF edge[e].reuse = "keep-alive" THEN Idle(net, e) ELSE {}) :
            net' = AcquireConnectionAndDispatch(lost, CloseIdle(net, e, X), r, e, FALSE)
      BY <1>4, <2>1
    <3>2. X \in SUBSET Idle(net, e) /\ (edge[e].reuse # "keep-alive" => X = {})
      OBVIOUS
    <3>3. edge \in Topologies /\ Whole(net, hop)
      BY Places
    <3> QED BY <1>2, <1>3, <2>1, <3>1, <3>2, <3>3, SendsOnPooled
  <2>2. CASE ~Pooled(e)
    <3>1. net' = DispatchEdgeTransfer(lost, net, r, e)
      BY <1>4, <2>2
    <3>2. edge \in Topologies /\ Whole(net, hop)
      BY Places
    <3> QED BY <1>2, <1>3, <2>2, <3>1, <3>2, SendsOnPlain
  <2> QED BY <2>1, <2>2
<1>6. Follows(net, hop, net', hop') /\ edge' = edge /\ retries' \in [Requests -> [Nodes -> Nat]]
  BY <1>2, <1>5, Places
<1> QED BY <1>6, Primed

\* Whoever is at a node, or refused on its edge, settles.
LEMMA SettleStep ==
  ASSUME IInv, NEW r \in Requests, net.phase[r] \in {"served", "refused"},
         NEW p \in {"served", "ended"}, Settle(r, p, net), NEW g \in Hops,
         \A w \in Requests : w # r => g[w] = hop[w]
  PROVE  Follows(net, hop, net', g)
<1>1. edge \in Topologies /\ Whole(net, hop) /\ net \in Nets
  BY Places
<1>2. PICK o : o = [net EXCEPT !.phase[r] = p]
  OBVIOUS
<1>3. OnlyPhase(net, o, r, p)
  <2>1. p \in Phases
    BY DEF Phases
  <2> QED BY <1>1, <1>2, <2>1, PhaseSet
<1>4. o \in Nets /\ Leased(net, r) = Leased(o, r)
  BY <1>3 DEF OnlyPhase, Leased
<1>5. PICK es : es = Leased(o, r)
  OBVIOUS
<1>6. es \in SUBSET Edges
  BY <1>5 DEF Leased
<1>7. PICK lost : net' = ReleaseConnectionLeases(lost, o, r, es)
  BY <1>2, <1>4, <1>5 DEF Settle
<1>8. Ready(net, hop, o, g, r, es)
  BY <1>1, <1>3, <1>5, LeavesNode
<1> QED BY <1>1, <1>4, <1>6, <1>7, <1>8, HandOver

LEMMA TerminalStep ==
  ASSUME IInv, NEW r \in Requests, MarkRequestTerminal(r)
  PROVE  IInv' /\ FairStep
<1>1. net.phase[r] \in {"served", "refused"} /\ Settle(r, "ended", net) /\ UNCHANGED <<edge, hop, retries>>
  BY DEF MarkRequestTerminal, At
<1>2. hop \in Hops
  BY Places DEF Whole
<1>3. Follows(net, hop, net', hop)
  BY <1>1, <1>2, SettleStep
<1>4. Follows(net, hop, net', hop') /\ edge' = edge /\ retries' \in [Requests -> [Nodes -> Nat]]
  BY <1>1, <1>3, Places
<1> QED BY <1>4, Primed

LEMMA RetryStep ==
  ASSUME IInv, NEW r \in Requests, MaybeScheduleRetryAttempt(r)
  PROVE  IInv' /\ FairStep
<1>1. net.phase[r] \in {"served", "refused"} /\ Settle(r, "served", net) /\ edge' = edge
  BY DEF MaybeScheduleRetryAttempt, At
<1>2. PICK k \in RetryOwners(r) :
        /\ hop' = [hop EXCEPT ![r] = k]
        /\ retries' = [retries EXCEPT ![r] =
                         [j \in Nodes |-> IF j < k THEN retries[r][j] ELSE IF j = k THEN retries[r][k] + 1 ELSE 0]]
  BY DEF MaybeScheduleRetryAttempt
<1>3. k \in Nodes
  <2>1. k \in 0 .. (IF At(r, "refused") THEN hop[r] ELSE hop[r] - 1)
    BY DEF RetryOwners
  <2>2. hop[r] \in 0 .. Len(edge) /\ Nodes = 0 .. Len(edge) /\ Len(edge) \in Nat
    BY Places
  <2> QED BY <2>1, <2>2
<1>4. hop' \in Hops /\ \A w \in Requests : w # r => hop'[w] = hop[w]
  BY <1>2, <1>3, Places DEF Hops
<1>5. Follows(net, hop, net', hop')
  BY <1>1, <1>4, SettleStep
<1>6. retries' \in [Requests -> [Nodes -> Nat]]
  <2>1. retries \in [Requests -> [Nodes -> Nat]]
    BY Places
  <2>2. PICK x \in Nat : x = retries[r][k] + 1
    BY <1>3, <2>1
  <2>3. PICK F : F = [j \in Nodes |-> IF j < k THEN retries[r][j] ELSE IF j = k THEN retries[r][k] + 1 ELSE 0]
    OBVIOUS
  <2>4. F \in [Nodes -> Nat]
    BY <2>1, <2>2, <2>3
  <2> QED BY <1>2, <2>1, <2>3, <2>4
<1> QED BY <1>1, <1>5, <1>6, Primed

LEMMA ArrivalStep ==
  ASSUME IInv, NEW r \in Requests, HandleRequestArrival(r)
  PROVE  IInv' /\ FairStep
<1>1. /\ net.phase[r] = "flying" /\ hop' = [hop EXCEPT ![r] = NextEdge(r)]
      /\ edge' = edge /\ retries' = retries
  BY DEF HandleRequestArrival, At
<1>2. PICK e : e = NextEdge(r)
  OBVIOUS
<1>3. e \in Edges /\ hop[r] + 1 = e /\ e \in Nodes /\ e \in Int /\ hop[r] \in Int
  BY <1>1, <1>2, Places DEF NextEdge
<1>4. /\ hop' \in Hops /\ hop'[r] = e /\ \A w \in Requests : w # r => hop'[w] = hop[w]
  BY <1>1, <1>2, <1>3, Places DEF Hops
<1>5. edge \in Topologies /\ Whole(net, hop) /\ net \in Nets
  BY Places
<1>6. PICK o : o = [net EXCEPT !.phase[r] = "served"]
  OBVIOUS
<1>7. OnlyPhase(net, o, r, "served")
  <2>1. "served" \in Phases
    BY DEF Phases
  <2> QED BY <1>5, <1>6, <2>1, PhaseSet
<1>8. PICK lost : net' = ReleaseConnectionLeases(lost, ReleaseEdgeTransfer(lost, o, e), r,
                            Delivered(ReleaseEdgeTransfer(lost, o, e), r, e))
  BY <1>2, <1>6 DEF HandleRequestArrival
<1>9. PICK q : q = ReleaseEdgeTransfer(lost, o, e)
  OBVIOUS
<1>10. FlightOver(net, hop, q, hop', r, "served")
  BY <1>1, <1>3, <1>4, <1>5, <1>7, <1>9, LeavesFlight
<1>11. PICK es : es = Delivered(q, r, e)
  OBVIOUS
<1>12. es \in SUBSET Edges /\ \A f \in es : q.lease[r][f] # NoStream
  BY <1>11 DEF Delivered, Leased
<1>13. ASSUME NEW f \in Edges PROVE Sound(q, hop', f, IF f \in es THEN {r} ELSE {})
  <2>1. PICK owing \in SUBSET {r} : owing = IF f \in es THEN {r} ELSE {}
    OBVIOUS
  <2>2. q.phase[r] = "served" /\ q.lease = net.lease
    BY <1>10 DEF FlightOver
  <2>3. UseAt(net, hop, f, {})
    BY <1>5 DEF Whole, Sound
  <2>4. ASSUME q.lease[r][f] # NoStream PROVE r \in owing \/ (hop'[r] >= f /\ edge[f].paired)
    <3>1. Stands(net, hop, r, f) \/ (hop[r] >= f /\ edge[f].paired)
      BY <2>2, <2>3, <2>4 DEF UseAt
    <3>2. CASE Stands(net, hop, r, f)
      <4>1. f = e
        BY <1>3, <3>2 DEF Stands
      <4>2. ~edge[f].paired => f \in es
        BY <1>11, <2>4, <4>1 DEF Delivered, Leased
      <4> QED BY <1>3, <1>4, <2>1, <4>1, <4>2
    <3>3. CASE hop[r] >= f /\ edge[f].paired
      <4>1. f \in Int
        BY Places
      <4> QED BY <1>3, <1>4, <3>3, <4>1
    <3> QED BY <3>1, <3>2, <3>3
  <2>5. MayHold(q, hop', r, f, owing)
    BY <2>2, <2>4 DEF MayHold, Stands
  <2> QED BY <1>10, <2>1, <2>5 DEF FlightOver
<1>14. Ready(net, hop, q, hop', r, es)
  BY <1>10, <1>12, <1>13 DEF Ready, FlightOver
<1>15. Follows(net, hop, net', hop')
  <2>1. q \in Nets
    BY <1>10 DEF FlightOver
  <2> QED BY <1>4, <1>5, <1>8, <1>9, <1>11, <1>12, <1>14, <2>1, HandOver
<1> QED BY <1>1, <1>15, Places, Primed

LEMMA TimeoutStep ==
  ASSUME IInv, NEW r \in Requests, HandleRequestTimeout(r)
  PROVE  IInv' /\ FairStep
<1>1. PICK e : e = NextEdge(r)
  OBVIOUS
<1>2. UNCHANGED <<edge, hop, retries>>
  BY DEF HandleRequestTimeout
<1>3. /\ edge \in Topologies /\ Whole(net, hop) /\ net \in Nets /\ hop \in Hops
      /\ retries \in [Requests -> [Nodes -> Nat]]
  BY Places DEF Whole
<1>4. "ended" \in Phases
  BY DEF Phases
<1>5. CASE net.phase[r] = "pooling" /\ Settle(r, "ended", [net EXCEPT !.wait[e] = RemoveFirst(@, r)])
  <2>1. e \in Edges /\ hop[r] + 1 = e
    BY <1>1, <1>5, Places DEF NextEdge
  <2>2. net.wait[e] \in Seq(Requests) /\ IsInjective(net.wait[e]) /\ net.wait \in [Edges -> Seq(Requests)]
    BY <1>3, <2>1, NetsType DEF Whole, Sound, WaitAt
  <2>3. PICK t : t = RemoveFirst(net.wait[e], r)
    OBVIOUS
  <2>4. t \in Seq(Requests)
    BY <2>2, <2>3, FairIfRemoved
  <2>5. PICK q : q = [net EXCEPT !.wait[e] = t]
    OBVIOUS
  <2>6. /\ q \in Nets /\ q.phase = net.phase /\ q.conns = net.conns /\ q.lease = net.lease
        /\ q.load = net.load /\ q.line = net.line /\ q.wait = [net.wait EXCEPT ![e] = t]
    BY <1>3, <2>4, <2>5 DEF Nets
  <2>7. q.wait[e] = t /\ \A f \in Edges : f # e => q.wait[f] = net.wait[f]
    BY <2>1, <2>2, <2>6
  <2>8. PICK o : o = [q EXCEPT !.phase[r] = "ended"]
    OBVIOUS
  <2>9. OnlyPhase(q, o, r, "ended")
    BY <1>4, <2>6, <2>8, PhaseSet
  <2>10. PICK es : es = Leased(o, r)
    OBVIOUS
  <2>11. o \in Nets /\ es = Leased(q, r) /\ es \in SUBSET Edges
    BY <2>9, <2>10 DEF OnlyPhase, Leased
  <2>12. PICK lost : net' = ReleaseConnectionLeases(lost, o, r, es)
    BY <1>5, <2>3, <2>5, <2>8, <2>11 DEF Settle
  <2>13. Ready(net, hop, o, hop, r, es)
    BY <1>3, <1>5, <2>1, <2>3, <2>6, <2>7, <2>9, <2>10, LeavesWait
  <2>14. Follows(net, hop, net', hop)
    BY <1>3, <2>11, <2>12, <2>13, HandOver
  <2> QED BY <1>2, <1>3, <2>14, Primed
<1>6. CASE net.phase[r] = "lining" /\ Settle(r, "ended", [net EXCEPT !.line[e] = RemoveFirst(@, r)])
  <2>1. e \in Edges /\ hop[r] + 1 = e
    BY <1>1, <1>6, Places DEF NextEdge
  <2>2. net.line[e] \in Seq(Requests) /\ IsInjective(net.line[e]) /\ net.line \in [Edges -> Seq(Requests)]
    BY <1>3, <2>1, NetsType DEF Whole, Sound, SlotsAt
  <2>3. PICK t : t = RemoveFirst(net.line[e], r)
    OBVIOUS
  <2>4. t \in Seq(Requests)
    BY <2>2, <2>3, FairIfRemoved
  <2>5. PICK q : q = [net EXCEPT !.line[e] = t]
    OBVIOUS
  <2>6. /\ q \in Nets /\ q.phase = net.phase /\ q.conns = net.conns /\ q.lease = net.lease
        /\ q.load = net.load /\ q.wait = net.wait /\ q.line = [net.line EXCEPT ![e] = t]
    BY <1>3, <2>4, <2>5 DEF Nets
  <2>7. q.line[e] = t /\ \A f \in Edges : f # e => q.line[f] = net.line[f]
    BY <2>1, <2>2, <2>6
  <2>8. PICK o : o = [q EXCEPT !.phase[r] = "ended"]
    OBVIOUS
  <2>9. OnlyPhase(q, o, r, "ended")
    BY <1>4, <2>6, <2>8, PhaseSet
  <2>10. PICK es : es = Leased(o, r)
    OBVIOUS
  <2>11. o \in Nets /\ es = Leased(q, r) /\ es \in SUBSET Edges
    BY <2>9, <2>10 DEF OnlyPhase, Leased
  <2>12. PICK lost : net' = ReleaseConnectionLeases(lost, o, r, es)
    BY <1>6, <2>3, <2>5, <2>8, <2>11 DEF Settle
  <2>13. Ready(net, hop, o, hop, r, es)
    BY <1>3, <1>6, <2>1, <2>3, <2>6, <2>7, <2>9, <2>10, LeavesLine
  <2>14. Follows(net, hop, net', hop)
    BY <1>3, <2>11, <2>12, <2>13, HandOver
  <2> QED BY <1>2, <1>3, <2>14, Primed
<1>7. CASE /\ net.phase[r] = "flying"
           /\ \E lost \in SUBSET Waiting :
                net' = ReleaseConnectionLeases(lost,
                         ReleaseEdgeTransfer(lost, [net EXCEPT !.phase[r] = "ended"], e),
                         r, Leased(net, r))
  <2>1. e \in Edges /\ hop[r] + 1 = e
    BY <1>1, <1>7, Places DEF NextEdge
  <2>2. PICK o : o = [net EXCEPT !.phase[r] = "ended"]
    OBVIOUS
  <2>3. OnlyPhase(net, o, r, "ended")
    BY <1>3, <1>4, <2>2, PhaseSet
  <2>4. PICK es : es = Leased(net, r)
    OBVIOUS
  <2>5. PICK lost : net' = ReleaseConnectionLeases(lost, ReleaseEdgeTransfer(lost, o, e), r, es)
    BY <1>7, <2>2, <2>4
  <2>6. PICK q : q = ReleaseEdgeTransfer(lost, o, e)
    OBVIOUS
  <2>7. FlightOver(net, hop, q, hop, r, "ended")
    BY <1>3, <1>7, <2>1, <2>3, <2>6, LeavesFlight
  <2>8. es \in SUBSET Edges /\ \A f \in es : q.lease[r][f] # NoStream
    BY <2>4, <2>7 DEF Leased, FlightOver
  <2>9. ASSUME NEW f \in Edges PROVE Sound(q, hop, f, IF f \in es THEN {r} ELSE {})
    <3>1. PICK owing \in SUBSET {r} : owing = IF f \in es THEN {r} ELSE {}
      OBVIOUS
    <3>2. MayHold(q, hop, r, f, owing)
      BY <2>4, <2>7, <3>1 DEF MayHold, Stands, Leased, FlightOver
    <3> QED BY <2>7, <3>1, <3>2 DEF FlightOver
  <2>10. Ready(net, hop, q, hop, r, es)
    BY <2>7, <2>8, <2>9 DEF Ready, FlightOver
  <2>11. Follows(net, hop, net', hop)
    <3>1. q \in Nets
      BY <2>7 DEF FlightOver
    <3> QED BY <1>3, <2>5, <2>6, <2>8, <2>10, <3>1, HandOver
  <2> QED BY <1>2, <1>3, <2>11, Primed
<1> QED BY <1>1, <1>5, <1>6, <1>7 DEF HandleRequestTimeout, At

LEMMA StepIInv == IInv /\ [ENext]_vars => IInv' /\ FairStep
<1> SUFFICES ASSUME IInv, [ENext]_vars PROVE IInv' /\ FairStep
  OBVIOUS
<1>1. CASE UNCHANGED vars
  <2>1. Follows(net, hop, net', hop') /\ edge' = edge /\ retries' \in [Requests -> [Nodes -> Nat]]
    BY <1>1, Stays DEF vars, IInv
  <2> QED BY <2>1, Primed
<1>2. ASSUME NEW r \in Requests, EnqueueEdgeTransfer(r) PROVE IInv' /\ FairStep
  BY <1>2, EnqueueStep
<1>3. ASSUME NEW r \in Requests, HandleRequestArrival(r) PROVE IInv' /\ FairStep
  BY <1>3, ArrivalStep
<1>4. ASSUME NEW r \in Requests, MarkRequestTerminal(r) PROVE IInv' /\ FairStep
  BY <1>4, TerminalStep
<1>5. ASSUME NEW r \in Requests, MaybeScheduleRetryAttempt(r) PROVE IInv' /\ FairStep
  BY <1>5, RetryStep
<1>6. ASSUME NEW r \in Requests, HandleRequestTimeout(r) PROVE IInv' /\ FairStep
  BY <1>6, TimeoutStep
<1>7. CASE Finished
  BY <1>1, <1>7 DEF Finished
<1> QED BY <1>1, <1>2, <1>3, <1>4, <1>5, <1>6, <1>7 DEF ENext, HandleRequest

-----------------------------------------------------------------------------
(* The theorems.                                                             *)

\* The invariant that the others follow from, in every reachable state.
THEOREM EdgesStaySound == ESpec => []IInv
<1>1. IInv /\ [ENext]_vars => IInv'
  BY StepIInv
<1> QED BY InitIInv, <1>1, PTL DEF ESpec

LEMMA WithinLimits == IInv => TypeOK
<1> SUFFICES ASSUME IInv PROVE TypeOK
  OBVIOUS
<1>1. /\ edge \in Topologies /\ retries \in [Requests -> [Nodes -> Nat]]
      /\ net \in Nets /\ hop \in [Requests -> Nodes] /\ \A e \in Edges : Sound(net, hop, e, {})
  BY DEF IInv, Whole, Hops
<1>2. net.phase \in [Requests -> Phases] /\ net.lease \in [Requests -> [Edges -> Nat]]
  BY <1>1, NetsType
<1>3. ASSUME NEW e \in Edges
      PROVE  /\ net.load[e] \in 0 .. edge[e].slots
             /\ DOMAIN net.conns[e] \subseteq 1 .. edge[e].connections
             /\ \A c \in DOMAIN net.conns[e] : net.conns[e][c] \in 0 .. edge[e].streams
             /\ Len(net.line[e]) <= edge[e].slots
             /\ IsInjective(net.wait[e]) /\ IsInjective(net.line[e])
  <2>1. SlotsAt(net, hop, e) /\ PoolAt(net, e) /\ WaitAt(net, hop, e)
    BY <1>1 DEF Sound
  <2>2. net.load[e] \in Nat /\ edge[e].slots \in Nat
    BY <1>1, NetsType, ChainType
  <2>3. net.load[e] \in 0 .. edge[e].slots
    BY <2>1, <2>2 DEF SlotsAt
  <2> QED BY <2>1, <2>3 DEF SlotsAt, PoolAt, WaitAt
<1> QED BY <1>1, <1>2, <1>3 DEF TypeOK

\* No pool is wider, no edge busier and no line for slots longer than the edge
\* allows, and no request waits twice (acquire, edgeSlotLineFull).
THEOREM EdgesStayTyped == ESpec => []TypeOK
BY EdgesStaySound, WithinLimits, PTL

\* activeTransfersByEdgeId and the streams of the pools count exactly the
\* transfers in flight and the leases, through every retry, refusal and timeout.
THEOREM CountersStayExact == ESpec => []CountersExact
<1>1. IInv => CountersExact
  <2> SUFFICES ASSUME IInv PROVE CountersExact
    OBVIOUS
  <2>1. TypeOK
    BY WithinLimits
  <2>2. ASSUME NEW e \in Edges
        PROVE  /\ net.load[e] = Cardinality(InFlight(e))
               /\ \A c \in DOMAIN net.conns[e] :
                    net.conns[e][c] = Cardinality({r \in Requests : net.lease[r][e] = c})
    <3>1. SlotsAt(net, hop, e) /\ PoolAt(net, e)
      BY DEF IInv, Whole, Sound
    <3>2. InFlight(e) = Before(net, hop, e, "flying")
      BY DEF InFlight, At, NextEdge, Before
    <3> QED BY <3>1, <3>2 DEF SlotsAt, PoolAt, Lessees
  <2> QED BY <2>1, <2>2 DEF CountersExact
<1> QED BY <1>1, EdgesStaySound, PTL

\* A stream is held from its grant to its delivery, or while its response may
\* come, and no longer (releaseConnectionLeases).
THEOREM StreamsStayInUse == ESpec => []StreamsHeldInUse
<1>1. IInv => StreamsHeldInUse
  <2> SUFFICES ASSUME IInv, NEW r \in Requests, NEW e \in Edges
               PROVE  /\ net.lease[r][e] # NoStream =>
                           /\ net.lease[r][e] \in DOMAIN net.conns[e]
                           /\ Standing(r, e) \/ (~At(r, "ended") /\ hop[r] >= e /\ edge[e].paired)
                      /\ Standing(r, e) /\ Pooled(e) => net.lease[r][e] # NoStream
    BY DEF StreamsHeldInUse
  <2>1. PoolAt(net, e) /\ UseAt(net, hop, e, {})
    BY DEF IInv, Whole, Sound
  <2>2. Stands(net, hop, r, e) <=> Standing(r, e)
    BY DEF Stands, Standing, NextEdge
  <2> QED BY <2>1, <2>2 DEF PoolAt, UseAt, At
<1> QED BY <1>1, EdgesStaySound, PTL

\* Nobody waits for a stream beside a free one, nor for a slot beside a free
\* one (release, admitEdgeSlotWaiters).
THEOREM NoUnitStaysIdle == ESpec => []NoIdleUnit
<1>1. IInv => NoIdleUnit
  <2> SUFFICES ASSUME IInv, NEW e \in Edges PROVE NoIdleStreamAt(net, e) /\ NoIdleSlotAt(net, e)
    BY DEF NoIdleUnit, NoIdleStream, NoIdleSlot, NoIdleStreamAt, NoIdleSlotAt
  <2> QED BY DEF IInv, Whole, Sound
<1> QED BY <1>1, EdgesStaySound, PTL

\* Both lines are first in, first out in every step, those of a retry, a
\* timeout and an arrival that frees many units at once included.
THEOREM LinesStayFair == ESpec => LinesAreFair
<1>1. IInv /\ [ENext]_vars => [FairStep]_vars
  BY StepIInv
<1>2. FairStep =>
        \A e \in Edges :
          /\ FirstInFirstOut(net.wait[e], net'.wait[e],
               {r \in Requests : net.lease[r][e] = NoStream /\ net'.lease[r][e] # NoStream})
          /\ FirstInFirstOut(net.line[e], net'.line[e], InFlight(e)' \ InFlight(e))
  BY DEF FairStep
<1> QED BY <1>1, <1>2, EdgesStaySound, PTL DEF ESpec, LinesAreFair, FairStep
====
