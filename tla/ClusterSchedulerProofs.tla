------------------------ MODULE ClusterSchedulerProofs ------------------------
(***************************************************************************)
(* Proofs about ClusterScheduler, for any workloads, sizes of pods and     *)
(* machines, delays and plans of failures: what a fold over pods or        *)
(* machines does step by step, what each operation does to the books of    *)
(* the machines, and the invariants that follow.                           *)
(***************************************************************************)
EXTENDS ClusterScheduler, FiniteSetTheorems, SequenceTheorems, WellFoundedInduction, TLAPS

-----------------------------------------------------------------------------
(* Induction over finite sets, stated of a set of sets.                      *)

LEMMA LeastNumber ==
  ASSUME NEW V \in SUBSET Nat, V # {}
  PROVE  \E m \in V : \A v \in V : m <= v
<1>1. PICK m \in V : \A v \in V : ~ (<<v, m>> \in OpToRel(<, Nat))
  BY NatLessThanWellFounded, WFMin
<1>2. ASSUME NEW v \in V PROVE m <= v
  <2>1. ~ (<<v, m>> \in {ss \in Nat \X Nat : ss[1] < ss[2]})
    BY <1>1 DEF OpToRel
  <2>2. m \in Nat /\ v \in Nat
    OBVIOUS
  <2>3. ~ (v < m)
    BY <2>1, <2>2
  <2> QED BY <2>2, <2>3
<1> QED BY <1>2

\* What holds of a set when it holds of all sets one smaller holds of every set.
LEMMA SetInduction ==
  ASSUME NEW S, IsFiniteSet(S), NEW D, {} \in D,
         \A s \in SUBSET S : s # {} /\ (\A x \in s : s \ {x} \in D) => s \in D
  PROVE  \A s \in SUBSET S : s \in D
<1> SUFFICES ASSUME \E s \in SUBSET S : s \notin D PROVE FALSE
  OBVIOUS
<1> DEFINE V == {Cardinality(s) : s \in {t \in SUBSET S : t \notin D}}
<1>1. \A s \in SUBSET S : IsFiniteSet(s) /\ Cardinality(s) \in Nat
  BY FS_Subset, FS_CardinalityType
<1>2. V \in SUBSET Nat /\ V # {}
  BY <1>1
<1>3. PICK m \in V : \A v \in V : m <= v
  <2> HIDE DEF V
  <2> QED BY <1>2, LeastNumber
<1>4. PICK s \in SUBSET S : s \notin D /\ Cardinality(s) = m
  OBVIOUS
<1>5. ASSUME NEW x \in s PROVE s \ {x} \in D
  <2>1. Cardinality(s \ {x}) = Cardinality(s) - 1 /\ s \ {x} \in SUBSET S
    BY <1>1, FS_RemoveElement
  <2>2. CASE s \ {x} \notin D
    <3>1. Cardinality(s \ {x}) \in V
      BY <2>1, <2>2
    <3> HIDE DEF V
    <3> QED BY <1>1, <1>3, <1>4, <2>1, <3>1
  <2> QED BY <2>2
<1>6. s # {}
  BY <1>4
<1> QED BY <1>4, <1>5, <1>6

\* A finite set of numbers has a greatest and a least one.
LEMMA MaxIn ==
  ASSUME NEW S \in SUBSET Nat, IsFiniteSet(S), S # {}
  PROVE  Max(S) \in S /\ \A x \in S : x <= Max(S)
<1> DEFINE D == {s \in SUBSET S : s # {} => \E m \in s : \A x \in s : x <= m}
<1>1. ASSUME NEW s \in SUBSET S, s # {}, \A x \in s : s \ {x} \in D PROVE s \in D
  <2>1. PICK y \in s : y \in Nat
    BY <1>1
  <2>2. CASE s = {y}
    BY <2>1, <2>2
  <2>3. CASE s # {y}
    <3>1. PICK m \in s \ {y} : \A x \in s \ {y} : x <= m
      BY <1>1, <2>1, <2>3
    <3>2. m \in Nat /\ \A x \in s : x \in Nat /\ (x = y \/ x <= m)
      BY <3>1
    <3>3. CASE m <= y
      BY <2>1, <3>2, <3>3
    <3>4. CASE y <= m
      BY <3>1, <3>2, <3>4
    <3> QED BY <2>1, <3>2, <3>3, <3>4
  <2> QED BY <2>2, <2>3
<1>2. {} \in D
  OBVIOUS
<1>3. S \in D
  <2> HIDE DEF D
  <2> QED BY <1>1, <1>2, SetInduction
<1>4. \E m \in S : \A x \in S : m >= x
  BY <1>3
<1>5. Max(S) \in S /\ \A x \in S : Max(S) >= x
  BY <1>4 DEF Max
<1> QED BY <1>5

LEMMA MinIn ==
  ASSUME NEW S \in SUBSET Nat, S # {}
  PROVE  Min(S) \in S /\ \A x \in S : Min(S) <= x
<1>1. \E m \in S : \A x \in S : m <= x
  BY LeastNumber
<1> QED BY <1>1 DEF Min

-----------------------------------------------------------------------------
(* Folds. What the folds of the model apply, in one operator, so that their  *)
(* being defined is shown once.                                              *)

Step(kind, a, b, d, x) ==
  IF kind = "ask" THEN CreatePods(d, a[x], Instances[a[x]], 0, Never)
  ELSE IF kind = "instantly" THEN StartInstantly(d, x)
  ELSE IF kind = "start" THEN Start(d, x, a)
  ELSE IF kind = "schedule" THEN Schedule(d, a, b, x)
  ELSE IF kind = "pack" THEN FirstFit(a, d, x)
  ELSE IF kind = "replace" THEN ReplaceLost(d, x, a)
  ELSE IF kind = "restart"
    THEN [d EXCEPT !.pods[x].state = "starting", !.pods[x].readyAt = a + PodStartup]
  ELSE IF kind = "recover" THEN RecoverMachine(d, x, a)
  ELSE DeletePod(Unbind(d, x), x)

Iterates(g, kind, a, b, c, S) ==
  g = [s \in SUBSET S |->
         IF s = {} THEN {c} ELSE {Step(kind, a, b, e, Max(s)) : e \in g[s \ {Max(s)}]}]

Iterated(kind, a, b, c, S) == CHOOSE g : Iterates(g, kind, a, b, c, S)
Folded(kind, a, b, c, S) == CHOOSE d \in Iterated(kind, a, b, c, S)[S] : TRUE

Numbers(S) == S \in SUBSET Nat /\ IsFiniteSet(S)

LEMMA LessOne ==
  ASSUME NEW S, Numbers(S), S # {}
  PROVE  Max(S) \in S /\ (\A x \in S : x <= Max(S)) /\ Numbers(S \ {Max(S)})
<1>1. Max(S) \in S /\ \A x \in S : x <= Max(S)
  BY MaxIn DEF Numbers
<1>2. IsFiniteSet(S \ {Max(S)})
  BY FS_RemoveElement DEF Numbers
<1> QED BY <1>1, <1>2 DEF Numbers

\* Induction that takes the greatest away.
LEMMA MaxInduction ==
  ASSUME NEW S, Numbers(S), NEW D, {} \in D,
         \A s \in SUBSET S : s # {} /\ s \ {Max(s)} \in D => s \in D
  PROVE  \A s \in SUBSET S : s \in D
<1>1. ASSUME NEW s \in SUBSET S, s # {}, \A x \in s : s \ {x} \in D PROVE s \in D
  <2>1. Numbers(s)
    BY FS_Subset DEF Numbers
  <2>2. Max(s) \in s
    BY <1>1, <2>1, LessOne
  <2> QED BY <1>1, <2>2
<1> QED BY <1>1, SetInduction DEF Numbers

\* The function that a fold is defined by exists, and its values are those of the
\* function of any smaller set.
LEMMA FoldIsDefined ==
  ASSUME NEW kind, NEW a, NEW b, NEW c, NEW S, Numbers(S)
  PROVE  Iterates(Iterated(kind, a, b, c, S), kind, a, b, c, S)
<1> DEFINE At(f, x) == IF x = {} THEN {c} ELSE {Step(kind, a, b, e, Max(x)) : e \in f[x \ {Max(x)}]}
           D == {s \in SUBSET S : \E f : f = [x \in SUBSET s |-> At(f, x)]}
<1>1. {} \in D
  <2> DEFINE f == [x \in SUBSET {} |-> {c}]
  <2>1. \A x \in SUBSET {} : x = {}
    OBVIOUS
  <2>2. f = [x \in SUBSET {} |-> At(f, x)]
    BY <2>1
  <2>3. \E h : h = [x \in SUBSET {} |-> At(h, x)]
    <3> HIDE DEF f
    <3> QED BY <2>2
  <2> HIDE DEF At
  <2> QED BY <2>3
<1>2. ASSUME NEW s \in SUBSET S, s # {}, s \ {Max(s)} \in D PROVE s \in D
  <2>1. Numbers(s) /\ Max(s) \in s
    BY <1>2, FS_Subset, LessOne DEF Numbers
  <2>2. PICK t : t = s \ {Max(s)}
    OBVIOUS
  <2>3. PICK n : n = Max(s)
    OBVIOUS
  <2>4. PICK f : f = [x \in SUBSET t |-> At(f, x)]
    BY <1>2, <2>2
  <2> DEFINE h == [x \in SUBSET s |->
                     IF n \in x THEN {Step(kind, a, b, e, n) : e \in f[x \ {n}]} ELSE f[x]]
  <2>5. ASSUME NEW x \in SUBSET s
        PROVE  /\ n \in x => Max(x) = n /\ x \ {n} \in SUBSET t
               /\ n \notin x => x \in SUBSET t
    <3>1. ASSUME n \in x PROVE Max(x) = n
      <4>1. Numbers(x)
        BY <2>1, FS_Subset DEF Numbers
      <4>2. Max(x) \in x /\ n <= Max(x)
        BY <3>1, <4>1, LessOne
      <4>3. \A y \in s : y <= n /\ y \in Nat
        BY <1>2, <2>1, <2>3, LessOne DEF Numbers
      <4>4. Max(x) <= n /\ Max(x) \in Nat /\ n \in Nat
        BY <2>1, <2>3, <4>2, <4>3
      <4> QED BY <4>2, <4>4
    <3> QED BY <2>2, <2>3, <3>1
  <2>6. ASSUME NEW x \in SUBSET s PROVE h[x] = At(h, x)
    <3>1. CASE n \in x
      <4>1. h[x] = {Step(kind, a, b, e, n) : e \in f[x \ {n}]} /\ x # {} /\ Max(x) = n
        BY <2>5, <3>1
      <4>2. x \ {n} \in SUBSET s /\ n \notin x \ {n}
        OBVIOUS
      <4>3. h[x \ {n}] = f[x \ {n}]
        BY <4>2
      <4> HIDE DEF h
      <4> QED BY <4>1, <4>3
    <3>2. CASE n \notin x
      <4>1. x \in SUBSET t /\ h[x] = f[x]
        BY <2>5, <3>2
      <4>2. f[x] = At(f, x)
        <5> HIDE DEF At
        <5> QED BY <2>4, <4>1
      <4>3. x \ {Max(x)} \in SUBSET s /\ n \notin x \ {Max(x)}
        BY <3>2
      <4>4. h[x \ {Max(x)}] = f[x \ {Max(x)}]
        BY <4>3
      <4> HIDE DEF h
      <4> QED BY <4>1, <4>2, <4>4
    <3> QED BY <3>1, <3>2
  <2>7. h = [x \in SUBSET s |-> h[x]]
    OBVIOUS
  <2> HIDE DEF h, At
  <2>8. h = [x \in SUBSET s |-> At(h, x)]
    BY <2>6, <2>7
  <2> QED BY <1>2, <2>8
<1>3. S \in D
  <2> HIDE DEF D
  <2> QED BY <1>1, <1>2, MaxInduction
<1>4. \E f : Iterates(f, kind, a, b, c, S)
  BY <1>3 DEF Iterates
<1> QED BY <1>4 DEF Iterated

LEMMA FoldsAgree ==
  ASSUME NEW kind, NEW a, NEW b, NEW c, NEW S, Numbers(S), NEW T, Numbers(T), T \in SUBSET S
  PROVE  /\ Iterated(kind, a, b, c, S)[T] = Iterated(kind, a, b, c, T)[T]
         /\ Iterated(kind, a, b, c, T)[T] = {Folded(kind, a, b, c, T)}
<1>1. PICK f : f = Iterated(kind, a, b, c, S)
  OBVIOUS
<1>2. PICK g : g = Iterated(kind, a, b, c, T)
  OBVIOUS
<1>3. Iterates(f, kind, a, b, c, S) /\ Iterates(g, kind, a, b, c, T)
  BY <1>1, <1>2, FoldIsDefined
<1> DEFINE D == {s \in SUBSET T : f[s] = g[s] /\ \E d : f[s] = {d}}
<1>4. /\ \A s \in SUBSET S : f[s] = IF s = {} THEN {c}
                ELSE {Step(kind, a, b, e, Max(s)) : e \in f[s \ {Max(s)}]}
      /\ \A s \in SUBSET T : g[s] = IF s = {} THEN {c}
                ELSE {Step(kind, a, b, e, Max(s)) : e \in g[s \ {Max(s)}]}
  BY <1>3 DEF Iterates
<1>5. {} \in D
  BY <1>4
<1>6. ASSUME NEW s \in SUBSET T, s # {}, s \ {Max(s)} \in D PROVE s \in D
  <2>1. PICK d : f[s \ {Max(s)}] = {d} /\ g[s \ {Max(s)}] = {d}
    BY <1>6
  <2>2. f[s] = {Step(kind, a, b, e, Max(s)) : e \in {d}} /\ s \in SUBSET S
    BY <1>4, <1>6, <2>1
  <2>3. g[s] = {Step(kind, a, b, e, Max(s)) : e \in {d}}
    BY <1>4, <1>6, <2>1
  <2>4. {Step(kind, a, b, e, Max(s)) : e \in {d}} = {Step(kind, a, b, d, Max(s))}
    OBVIOUS
  <2> QED BY <2>2, <2>3, <2>4
<1>7. \A s \in SUBSET T : s \in D
  <2> HIDE DEF D
  <2> QED BY <1>5, <1>6, MaxInduction
<1>8. PICK d : f[T] = {d} /\ g[T] = {d}
  BY <1>7
<1> QED BY <1>1, <1>2, <1>8 DEF Folded

\* A fold step by step.
LEMMA FoldOfNone ==
  ASSUME NEW kind, NEW a, NEW b, NEW c
  PROVE  Folded(kind, a, b, c, {}) = c
<1>1. Numbers({})
  BY FS_EmptySet DEF Numbers
<1>2. PICK g : g = Iterated(kind, a, b, c, {})
  OBVIOUS
<1>3. Iterates(g, kind, a, b, c, {})
  BY <1>1, <1>2, FoldIsDefined
<1>4. g[{}] = {c}
  BY <1>3 DEF Iterates
<1> QED BY <1>2, <1>4 DEF Folded

LEMMA FoldStep ==
  ASSUME NEW kind, NEW a, NEW b, NEW c, NEW S, Numbers(S), S # {}
  PROVE  Folded(kind, a, b, c, S) = Step(kind, a, b, Folded(kind, a, b, c, S \ {Max(S)}), Max(S))
<1>1. PICK T : T = S \ {Max(S)}
  OBVIOUS
<1>2. Numbers(T) /\ T \in SUBSET S
  BY <1>1, LessOne
<1>3. PICK d : d = Folded(kind, a, b, c, T)
  OBVIOUS
<1>4. Iterated(kind, a, b, c, T)[T] = {d}
  BY <1>2, <1>3, FoldsAgree
<1>5. Iterated(kind, a, b, c, S)[T] = Iterated(kind, a, b, c, T)[T]
  BY <1>2, FoldsAgree
<1>6. PICK f : f = Iterated(kind, a, b, c, S)
  OBVIOUS
<1>7. f[S] = {Step(kind, a, b, e, Max(S)) : e \in f[S \ {Max(S)}]}
  <2>1. Iterates(f, kind, a, b, c, S)
    BY <1>6, FoldIsDefined
  <2> QED BY <2>1 DEF Iterates
<1>8. f[S] = {Step(kind, a, b, d, Max(S))}
  BY <1>1, <1>4, <1>5, <1>6, <1>7
<1> QED BY <1>1, <1>3, <1>6, <1>8 DEF Folded

\* What each step of a fold keeps holds of the cluster the fold returns, for every
\* lower part of the numbers.
LEMMA FoldKeeps ==
  ASSUME NEW kind, NEW a, NEW b, NEW c, NEW S, Numbers(S),
         NEW G, <<{}, c>> \in G,
         \A s \in SUBSET S : \A d :
            s # {} /\ <<s \ {Max(s)}, d>> \in G => <<s, Step(kind, a, b, d, Max(s))>> \in G
  PROVE  <<S, Folded(kind, a, b, c, S)>> \in G
<1> DEFINE D == {s \in SUBSET S : <<s, Folded(kind, a, b, c, s)>> \in G}
<1>1. {} \in D
  <2>1. Folded(kind, a, b, c, {}) = c
    BY FoldOfNone
  <2> QED BY <2>1
<1>2. ASSUME NEW s \in SUBSET S, s # {}, s \ {Max(s)} \in D PROVE s \in D
  <2>1. Numbers(s)
    BY FS_Subset DEF Numbers
  <2>2. Folded(kind, a, b, c, s) = Step(kind, a, b, Folded(kind, a, b, c, s \ {Max(s)}), Max(s))
    BY <1>2, <2>1, FoldStep
  <2> QED BY <1>2, <2>2
<1>3. S \in D
  <2> HIDE DEF D
  <2> QED BY <1>1, <1>2, MaxInduction
<1> QED BY <1>3

\* The folds of the model.
LEMMA TheFolds ==
  ASSUME NEW c, NEW S, NEW t, NEW x
  PROVE  /\ ScheduleEach(c, S, t, x) = Folded("schedule", t, x, c, S)
         /\ SchedulePending(c, t) = Folded("start", t, 0, Accrue(c, t), InState(c, "pending"))
         /\ Packed(c) = Folded("pack", c, 0, [m \in 1 .. Booting(c) |-> MachineSize],
                               InState(c, "pending"))
<1>1. ScheduleEach(c, S, t, x) = Folded("schedule", t, x, c, S)
  BY DEF ScheduleEach, Each, MapThenFoldSet, Folded, Iterated, Iterates, Step
<1>2. SchedulePending(c, t) = Folded("start", t, 0, Accrue(c, t), InState(c, "pending"))
  BY DEF SchedulePending, Each, MapThenFoldSet, Folded, Iterated, Iterates, Step
<1>3. Packed(c) = Folded("pack", c, 0, [m \in 1 .. Booting(c) |-> MachineSize],
                               InState(c, "pending"))
  BY DEF Packed, Each, MapThenFoldSet, Folded, Iterated, Iterates, Step
<1> QED BY <1>1, <1>2, <1>3

-----------------------------------------------------------------------------
(* Sums. *)

\* A table of the sums of f over the parts of S.
Sums(g, f, S) ==
  /\ g \in [SUBSET S -> Int] /\ g[{}] = 0
  /\ \A s \in SUBSET S : \A x \in s : g[s] = f[x] + g[s \ {x}]

LEMMA SumsExist ==
  ASSUME NEW S, IsFiniteSet(S), NEW f, \A x \in S : f[x] \in Int
  PROVE  \E g : Sums(g, f, S)
<1> DEFINE D == {s \in SUBSET S : \E g : Sums(g, f, s)}
<1>1. {} \in D
  <2> DEFINE g == [s \in SUBSET {} |-> 0]
  <2>1. \A s \in SUBSET {} : s = {}
    OBVIOUS
  <2>2. Sums(g, f, {})
    BY <2>1 DEF Sums
  <2> HIDE DEF g
  <2> QED BY <2>2
<1>2. ASSUME NEW s \in SUBSET S, s # {}, \A x \in s : s \ {x} \in D PROVE s \in D
  <2>1. PICK y \in s : TRUE
    BY <1>2
  <2>2. PICK t : t = s \ {y}
    OBVIOUS
  <2>3. PICK g : Sums(g, f, t)
    BY <1>2, <2>1, <2>2
  <2> DEFINE h == [x \in SUBSET s |-> IF y \in x THEN f[y] + g[x \ {y}] ELSE g[x]]
  <2>4. g \in [SUBSET t -> Int] /\ g[{}] = 0 /\ f[y] \in Int
    BY <2>1, <2>3 DEF Sums
  <2>5. \A x \in SUBSET s : x \ {y} \in SUBSET t /\ (y \notin x => x \in SUBSET t)
    BY <2>2
  <2>6. h \in [SUBSET s -> Int] /\ h[{}] = 0
    <3>1. \A x \in SUBSET s : (IF y \in x THEN f[y] + g[x \ {y}] ELSE g[x]) \in Int
      BY <2>4, <2>5
    <3> QED BY <2>4, <3>1
  <2>7. ASSUME NEW x \in SUBSET s, NEW p \in x PROVE h[x] = f[p] + h[x \ {p}]
    <3>1. x \ {p} \in SUBSET s /\ f[p] \in Int
      OBVIOUS
    <3>2. CASE p = y
      BY <3>1, <3>2
    <3>3. CASE p # y /\ y \in x
      <4>1. p \in x \ {y} /\ x \ {y} \in SUBSET t
        BY <2>5, <3>3
      <4>2. g[x \ {y}] = f[p] + g[(x \ {y}) \ {p}]
        BY <2>3, <4>1 DEF Sums
      <4>3. PICK z : z = (x \ {y}) \ {p}
        OBVIOUS
      <4>4. z = (x \ {p}) \ {y} /\ z \in SUBSET t
        BY <2>2, <4>3
      <4>5. h[x] = f[y] + g[x \ {y}] /\ h[x \ {p}] = f[y] + g[z]
        BY <3>1, <3>3, <4>4
      <4>6. g[z] \in Int
        BY <2>4, <4>4
      <4> HIDE DEF h
      <4> QED BY <2>4, <3>1, <4>2, <4>3, <4>5, <4>6
    <3>4. CASE p # y /\ y \notin x
      <4>1. x \in SUBSET t /\ h[x] = g[x] /\ h[x \ {p}] = g[x \ {p}]
        BY <2>5, <3>1, <3>4
      <4> HIDE DEF h
      <4> QED BY <2>3, <4>1 DEF Sums
    <3> QED BY <3>2, <3>3, <3>4
  <2>8. Sums(h, f, s)
    <3> HIDE DEF h
    <3> QED BY <2>6, <2>7 DEF Sums
  <2> HIDE DEF h
  <2> QED BY <1>2, <2>8
<1>3. \A s \in SUBSET S : s \in D
  <2> HIDE DEF D
  <2> QED BY <1>1, <1>2, SetInduction
<1> QED BY <1>3

\* The sum that the library computes is that of the table.
LEMMA SumInTable ==
  ASSUME NEW S, IsFiniteSet(S), NEW f, NEW g, Sums(g, f, S)
  PROVE  SumFunctionOnSet(f, S) = g[S]
<1> DEFINE At(h, s) == IF s = {} THEN 0 ELSE f[CHOOSE x \in s : TRUE] + h[s \ {CHOOSE x \in s : TRUE}]
<1>1. ASSUME NEW s \in SUBSET S PROVE g[s] = At(g, s)
  <2>1. CASE s = {}
    BY <2>1 DEF Sums
  <2>2. CASE s # {}
    <3>1. (CHOOSE x \in s : TRUE) \in s
      BY <2>2
    <3> QED BY <2>2, <3>1 DEF Sums
  <2> QED BY <2>1, <2>2
<1>2. g = [s \in SUBSET S |-> At(g, s)]
  <2>1. g = [s \in SUBSET S |-> g[s]]
    BY DEF Sums
  <2> HIDE DEF At
  <2> QED BY <1>1, <2>1
<1>3. ASSUME NEW h, h = [s \in SUBSET S |-> At(h, s)] PROVE h[S] = g[S]
  <2> DEFINE D == {s \in SUBSET S : h[s] = g[s]}
  <2>0. \A s \in SUBSET S : h[s] = At(h, s)
    <3> HIDE DEF At
    <3> QED BY <1>3
  <2>1. {} \in D
    BY <2>0, <1>1
  <2>2. ASSUME NEW s \in SUBSET S, s # {}, \A x \in s : s \ {x} \in D PROVE s \in D
    <3>1. PICK p : p = CHOOSE x \in s : TRUE
      OBVIOUS
    <3>2. p \in s
      BY <2>2, <3>1
    <3>3. h[s \ {p}] = g[s \ {p}]
      BY <2>2, <3>2
    <3>4. h[s] = f[p] + h[s \ {p}] /\ g[s] = f[p] + g[s \ {p}]
      BY <1>1, <2>0, <2>2, <3>1
    <3> QED BY <3>3, <3>4
  <2>3. S \in D
    <3>1. IsFiniteSet(S)
      OBVIOUS
    <3> HIDE DEF D
    <3> QED BY ZenonT(40), <2>1, <2>2, <3>1, SetInduction
  <2> QED BY <2>3
<1>4. SumFunctionOnSet(f, S) = (CHOOSE h : h = [s \in SUBSET S |-> At(h, s)])[S]
  BY DEF SumFunctionOnSet, FoldFunctionOnSet, MapThenFoldSet
<1>5. PICK k : k = CHOOSE h : h = [s \in SUBSET S |-> At(h, s)]
  OBVIOUS
<1>6. k = [s \in SUBSET S |-> At(k, s)]
  <2> HIDE DEF At
  <2> QED BY <1>2, <1>5
<1> HIDE DEF At
<1> QED BY <1>3, <1>4, <1>5, <1>6

LEMMA SumOfNone ==
  ASSUME NEW f
  PROVE  SumFunctionOnSet(f, {}) = 0
<1>1. PICK g : Sums(g, f, {})
  BY FS_EmptySet, SumsExist
<1> QED BY <1>1, FS_EmptySet, SumInTable DEF Sums

\* One more summand.
LEMMA SumOfMore ==
  ASSUME NEW S, IsFiniteSet(S), NEW f, \A x \in S : f[x] \in Int
  PROVE  /\ SumFunctionOnSet(f, S) \in Int
         /\ \A x \in S : SumFunctionOnSet(f, S) = f[x] + SumFunctionOnSet(f, S \ {x})
<1>1. PICK g : Sums(g, f, S)
  BY SumsExist
<1>2. SumFunctionOnSet(f, S) = g[S]
  BY <1>1, SumInTable
<1>3. g[S] \in Int
  BY <1>1 DEF Sums
<1>4. ASSUME NEW x \in S PROVE SumFunctionOnSet(f, S) = f[x] + SumFunctionOnSet(f, S \ {x})
  <2>1. PICK T : T = S \ {x}
    OBVIOUS
  <2>2. T \in SUBSET S /\ IsFiniteSet(T)
    BY <2>1, FS_Subset
  <2> DEFINE h == [s \in SUBSET T |-> g[s]]
  <2>3. Sums(h, f, T)
    <3>1. g \in [SUBSET S -> Int] /\ g[{}] = 0
      BY <1>1 DEF Sums
    <3>2. \A s \in SUBSET T : s \in SUBSET S
      BY <2>2
    <3>3. h \in [SUBSET T -> Int] /\ h[{}] = 0
      BY <3>1, <3>2
    <3>4. ASSUME NEW s \in SUBSET T, NEW y \in s PROVE h[s] = f[y] + h[s \ {y}]
      <4>1. g[s] = f[y] + g[s \ {y}]
        BY <1>1, <3>2 DEF Sums
      <4>2. h[s] = g[s] /\ h[s \ {y}] = g[s \ {y}]
        OBVIOUS
      <4> HIDE DEF h
      <4> QED BY <4>1, <4>2
    <3> HIDE DEF h
    <3> QED BY <3>3, <3>4 DEF Sums
  <2>4. SumFunctionOnSet(f, T) = h[T] /\ h[T] = g[T]
    <3>1. h[T] = g[T]
      OBVIOUS
    <3> HIDE DEF h
    <3> QED BY <2>2, <2>3, <3>1, SumInTable
  <2>5. g[S] = f[x] + g[T]
    BY <1>1, <2>1 DEF Sums
  <2> HIDE DEF h
  <2> QED BY <1>2, <2>1, <2>4, <2>5
<1> QED BY <1>2, <1>3, <1>4

LEMMA SumOfSame ==
  ASSUME NEW S, IsFiniteSet(S), NEW f, NEW g, \A x \in S : f[x] \in Int /\ f[x] = g[x]
  PROVE  SumFunctionOnSet(f, S) = SumFunctionOnSet(g, S)
<1>1. PICK h : Sums(h, f, S)
  BY SumsExist
<1>2. Sums(h, g, S)
  BY <1>1 DEF Sums
<1> QED BY <1>1, <1>2, SumInTable

-----------------------------------------------------------------------------
(* Clusters: their type, and what the operations write.                      *)

Resources == {"vcpu", "ram"}
RoomType == [vcpu : Int, ram : Int]
MachineType == [up : BOOLEAN, provisioning : BOOLEAN, used : RoomType]
PodType ==
  [workload : Workloads, state : {"pending", "starting", "ready", "lost"}, machine : Int,
   created : Int, readyAt : Int, lossAt : Int]
Actions ==
  {"trait-tick", "pod-ready", "evict", "machine-failure", "machine-recovery", "machine-joined"}
EventType == [at : Int, arg : Int, action : Actions]
ClusterType ==
  [machines : Seq(MachineType), pods : Seq(PodType \cup {Gone}), desired : [Workloads -> Int],
   events : Seq(EventType), accruedAt : Int,
   area : [ready : Int, pending : Int, allocated : Int, allocatable : Int]]

LEMMA PodsTyped ==
  ASSUME NEW c, c \in ClusterType
  PROVE  /\ Len(c.pods) \in Nat /\ DOMAIN c.pods = 1 .. Len(c.pods)
         /\ PodIds(c) \in SUBSET (1 .. Len(c.pods)) /\ Numbers(PodIds(c))
         /\ \A id \in PodIds(c) : c.pods[id] \in PodType
         /\ \A id \in DOMAIN c.pods : id \in PodIds(c) <=> c.pods[id] \in PodType
         /\ \A id \in DOMAIN c.pods : id \notin PodIds(c) <=> c.pods[id] = Gone
<1>1. c.pods \in Seq(PodType \cup {Gone})
  BY DEF ClusterType
<1>2. Len(c.pods) \in Nat /\ DOMAIN c.pods = 1 .. Len(c.pods)
  BY <1>1
<1>3. \A id \in 1 .. Len(c.pods) : c.pods[id] \in PodType \/ c.pods[id] = Gone
  BY <1>1
<1>4. Gone.state = "gone" /\ \A p \in PodType : p.state # "gone"
  BY DEF Gone, PodType
<1>5. Gone \notin PodType
  BY <1>4
<1>6. \A id \in DOMAIN c.pods : id \in PodIds(c) <=> c.pods[id].state # "gone"
  BY DEF PodIds
<1>7. PodIds(c) \in SUBSET (1 .. Len(c.pods))
  BY <1>2 DEF PodIds
<1>8. Numbers(PodIds(c))
  <2>1. IsFiniteSet(1 .. Len(c.pods))
    BY <1>2, FS_Interval
  <2>2. IsFiniteSet(PodIds(c))
    BY <1>7, <2>1, FS_Subset
  <2> QED BY <1>2, <1>7, <2>2 DEF Numbers
<1> QED BY <1>2, <1>3, <1>4, <1>5, <1>6, <1>7, <1>8

LEMMA MachinesTyped ==
  ASSUME NEW c, c \in ClusterType
  PROVE  /\ Len(c.machines) \in Nat /\ Places(c) = 1 .. Len(c.machines)
         /\ IsFiniteSet(Places(c))
         /\ \A m \in Places(c) : c.machines[m] \in MachineType
<1>1. c.machines \in Seq(MachineType)
  BY DEF ClusterType
<1>2. Len(c.machines) \in Nat /\ Places(c) = 1 .. Len(c.machines)
  BY <1>1 DEF Places
<1>3. IsFiniteSet(1 .. Len(c.machines))
  BY <1>2, FS_Interval
<1> QED BY <1>1, <1>2, <1>3

LEMMA PodSets ==
  ASSUME NEW c, c \in ClusterType, NEW w, NEW s, NEW m
  PROVE  /\ PodsOf(c, w) \in SUBSET PodIds(c) /\ Numbers(PodsOf(c, w))
         /\ InState(c, s) \in SUBSET PodIds(c) /\ Numbers(InState(c, s))
         /\ Bound(c, m) \in SUBSET PodIds(c) /\ Numbers(Bound(c, m))
         /\ Cardinality(PodsOf(c, w)) \in Nat /\ ReadyCount(c, w) \in Nat
<1>1. PodsOf(c, w) \in SUBSET PodIds(c) /\ InState(c, s) \in SUBSET PodIds(c)
         /\ Bound(c, m) \in SUBSET PodIds(c)
  BY DEF PodsOf, InState, Bound
<1>2. \A S \in SUBSET PodIds(c) : Numbers(S) /\ Cardinality(S) \in Nat
  BY PodsTyped, FS_Subset, FS_CardinalityType DEF Numbers
<1>3. PodsOf(c, w) \cap InState(c, "ready") \in SUBSET PodIds(c)
  BY <1>1
<1> QED BY <1>1, <1>2, <1>3 DEF ReadyCount

\* What depends on the machines and the pods alone.
Alike(c, d) == d.machines = c.machines /\ d.pods = c.pods

LEMMA AlikeSets ==
  ASSUME NEW c, NEW d, Alike(c, d)
  PROVE  /\ Places(d) = Places(c) /\ PodIds(d) = PodIds(c) /\ Rates(d) = Rates(c)
         /\ \A s : InState(d, s) = InState(c, s)
         /\ \A w : PodsOf(d, w) = PodsOf(c, w) /\ ReadyCount(d, w) = ReadyCount(c, w)
         /\ \A m : Bound(d, m) = Bound(c, m)
         /\ \A id : SizeOf(d, id) = SizeOf(c, id) /\ Fitting(d, id) = Fitting(c, id)
<1>1. Places(d) = Places(c) /\ PodIds(d) = PodIds(c)
  BY DEF Alike, Places, PodIds
<1>2. \A s : InState(d, s) = InState(c, s)
  BY <1>1 DEF Alike, InState
<1>3. \A w : PodsOf(d, w) = PodsOf(c, w)
  BY <1>1 DEF Alike, PodsOf
<1>4. \A m : Bound(d, m) = Bound(c, m)
  BY <1>1 DEF Alike, Bound
<1>5. \A id : SizeOf(d, id) = SizeOf(c, id)
  BY DEF Alike, SizeOf
<1>6. \A id : Fitting(d, id) = Fitting(c, id)
  BY <1>1, <1>5 DEF Alike, Fitting
<1>7. Rates(d) = Rates(c)
  BY <1>1, <1>2 DEF Alike, Rates
<1> QED BY <1>1, <1>2, <1>3, <1>4, <1>5, <1>6, <1>7 DEF ReadyCount

LEMMA SizesTyped ==
  ASSUME NEW c, c \in ClusterType, NEW id \in PodIds(c)
  PROVE  /\ SizeOf(c, id) \in SizeType /\ MachineSize \in SizeType
         /\ \A r \in Resources : SizeOf(c, id)[r] \in Nat /\ MachineSize[r] \in Nat
<1>1. c.pods[id].workload \in Workloads
  BY PodsTyped DEF PodType
<1>2. SizeOf(c, id) \in SizeType /\ MachineSize \in SizeType
  BY <1>1, ClusterAssumption DEF SizeOf
<1> QED BY <1>2 DEF SizeType, Resources

-----------------------------------------------------------------------------
(* The books of the machines.                                                *)

Asks(c, r) == [id \in PodIds(c) |-> SizeOf(c, id)[r]]
Load(c, m, r) == SumFunctionOnSet(Asks(c, r), Bound(c, m))

\* A pod that does not wait is on a machine, and lost exactly when that is down.
PodOk(c, id) ==
  IF c.pods[id].state = "pending" THEN c.pods[id].machine = NoMachine
  ELSE /\ c.pods[id].machine \in Places(c)
       /\ ~c.machines[c.pods[id].machine].provisioning
       /\ c.machines[c.pods[id].machine].up <=> c.pods[id].state # "lost"

MachineOk(c, m) ==
  /\ c.machines[m].provisioning => ~c.machines[m].up
  /\ \A r \in Resources :
       c.machines[m].used[r] = Load(c, m, r) /\ c.machines[m].used[r] <= MachineSize[r]

RoomOk(c) ==
  (\A id \in PodIds(c) : PodOk(c, id)) /\ (\A m \in Places(c) : MachineOk(c, m))

LEMMA AlikeRoom ==
  ASSUME NEW c, NEW d, Alike(c, d)
  PROVE  RoomOk(d) <=> RoomOk(c)
<1>1. Places(d) = Places(c) /\ PodIds(d) = PodIds(c)
  BY AlikeSets
<1>2. \A r : Asks(d, r) = Asks(c, r)
  BY <1>1, AlikeSets DEF Asks
<1>3. \A m, r : Load(d, m, r) = Load(c, m, r)
  BY <1>2, AlikeSets DEF Load
<1>4. \A id : PodOk(d, id) <=> PodOk(c, id)
  BY <1>1 DEF PodOk, Alike
<1>5. \A m : MachineOk(d, m) <=> MachineOk(c, m)
  BY <1>3 DEF MachineOk, Alike
<1> QED BY <1>1, <1>4, <1>5 DEF RoomOk

LEMMA LoadTyped ==
  ASSUME NEW c, c \in ClusterType, NEW m, NEW r \in Resources
  PROVE  /\ Load(c, m, r) \in Int
         /\ IsFiniteSet(Bound(c, m)) /\ \A id \in Bound(c, m) : Asks(c, r)[id] \in Int
         /\ Bound(c, m) \in SUBSET PodIds(c)
<1>1. \A id \in PodIds(c) : Asks(c, r)[id] = SizeOf(c, id)[r] /\ SizeOf(c, id)[r] \in Nat
  BY SizesTyped DEF Asks
<1>2. Bound(c, m) \in SUBSET PodIds(c) /\ IsFiniteSet(Bound(c, m))
  BY PodSets DEF Numbers
<1>3. \A id \in Bound(c, m) : Asks(c, r)[id] \in Int
  BY <1>1, <1>2
<1> QED BY <1>2, <1>3, SumOfMore DEF Load

\* What is bound to a machine decides its load.
LEMMA LoadSame ==
  ASSUME NEW c, c \in ClusterType, NEW d, d \in ClusterType, NEW m, Bound(d, m) = Bound(c, m),
         \A id \in Bound(c, m) : d.pods[id].workload = c.pods[id].workload
  PROVE  \A r \in Resources : Load(d, m, r) = Load(c, m, r)
<1> SUFFICES ASSUME NEW r \in Resources PROVE Load(d, m, r) = Load(c, m, r)
  OBVIOUS
<1>1. \A id \in Bound(c, m) : id \in PodIds(c) /\ id \in PodIds(d)
  BY LoadTyped
<1>2. \A id \in Bound(c, m) : Asks(c, r)[id] = Asks(d, r)[id]
  BY <1>1 DEF Asks, SizeOf
<1>3. IsFiniteSet(Bound(c, m)) /\ \A id \in Bound(c, m) : Asks(c, r)[id] \in Int
  BY LoadTyped
<1>4. SumFunctionOnSet(Asks(c, r), Bound(c, m)) = SumFunctionOnSet(Asks(d, r), Bound(c, m))
  BY <1>2, <1>3, SumOfSame
<1> QED BY <1>4 DEF Load

LEMMA LoadMore ==
  ASSUME NEW c, c \in ClusterType, NEW d, d \in ClusterType, NEW m, NEW id,
         id \notin Bound(c, m), Bound(d, m) = Bound(c, m) \cup {id},
         \A k \in Bound(c, m) : d.pods[k].workload = c.pods[k].workload
  PROVE  \A r \in Resources : Load(d, m, r) = SizeOf(d, id)[r] + Load(c, m, r)
<1> SUFFICES ASSUME NEW r \in Resources PROVE Load(d, m, r) = SizeOf(d, id)[r] + Load(c, m, r)
  OBVIOUS
<1>1. \A k \in Bound(d, m) : k \in PodIds(d)
  BY LoadTyped
<1>2. \A k \in Bound(c, m) : k \in PodIds(c) /\ k \in PodIds(d)
  BY <1>1, LoadTyped
<1>3. \A k \in Bound(c, m) : Asks(c, r)[k] = Asks(d, r)[k]
  BY <1>2 DEF Asks, SizeOf
<1>4. IsFiniteSet(Bound(c, m)) /\ \A k \in Bound(c, m) : Asks(c, r)[k] \in Int
  BY LoadTyped
<1>5. SumFunctionOnSet(Asks(c, r), Bound(c, m)) = SumFunctionOnSet(Asks(d, r), Bound(c, m))
  BY <1>3, <1>4, SumOfSame
<1>6. IsFiniteSet(Bound(d, m)) /\ \A k \in Bound(d, m) : Asks(d, r)[k] \in Int
  BY LoadTyped
<1>7. id \in Bound(d, m) /\ Bound(d, m) \ {id} = Bound(c, m) /\ Asks(d, r)[id] = SizeOf(d, id)[r]
  BY <1>1 DEF Asks
<1>8. SumFunctionOnSet(Asks(d, r), Bound(d, m))
        = Asks(d, r)[id] + SumFunctionOnSet(Asks(d, r), Bound(d, m) \ {id})
  BY <1>6, <1>7, SumOfMore
<1> QED BY <1>5, <1>7, <1>8 DEF Load

-----------------------------------------------------------------------------
(* A pod takes a place.                                                      *)

Placed(c, id, m, s, t) ==
  [Bind(c, id, m) EXCEPT !.pods[id].state = s, !.pods[id].readyAt = t]

\* What such a step writes, and what it leaves.
Took(c, d, id, m, s) ==
  /\ d \in ClusterType /\ DOMAIN d.pods = DOMAIN c.pods /\ PodIds(d) = PodIds(c)
  /\ \A k \in DOMAIN c.pods : k # id => d.pods[k] = c.pods[k]
  /\ d.pods[id].machine = m /\ d.pods[id].state = s
  /\ d.pods[id].workload = c.pods[id].workload
  /\ Places(d) = Places(c)
  /\ \A n \in Places(c) : n # m => d.machines[n] = c.machines[n]
  /\ d.machines[m].up = c.machines[m].up
  /\ d.machines[m].provisioning = c.machines[m].provisioning
  /\ \A r \in Resources : d.machines[m].used[r] = c.machines[m].used[r] + SizeOf(c, id)[r]
  /\ d.desired = c.desired /\ d.area = c.area /\ d.accruedAt = c.accruedAt

LEMMA PlacedFields ==
  ASSUME NEW c, c \in ClusterType, NEW id \in InState(c, "pending"), NEW m \in Places(c),
         NEW s \in {"starting", "ready"}, NEW t \in Int
  PROVE  Took(c, Placed(c, id, m, s, t), id, m, s)
<1> DEFINE d == Placed(c, id, m, s, t)
<1>1. id \in PodIds(c) /\ id \in DOMAIN c.pods /\ c.pods[id] \in PodType
  BY PodsTyped DEF InState
<1>2. c.machines[m] \in MachineType /\ m \in DOMAIN c.machines
  BY MachinesTyped DEF Places
<1>3. PICK u : u = Plus(c.machines[m].used, SizeOf(c, id))
  OBVIOUS
<1>4. u \in RoomType /\ \A r \in Resources : u[r] = c.machines[m].used[r] + SizeOf(c, id)[r]
  BY <1>1, <1>2, <1>3, SizesTyped DEF Plus, RoomType, Resources, MachineType, SizeType
<1>5. PICK p : p = [c.pods[id] EXCEPT !.machine = m, !.state = s, !.readyAt = t]
  OBVIOUS
<1>6. p \in PodType /\ p.machine = m /\ p.state = s /\ p.workload = c.pods[id].workload
  <2>1. m \in Int
    BY MachinesTyped
  <2> QED BY <1>1, <1>5, <2>1 DEF PodType
<1>7. PICK q : q = [c.machines[m] EXCEPT !.used = u]
  OBVIOUS
<1>8. q \in MachineType /\ q.up = c.machines[m].up /\ q.provisioning = c.machines[m].provisioning
         /\ q.used = u
  BY <1>2, <1>4, <1>7 DEF MachineType
<1>9. d = [c EXCEPT !.pods = [c.pods EXCEPT ![id] = p], !.machines = [c.machines EXCEPT ![m] = q]]
  <2>1. PICK o : o = [c.pods[id] EXCEPT !.machine = m]
    OBVIOUS
  <2>2. Bind(c, id, m) = [c EXCEPT !.pods = [c.pods EXCEPT ![id] = o],
                                   !.machines = [c.machines EXCEPT ![m] = q]]
    BY <1>1, <1>2, <1>3, <1>7, <2>1 DEF Bind, ClusterType
  <2>3. p = [o EXCEPT !.state = s, !.readyAt = t]
    BY <1>1, <1>5, <2>1 DEF PodType
  <2>4. d = [Bind(c, id, m) EXCEPT !.pods = [[c.pods EXCEPT ![id] = o] EXCEPT ![id] = p]]
    <3>1. PICK b : b = Bind(c, id, m)
      OBVIOUS
    <3>2. b.pods = [c.pods EXCEPT ![id] = o] /\ b.pods[id] = o
      BY <1>1, <2>2, <3>1 DEF ClusterType
    <3>3. d = [b EXCEPT !.pods = [b.pods EXCEPT ![id] = [b.pods[id] EXCEPT !.state = s, !.readyAt = t]]]
      BY <3>1 DEF Placed
    <3> QED BY <2>3, <3>1, <3>2, <3>3
  <2>5. [[c.pods EXCEPT ![id] = o] EXCEPT ![id] = p] = [c.pods EXCEPT ![id] = p]
    OBVIOUS
  <2> QED BY <2>2, <2>4, <2>5 DEF ClusterType
<1> HIDE DEF d
<1>10. /\ d.pods = [c.pods EXCEPT ![id] = p] /\ d.machines = [c.machines EXCEPT ![m] = q]
       /\ d.desired = c.desired /\ d.events = c.events /\ d.area = c.area
       /\ d.accruedAt = c.accruedAt
  BY <1>9 DEF ClusterType
<1>11. d \in ClusterType
  <2>1. c.pods \in Seq(PodType \cup {Gone}) /\ c.machines \in Seq(MachineType)
    BY DEF ClusterType
  <2>2. [c.pods EXCEPT ![id] = p] \in Seq(PodType \cup {Gone})
    BY <1>1, <1>6, <2>1, PodsTyped, ExceptSeq
  <2>3. [c.machines EXCEPT ![m] = q] \in Seq(MachineType)
    BY <1>8, <2>1, MachinesTyped, ExceptSeq
  <2> QED BY <1>9, <2>2, <2>3 DEF ClusterType
<1>12. PodIds(d) = PodIds(c)
  BY <1>1, <1>6, <1>10 DEF PodIds, PodType
<1>13. Places(d) = Places(c)
  BY <1>10 DEF Places
<1> QED BY <1>1, <1>2, <1>4, <1>6, <1>8, <1>10, <1>11, <1>12, <1>13 DEF d, Took

\* What goes on elsewhere leaves a pod and a machine in order.
LEMMA PodStays ==
  ASSUME NEW c, NEW d, NEW k, PodOk(c, k), d.pods[k] = c.pods[k],
         \A n \in Places(c) : /\ n \in Places(d) /\ d.machines[n].up = c.machines[n].up
                              /\ d.machines[n].provisioning = c.machines[n].provisioning
  PROVE  PodOk(d, k)
BY DEF PodOk

LEMMA MachineStays ==
  ASSUME NEW c, c \in ClusterType, NEW d, d \in ClusterType, NEW n, MachineOk(c, n),
         d.machines[n] = c.machines[n], Bound(d, n) = Bound(c, n),
         \A k \in Bound(c, n) : d.pods[k].workload = c.pods[k].workload
  PROVE  MachineOk(d, n)
<1>1. \A r \in Resources : Load(d, n, r) = Load(c, n, r)
  BY LoadSame
<1> QED BY <1>1 DEF MachineOk

LEMMA TookRoom ==
  ASSUME NEW c, c \in ClusterType, RoomOk(c), NEW id \in InState(c, "pending"),
         NEW m \in Fitting(c, id), NEW s \in {"starting", "ready"}, NEW d, Took(c, d, id, m, s)
  PROVE  RoomOk(d)
<1>2. /\ m \in Places(c) /\ c.machines[m].up
      /\ \A r \in Resources : c.machines[m].used[r] + SizeOf(c, id)[r] <= MachineSize[r]
  BY DEF Fitting, Fits, Resources
<1>3. /\ d \in ClusterType /\ DOMAIN d.pods = DOMAIN c.pods /\ PodIds(d) = PodIds(c)
      /\ \A k \in DOMAIN c.pods : k # id => d.pods[k] = c.pods[k]
      /\ d.pods[id].machine = m /\ d.pods[id].state = s
      /\ d.pods[id].workload = c.pods[id].workload
      /\ Places(d) = Places(c)
      /\ \A n \in Places(c) : n # m => d.machines[n] = c.machines[n]
      /\ d.machines[m].up = c.machines[m].up
      /\ d.machines[m].provisioning = c.machines[m].provisioning
      /\ \A r \in Resources : d.machines[m].used[r] = c.machines[m].used[r] + SizeOf(c, id)[r]
  BY DEF Took
<1>4. id \in PodIds(c) /\ c.pods[id].machine = NoMachine /\ ~c.machines[m].provisioning
  BY <1>2 DEF InState, RoomOk, PodOk, MachineOk
<1>5. NoMachine \notin Places(c) /\ PodIds(c) \subseteq DOMAIN c.pods
  BY MachinesTyped DEF NoMachine, PodIds
<1>6. ASSUME NEW k \in PodIds(d) PROVE PodOk(d, k)
  <2>1. CASE k = id
    BY <1>2, <1>3, <1>4, <2>1 DEF PodOk
  <2>2. CASE k # id
    BY <1>3, <1>5, <2>2, PodStays DEF RoomOk
  <2> QED BY <2>1, <2>2
<1>7. ASSUME NEW n \in Places(d) PROVE MachineOk(d, n)
  <2>1. MachineOk(c, n)
    BY <1>3 DEF RoomOk
  <2>2. Bound(c, n) \subseteq PodIds(c) /\ id \notin Bound(c, n)
    BY <1>3, <1>4, <1>5 DEF Bound
  <2>3. \A k \in Bound(c, n) : d.pods[k] = c.pods[k]
    BY <1>3, <1>5, <2>2
  <2>4. CASE n = m
    <3>1. Bound(d, n) = Bound(c, n) \cup {id}
      BY <1>3, <1>4, <1>5, <2>4 DEF Bound
    <3>2. \A r \in Resources : Load(d, n, r) = SizeOf(d, id)[r] + Load(c, n, r)
      BY <1>3, <2>2, <2>3, <3>1, LoadMore
    <3>3. \A r \in Resources : Load(c, n, r) \in Int /\ SizeOf(c, id)[r] \in Int
      BY <1>4, LoadTyped, SizesTyped
    <3>4. SizeOf(d, id) = SizeOf(c, id)
      BY <1>3 DEF SizeOf
    <3> QED BY <1>2, <1>3, <2>1, <2>4, <3>2, <3>3, <3>4 DEF MachineOk
  <2>5. CASE n # m
    <3>1. Bound(d, n) = Bound(c, n)
      BY <1>3, <1>4, <1>5, <2>5 DEF Bound
    <3> QED BY <1>3, <2>1, <2>3, <2>5, <3>1, MachineStays
  <2> QED BY <2>4, <2>5
<1> QED BY <1>6, <1>7 DEF RoomOk

\* A pod leaves its place and is gone.
Removed(c, id) == DeletePod(Unbind(c, id), id)

Gave(c, d, id) ==
  LET m == c.pods[id].machine
  IN  /\ d \in ClusterType /\ DOMAIN d.pods = DOMAIN c.pods /\ PodIds(d) = PodIds(c) \ {id}
      /\ \A k \in DOMAIN c.pods : k # id => d.pods[k] = c.pods[k]
      /\ Places(d) = Places(c)
      /\ \A n \in Places(c) :
           /\ d.machines[n].up = c.machines[n].up
           /\ d.machines[n].provisioning = c.machines[n].provisioning
           /\ \A r \in Resources : d.machines[n].used[r]
                = c.machines[n].used[r] - IF n = m THEN SizeOf(c, id)[r] ELSE 0
      /\ d.desired = c.desired /\ d.area = c.area /\ d.accruedAt = c.accruedAt

LEMMA RemovedFields ==
  ASSUME NEW c, c \in ClusterType, RoomOk(c), NEW id \in PodIds(c)
  PROVE  Gave(c, Removed(c, id), id)
<1>0. /\ SizeOf(c, id) \in SizeType
      /\ \A n \in Places(c) : c.machines[n].used \in RoomType
  BY SizesTyped, MachinesTyped DEF MachineType
<1>1. PICK m : m = c.pods[id].machine
  OBVIOUS
<1>2. PICK d : d = Removed(c, id)
  OBVIOUS
<1>3. id \in DOMAIN c.pods /\ c.pods[id] \in PodType /\ id \in 1 .. Len(c.pods)
  BY PodsTyped
<1>4. c.pods \in Seq(PodType \cup {Gone}) /\ c.machines \in Seq(MachineType)
  BY DEF ClusterType
<1>5. [c.pods EXCEPT ![id] = Gone] \in Seq(PodType \cup {Gone})
  BY <1>3, <1>4, ExceptSeq
<1>6. CASE m = NoMachine
  <2>1. d = [c EXCEPT !.pods = [c.pods EXCEPT ![id] = Gone]]
    BY <1>1, <1>2, <1>6 DEF Removed, Unbind, DeletePod
  <2>2. d \in ClusterType
    BY <1>5, <2>1 DEF ClusterType
  <2>3. /\ d.pods = [c.pods EXCEPT ![id] = Gone] /\ d.machines = c.machines
        /\ d.desired = c.desired /\ d.area = c.area /\ d.accruedAt = c.accruedAt
    BY <2>1 DEF ClusterType
  <2>4. m \notin Places(c)
    BY <1>6, MachinesTyped DEF NoMachine
  <2>5. PodIds(d) = PodIds(c) \ {id} /\ Places(d) = Places(c)
    BY <1>3, <2>3 DEF PodIds, Places, Gone
  <2>6. \A n \in Places(c) : \A r \in Resources : c.machines[n].used[r] \in Int
    BY <1>0 DEF RoomType, Resources
  <2>7. \A n \in Places(c) : \A r \in Resources : d.machines[n].used[r]
          = c.machines[n].used[r] - IF n = m THEN SizeOf(c, id)[r] ELSE 0
    BY <2>3, <2>4, <2>6
  <2> QED BY <1>1, <1>2, <1>3, <2>2, <2>3, <2>5, <2>7 DEF Gave
<1>7. CASE m # NoMachine
  <2>1. m \in Places(c) /\ c.machines[m] \in MachineType /\ m \in 1 .. Len(c.machines)
    BY <1>1, <1>7, MachinesTyped DEF RoomOk, PodOk
  <2>2. PICK u : u = Minus(c.machines[m].used, SizeOf(c, id))
    OBVIOUS
  <2>3. u \in RoomType /\ \A r \in Resources : u[r] = c.machines[m].used[r] - SizeOf(c, id)[r]
    BY <1>0, <2>1, <2>2 DEF Minus, RoomType, Resources, SizeType
  <2>4. PICK q : q = [c.machines[m] EXCEPT !.used = u]
    OBVIOUS
  <2>5. q \in MachineType /\ q.up = c.machines[m].up /\ q.provisioning = c.machines[m].provisioning
           /\ q.used = u
    BY <2>1, <2>3, <2>4 DEF MachineType
  <2>6. d = [c EXCEPT !.pods = [c.pods EXCEPT ![id] = Gone], !.machines = [c.machines EXCEPT ![m] = q]]
    <3>1. PICK o : o = [c.pods[id] EXCEPT !.machine = NoMachine]
      OBVIOUS
    <3>2. Unbind(c, id) = [c EXCEPT !.pods = [c.pods EXCEPT ![id] = o],
                                    !.machines = [c.machines EXCEPT ![m] = q]]
      BY <1>1, <1>3, <1>7, <2>1, <2>2, <2>4, <3>1 DEF Unbind, ClusterType
    <3>3. d = [Unbind(c, id) EXCEPT !.pods = [[c.pods EXCEPT ![id] = o] EXCEPT ![id] = Gone]]
      BY <1>2, <3>2 DEF Removed, DeletePod, ClusterType
    <3>4. [[c.pods EXCEPT ![id] = o] EXCEPT ![id] = Gone] = [c.pods EXCEPT ![id] = Gone]
      OBVIOUS
    <3> QED BY <3>2, <3>3, <3>4 DEF ClusterType
  <2>7. /\ d.pods = [c.pods EXCEPT ![id] = Gone] /\ d.machines = [c.machines EXCEPT ![m] = q]
        /\ d.desired = c.desired /\ d.area = c.area /\ d.accruedAt = c.accruedAt
    BY <2>6 DEF ClusterType
  <2>8. d \in ClusterType
    <3>1. [c.machines EXCEPT ![m] = q] \in Seq(MachineType)
      BY <1>4, <2>1, <2>5, ExceptSeq
    <3> QED BY <1>5, <2>6, <3>1 DEF ClusterType
  <2>9. PodIds(d) = PodIds(c) \ {id} /\ Places(d) = Places(c)
    BY <1>3, <2>7 DEF PodIds, Places, Gone
  <2>10. ASSUME NEW n \in Places(c)
         PROVE  /\ d.machines[n].up = c.machines[n].up
                /\ d.machines[n].provisioning = c.machines[n].provisioning
                /\ \A r \in Resources : d.machines[n].used[r]
                     = c.machines[n].used[r] - IF n = m THEN SizeOf(c, id)[r] ELSE 0
    <3>1. CASE n = m
      <4>1. d.machines[n] = q
        BY <2>1, <2>7, <3>1 DEF Places
      <4> QED BY <2>3, <2>5, <3>1, <4>1
    <3>2. CASE n # m
      <4>1. d.machines[n] = c.machines[n]
        BY <2>7, <3>2 DEF Places
      <4>2. \A r \in Resources : c.machines[n].used[r] \in Int
        BY <1>0 DEF RoomType, Resources
      <4> QED BY <3>2, <4>1, <4>2
    <3> QED BY <3>1, <3>2
  <2> QED BY <1>1, <1>2, <1>3, <2>7, <2>8, <2>9, <2>10 DEF Gave
<1> QED BY <1>6, <1>7

LEMMA GaveRoom ==
  ASSUME NEW c, c \in ClusterType, RoomOk(c), NEW id \in PodIds(c), NEW d, Gave(c, d, id)
  PROVE  RoomOk(d)
<1>2. PICK m : m = c.pods[id].machine
  OBVIOUS
<1>3. /\ d \in ClusterType /\ DOMAIN d.pods = DOMAIN c.pods /\ PodIds(d) = PodIds(c) \ {id}
      /\ \A k \in DOMAIN c.pods : k # id => d.pods[k] = c.pods[k]
      /\ Places(d) = Places(c)
      /\ \A n \in Places(c) :
           /\ d.machines[n].up = c.machines[n].up
           /\ d.machines[n].provisioning = c.machines[n].provisioning
           /\ \A r \in Resources : d.machines[n].used[r]
                = c.machines[n].used[r] - IF n = m THEN SizeOf(c, id)[r] ELSE 0
  BY <1>2 DEF Gave
<1>4. \A k \in PodIds(d) : k \in DOMAIN c.pods /\ k # id /\ k \in PodIds(c)
  BY <1>3, PodsTyped
<1>5. ASSUME NEW k \in PodIds(d) PROVE PodOk(d, k)
  <2>1. PodOk(c, k) /\ d.pods[k] = c.pods[k]
    BY <1>3, <1>4 DEF RoomOk
  <2> QED BY <1>3, <2>1, PodStays
<1>6. ASSUME NEW n \in Places(d) PROVE MachineOk(d, n)
  <2>1. MachineOk(c, n) /\ n \in Places(c)
    BY <1>3 DEF RoomOk
  <2>2. Bound(d, n) = Bound(c, n) \ {id} /\ (id \in Bound(c, n) <=> n = m)
    BY <1>2, <1>3, <1>4, PodsTyped DEF Bound
  <2>3. \A k \in Bound(d, n) : d.pods[k] = c.pods[k]
    BY <1>3, <1>4 DEF Bound
  <2>4. \A r \in Resources : /\ Load(d, n, r) \in Int /\ SizeOf(c, id)[r] \in Nat
                                /\ MachineSize[r] \in Nat /\ c.machines[n].used[r] \in Int
    <3>1. c.machines[n].used \in RoomType
      BY <2>1, MachinesTyped DEF MachineType
    <3>2. \A r \in Resources : c.machines[n].used[r] \in Int
      BY <3>1 DEF RoomType, Resources
    <3>3. \A r \in Resources : Load(d, n, r) \in Int
      BY <1>3, LoadTyped
    <3>4. \A r \in Resources : SizeOf(c, id)[r] \in Nat /\ MachineSize[r] \in Nat
      BY SizesTyped
    <3> QED BY <3>2, <3>3, <3>4
  <2>5. CASE n = m
    <3>1. Bound(c, n) = Bound(d, n) \cup {id} /\ id \notin Bound(d, n)
      BY <2>2, <2>5
    <3>2. \A r \in Resources : Load(c, n, r) = SizeOf(c, id)[r] + Load(d, n, r)
      BY <1>3, <2>3, <3>1, LoadMore
    <3> QED BY <1>3, <2>1, <2>4, <2>5, <3>2 DEF MachineOk
  <2>6. CASE n # m
    <3>1. Bound(d, n) = Bound(c, n)
      BY <2>2, <2>6
    <3>2. \A r \in Resources : Load(d, n, r) = Load(c, n, r)
      BY <1>3, <2>3, <3>1, LoadSame
    <3>3. \A r \in Resources : d.machines[n].used[r] = c.machines[n].used[r]
      BY <1>3, <2>1, <2>4, <2>6
    <3> QED BY <1>3, <2>1, <3>2, <3>3 DEF MachineOk
  <2> QED BY <2>5, <2>6
<1> QED BY <1>5, <1>6 DEF RoomOk

-----------------------------------------------------------------------------
(* Events, and the machine chosen.                                           *)

\* A cluster with other events.
Same(c, d) ==
  /\ d \in ClusterType /\ Alike(c, d)
  /\ d.desired = c.desired /\ d.area = c.area /\ d.accruedAt = c.accruedAt

LEMMA ScheduledSame ==
  ASSUME NEW c, c \in ClusterType, NEW t \in Int, NEW action \in Actions, NEW arg \in Int
  PROVE  Same(c, Schedule(c, t, action, arg))
<1>1. PICK v : v = c.events
  OBVIOUS
<1>2. v \in Seq(EventType)
  BY <1>1 DEF ClusterType
<1>3. Len(v) \in Nat /\ DOMAIN v = 1 .. Len(v) /\ \A i \in 1 .. Len(v) : v[i] \in EventType
  BY <1>2
<1>4. PICK n : n = Cardinality({i \in DOMAIN v : v[i].at <= t})
  OBVIOUS
<1>5. n \in Nat /\ n <= Len(v)
  <2>1. IsFiniteSet(1 .. Len(v)) /\ Cardinality(1 .. Len(v)) = Len(v)
    BY ONLY <1>3, FS_Interval
  <2>2. PICK E : E = {i \in DOMAIN v : v[i].at <= t}
    OBVIOUS
  <2>3. E \in SUBSET (1 .. Len(v))
    BY <1>3, <2>2
  <2> QED BY <1>4, <2>1, <2>2, <2>3, FS_Subset, FS_CardinalityType
<1>6. PICK e : e = [at |-> t, action |-> action, arg |-> arg]
  OBVIOUS
<1>7. e \in EventType
  BY <1>6 DEF EventType
<1>8. SubSeq(v, 1, n) \in Seq(EventType) /\ SubSeq(v, n + 1, Len(v)) \in Seq(EventType)
  BY <1>3, <1>5, SubSeqProperties
<1>9. <<e>> \in Seq(EventType)
  BY <1>7
<1>10. SubSeq(v, 1, n) \o <<e>> \in Seq(EventType)
  BY <1>8, <1>9, ConcatProperties
<1>11. PICK w : w = SubSeq(v, 1, n) \o <<e>> \o SubSeq(v, n + 1, Len(v))
  OBVIOUS
<1>12. w \in Seq(EventType)
  BY <1>8, <1>10, <1>11, ConcatProperties
<1>13. Schedule(c, t, action, arg) = [c EXCEPT !.events = w]
  BY <1>1, <1>4, <1>6, <1>11 DEF Schedule
<1> QED BY <1>12, <1>13 DEF Same, Alike, ClusterType

LEMMA ScheduleEachSame ==
  ASSUME NEW c, c \in ClusterType, NEW t \in Int, NEW action \in Actions, NEW S, Numbers(S)
  PROVE  Same(c, ScheduleEach(c, S, t, action))
<1> DEFINE G == (SUBSET S) \X {d \in ClusterType : Same(c, d)}
<1>1. <<{}, c>> \in G
  BY DEF Same, Alike
<1>2. ASSUME NEW s \in SUBSET S, NEW d, s # {}, <<s \ {Max(s)}, d>> \in G
      PROVE  <<s, Step("schedule", t, action, d, Max(s))>> \in G
  <2>1. Numbers(s)
    BY FS_Subset DEF Numbers
  <2>2. Max(s) \in Int
    <3> HIDE DEF G
    <3>1. s # {}
      BY <1>2
    <3>2. Max(s) \in s
      BY <2>1, <3>1, LessOne
    <3>3. \A x \in s : x \in Int
      BY <2>1 DEF Numbers
    <3> QED BY <3>2, <3>3
  <2>3. d \in ClusterType /\ Same(c, d)
    BY <1>2
  <2>4. Same(d, Schedule(d, t, action, Max(s)))
    BY <2>2, <2>3, ScheduledSame
  <2>5. Same(c, Schedule(d, t, action, Max(s)))
    BY <2>3, <2>4 DEF Same, Alike
  <2>6. Step("schedule", t, action, d, Max(s)) = Schedule(d, t, action, Max(s))
    BY DEF Step
  <2> QED BY <2>5, <2>6 DEF Same
<1>3. <<S, Folded("schedule", t, action, c, S)>> \in G
  <2> HIDE DEF G
  <2> QED BY <1>1, <1>2, FoldKeeps
<1> QED BY <1>3, TheFolds

\* Of a finite set with keys that differ in their last part, one comes first.
Ahead(a, b) == \E i \in 1 .. 3 : a[i] < b[i] /\ \A j \in 1 .. i - 1 : a[j] = b[j]

LEMMA AheadOrders ==
  ASSUME NEW a \in Int \X Int \X Int, NEW b \in Int \X Int \X Int, NEW c \in Int \X Int \X Int
  PROVE  /\ a[3] # b[3] => Ahead(a, b) \/ Ahead(b, a)
         /\ Ahead(a, b) /\ Ahead(b, c) => Ahead(a, c)
<1>1. ASSUME NEW x \in Int \X Int \X Int, NEW y \in Int \X Int \X Int
      PROVE  Ahead(x, y) <=> \/ x[1] < y[1]
                             \/ x[1] = y[1] /\ x[2] < y[2]
                             \/ x[1] = y[1] /\ x[2] = y[2] /\ x[3] < y[3]
  <2>1. 1 .. 3 = {1, 2, 3} /\ 1 .. 1 - 1 = {} /\ 1 .. 2 - 1 = {1} /\ 1 .. 3 - 1 = {1, 2}
    OBVIOUS
  <2> QED BY <2>1 DEF Ahead
<1>2. /\ a[1] \in Int /\ a[2] \in Int /\ a[3] \in Int /\ b[1] \in Int /\ b[2] \in Int
      /\ b[3] \in Int /\ c[1] \in Int /\ c[2] \in Int /\ c[3] \in Int
  OBVIOUS
<1>3. a[3] # b[3] => Ahead(a, b) \/ Ahead(b, a)
  BY <1>1, <1>2
<1>4. ASSUME Ahead(a, b), Ahead(b, c) PROVE Ahead(a, c)
  BY <1>1, <1>2, <1>4
<1> QED BY <1>3, <1>4

LEMMA OneComesFirst ==
  ASSUME NEW S, IsFiniteSet(S), S # {}, NEW K, \A m \in S : K[m] \in Int \X Int \X Int,
         \A m, n \in S : m # n => K[m][3] # K[n][3]
  PROVE  \E m \in S : \A n \in S \ {m} : Ahead(K[m], K[n])
<1> DEFINE D == {s \in SUBSET S : s # {} => \E m \in s : \A n \in s \ {m} : Ahead(K[m], K[n])}
<1>1. {} \in D
  OBVIOUS
<1>2. ASSUME NEW s \in SUBSET S, s # {}, \A x \in s : s \ {x} \in D PROVE s \in D
  <2>1. PICK y \in s : y \in S
    BY <1>2
  <2>2. CASE s = {y}
    BY <2>1, <2>2
  <2>3. CASE s # {y}
    <3>1. PICK m \in s \ {y} : \A n \in (s \ {y}) \ {m} : Ahead(K[m], K[n])
      BY <1>2, <2>1, <2>3
    <3>2. m \in S /\ m # y
      BY <3>1
    <3>3. CASE Ahead(K[m], K[y])
      <4>1. \A n \in s \ {m} : Ahead(K[m], K[n])
        BY <3>1, <3>3
      <4> QED BY <3>1, <4>1
    <3>4. CASE Ahead(K[y], K[m])
      <4>1. ASSUME NEW n \in s \ {y} PROVE Ahead(K[y], K[n])
        <5>1. n = m \/ Ahead(K[m], K[n])
          BY <3>1
        <5>2. K[n] \in Int \X Int \X Int /\ K[m] \in Int \X Int \X Int
              /\ K[y] \in Int \X Int \X Int
          BY <2>1, <3>2
        <5> QED BY <3>4, <5>1, <5>2, AheadOrders
      <4> QED BY <2>1, <4>1
    <3>5. Ahead(K[m], K[y]) \/ Ahead(K[y], K[m])
      BY <2>1, <3>2, AheadOrders
    <3> QED BY <3>3, <3>4, <3>5
  <2> QED BY <2>2, <2>3
<1>3. S \in D
  <2>1. IsFiniteSet(S)
    OBVIOUS
  <2> HIDE DEF D
  <2> QED BY ZenonT(40), <1>1, <1>2, <2>1, SetInduction
<1> QED BY <1>3

LEMMA ChosenFits ==
  ASSUME NEW c, c \in ClusterType, NEW id \in PodIds(c), Fitting(c, id) # {}
  PROVE  ChooseMachine(c, id) \in Fitting(c, id)
<1> DEFINE w == c.pods[id].workload
           Replicas(m) == Cardinality({p \in PodsOf(c, w) : c.pods[p].machine = m})
           Share(m) == AllocationAfter(c.machines[m], PodSize[w])
           Key(m) == IF plan.strategy = "spread" THEN <<Replicas(m), Share(m), m>>
                     ELSE <<0, -Share(m), m>>
           K == [m \in Fitting(c, id) |-> Key(m)]
<1>1. Fitting(c, id) \in SUBSET Places(c) /\ IsFiniteSet(Fitting(c, id))
  <2>1. Fitting(c, id) \in SUBSET Places(c)
    BY DEF Fitting
  <2> QED BY <2>1, MachinesTyped, FS_Subset
<1>2. ASSUME NEW m \in Fitting(c, id) PROVE Key(m) \in Int \X Int \X Int /\ Key(m)[3] = m
  <2>1. m \in Int /\ c.machines[m].used \in RoomType
    BY <1>1, MachinesTyped DEF MachineType
  <2>2. PodSize[w] \in SizeType /\ MachineSize \in SizeType
    BY SizesTyped DEF SizeOf
  <2>3. Share(m) \in Int
    <3>1. PICK u : u = c.machines[m].used
      OBVIOUS
    <3>2. PICK z : z = PodSize[w]
      OBVIOUS
    <3>3. /\ u.vcpu \in Int /\ u.ram \in Int /\ z.vcpu \in Int /\ z.ram \in Int
          /\ MachineSize.vcpu \in Int /\ MachineSize.ram \in Int
      BY <2>1, <2>2, <3>1, <3>2 DEF RoomType, SizeType
    <3>4. (u.vcpu + z.vcpu) * MachineSize.ram \in Int /\ (u.ram + z.ram) * MachineSize.vcpu \in Int
      BY <3>3
    <3> QED BY <3>1, <3>2, <3>4 DEF AllocationAfter
  <2>4. Replicas(m) \in Int
    <3>1. PodsOf(c, w) \in SUBSET PodIds(c) /\ IsFiniteSet(PodsOf(c, w))
      BY PodSets DEF Numbers
    <3>2. {p \in PodsOf(c, w) : c.pods[p].machine = m} \in SUBSET PodsOf(c, w)
      OBVIOUS
    <3> HIDE DEF w
    <3> QED BY <3>1, <3>2, FS_Subset, FS_CardinalityType
  <2> HIDE DEF Share, Replicas
  <2> QED BY <2>1, <2>3, <2>4
<1>3. \A m \in Fitting(c, id) : K[m] = Key(m)
  OBVIOUS
<1> HIDE DEF Key
<1>4. \E m \in Fitting(c, id) : \A n \in Fitting(c, id) \ {m} : Ahead(K[m], K[n])
  <2>1. \A m \in Fitting(c, id) : K[m] \in Int \X Int \X Int /\ K[m][3] = m
    BY <1>2, <1>3
  <2> HIDE DEF K
  <2> QED BY <1>1, <2>1, OneComesFirst
<1> HIDE DEF K
<1>5. \E m \in Fitting(c, id) : \A n \in Fitting(c, id) \ {m} : Ahead(Key(m), Key(n))
  BY <1>3, <1>4
<1>6. ChooseMachine(c, id) = CHOOSE m \in Fitting(c, id) :
          \A n \in Fitting(c, id) \ {m} : Ahead(Key(m), Key(n))
  BY DEF ChooseMachine, Key, Ahead
<1> QED BY <1>5, <1>6

-----------------------------------------------------------------------------
(* The pending pods, one after the other.                                    *)

LEMMA TookSame ==
  ASSUME NEW c, NEW d, NEW e, NEW id, NEW m, NEW s, Took(c, d, id, m, s), Same(d, e)
  PROVE  Took(c, e, id, m, s)
<1>1. Places(e) = Places(d) /\ PodIds(e) = PodIds(d)
  BY AlikeSets DEF Same
<1> QED BY <1>1 DEF Took, Same, Alike

\* What one pod's turn does: it takes a machine with room, if there is one.
Turn(c, d, id, s) ==
  \/ d = c /\ Fitting(c, id) = {}
  \/ \E m \in Fitting(c, id) : Took(c, d, id, m, s)

LEMMA StartTurns ==
  ASSUME NEW c, c \in ClusterType, NEW id \in InState(c, "pending"), NEW t \in Int
  PROVE  Turn(c, Start(c, id, t), id, "starting") /\ Turn(c, StartInstantly(c, id), id, "ready")
<1>1. CASE Fitting(c, id) = {}
  BY <1>1 DEF Turn, Start, StartInstantly
<1>2. CASE Fitting(c, id) # {}
  <2>1. id \in PodIds(c) /\ id \in Int
    BY PodsTyped DEF InState
  <2>2. PICK m : m = ChooseMachine(c, id)
    OBVIOUS
  <2>3. m \in Fitting(c, id) /\ m \in Places(c)
    BY <1>2, <2>1, <2>2, ChosenFits DEF Fitting
  <2>4. t + PodStartup \in Int
    BY ClusterAssumption
  <2>5. Took(c, Placed(c, id, m, "ready", 0), id, m, "ready")
    BY <2>3, PlacedFields
  <2>6. StartInstantly(c, id) = Placed(c, id, m, "ready", 0)
    BY <1>2, <2>2 DEF StartInstantly, Placed
  <2>7. PICK e : e = Placed(c, id, m, "starting", t + PodStartup)
    OBVIOUS
  <2>8. Took(c, e, id, m, "starting")
    BY <2>3, <2>4, <2>7, PlacedFields
  <2>9. Start(c, id, t) = Schedule(e, t + PodStartup, "pod-ready", id)
    BY <1>2, <2>2, <2>7 DEF Start, Placed
  <2>10. Same(e, Schedule(e, t + PodStartup, "pod-ready", id))
    BY <2>1, <2>4, <2>8, ScheduledSame DEF Took, Actions
  <2>11. Took(c, Start(c, id, t), id, m, "starting")
    BY <2>8, <2>9, <2>10, TookSame
  <2> QED BY <2>3, <2>5, <2>6, <2>11 DEF Turn
<1> QED BY <1>1, <1>2

\* After the turns of the pods of s: nothing else is touched, and those that still
\* wait fit nowhere.
Filled(c, d, s, st) ==
  /\ d \in ClusterType /\ RoomOk(d)
  /\ DOMAIN d.pods = DOMAIN c.pods /\ PodIds(d) = PodIds(c) /\ Places(d) = Places(c)
  /\ \A k \in DOMAIN c.pods : k \notin s => d.pods[k] = c.pods[k]
  /\ \A k \in s :
       /\ d.pods[k].workload = c.pods[k].workload /\ d.pods[k].state \in {"pending", st}
       /\ d.pods[k].state = "pending" => Fitting(d, k) = {}
  /\ \A n \in Places(c) : /\ d.machines[n].up = c.machines[n].up
                           /\ d.machines[n].provisioning = c.machines[n].provisioning
  /\ d.desired = c.desired /\ d.area = c.area /\ d.accruedAt = c.accruedAt

\* Room that a pod takes does not come back.
LEMMA TookFitting ==
  ASSUME NEW c, c \in ClusterType, NEW id \in PodIds(c), NEW m \in Places(c), NEW s,
         NEW d, Took(c, d, id, m, s), NEW k \in PodIds(c)
  PROVE  Fitting(d, k) \subseteq Fitting(c, k)
<1>1. SizeOf(d, k) = SizeOf(c, k)
  <2>1. d.pods[k].workload = c.pods[k].workload
    BY PodsTyped DEF Took
  <2> QED BY <2>1 DEF SizeOf
<1>2. PICK z : z = SizeOf(c, k)
  OBVIOUS
<1>3. ASSUME NEW n \in Places(c), Fits(d.machines[n], z) PROVE Fits(c.machines[n], z)
  <2>1. CASE n # m
    BY <1>3, <2>1 DEF Took
  <2>2. CASE n = m
    <3>1. \A r \in Resources : d.machines[m].used[r] = c.machines[m].used[r] + SizeOf(c, id)[r]
      BY DEF Took
    <3>2. \A r \in Resources : SizeOf(c, id)[r] \in Nat /\ MachineSize[r] \in Nat
      BY SizesTyped
    <3>3. \A r \in Resources : SizeOf(c, k)[r] \in Nat
      BY SizesTyped
    <3>4. c.machines[m].used \in RoomType
      BY MachinesTyped DEF MachineType
    <3>5. \A r \in Resources : c.machines[m].used[r] \in Int
      BY <3>4 DEF RoomType, Resources
    <3>6. d.machines[m].up = c.machines[m].up
      BY DEF Took
    <3>7. ASSUME NEW r \in Resources, d.machines[m].used[r] + z[r] <= MachineSize[r]
          PROVE  c.machines[m].used[r] + z[r] <= MachineSize[r]
      BY <1>2, <3>1, <3>2, <3>3, <3>5, <3>7
    <3>8. /\ d.machines[m].up /\ d.machines[m].used["vcpu"] + z["vcpu"] <= MachineSize["vcpu"]
          /\ d.machines[m].used["ram"] + z["ram"] <= MachineSize["ram"]
      BY <1>3, <2>2 DEF Fits
    <3>9. /\ c.machines[m].used["vcpu"] + z["vcpu"] <= MachineSize["vcpu"]
          /\ c.machines[m].used["ram"] + z["ram"] <= MachineSize["ram"]
      BY <3>7, <3>8 DEF Resources
    <3> QED BY <2>2, <3>6, <3>8, <3>9 DEF Fits
  <2> QED BY <2>1, <2>2
<1>4. Places(d) = Places(c)
  BY DEF Took
<1> QED BY <1>1, <1>2, <1>3, <1>4 DEF Fitting

LEMMA FilledMore ==
  ASSUME NEW c, c \in ClusterType, NEW s \in SUBSET InState(c, "pending"), NEW x \in s,
         NEW st \in {"starting", "ready"}, NEW d, Filled(c, d, s \ {x}, st),
         NEW e, Turn(d, e, x, st)
  PROVE  Filled(c, e, s, st)
<1>1. s \in SUBSET PodIds(c) /\ s \in SUBSET DOMAIN c.pods /\ c.pods[x].state = "pending"
  BY DEF InState, PodIds
<1>2. d.pods[x] = c.pods[x] /\ x \in InState(d, "pending") /\ d \in ClusterType
      /\ x \in PodIds(d)
  BY <1>1 DEF Filled, InState
<1>3. CASE e = d /\ Fitting(d, x) = {}
  <2>1. \A k \in DOMAIN c.pods : k \notin s => d.pods[k] = c.pods[k]
    BY DEF Filled
  <2>2. \A k \in s :
          /\ d.pods[k].workload = c.pods[k].workload /\ d.pods[k].state \in {"pending", st}
          /\ d.pods[k].state = "pending" => Fitting(d, k) = {}
    BY <1>1, <1>2, <1>3 DEF Filled
  <2> QED BY <1>3, <2>1, <2>2 DEF Filled
<1>4. CASE \E m \in Fitting(d, x) : Took(d, e, x, m, st)
  <2>1. PICK m \in Fitting(d, x) : Took(d, e, x, m, st)
    BY <1>4
  <2>2. m \in Places(d)
    BY DEF Fitting
  <2>3. RoomOk(e) /\ e \in ClusterType
    BY <1>2, <2>1, TookRoom DEF Filled, Took
  <2>4. \A k \in DOMAIN c.pods : k \notin s => e.pods[k] = c.pods[k]
    BY <2>1 DEF Filled, Took
  <2>5. ASSUME NEW k \in s
        PROVE  /\ e.pods[k].workload = c.pods[k].workload /\ e.pods[k].state \in {"pending", st}
               /\ e.pods[k].state = "pending" => Fitting(e, k) = {}
    <3>1. CASE k = x
      BY <1>2, <2>1, <3>1 DEF Took
    <3>2. CASE k # x
      <4>1. e.pods[k] = d.pods[k]
        BY <1>1, <2>1, <3>2 DEF Took, Filled
      <4>2. k \in PodIds(d)
        BY <1>1 DEF Filled
      <4>3. Fitting(e, k) \subseteq Fitting(d, k)
        BY <1>2, <2>1, <2>2, <4>2, TookFitting
      <4> QED BY <3>2, <4>1, <4>3 DEF Filled
    <3> QED BY <3>1, <3>2
  <2>6. \A n \in Places(c) : /\ e.machines[n].up = c.machines[n].up
                            /\ e.machines[n].provisioning = c.machines[n].provisioning
    <3>1. ASSUME NEW n \in Places(d)
          PROVE  /\ e.machines[n].up = d.machines[n].up
                 /\ e.machines[n].provisioning = d.machines[n].provisioning
      BY <2>1 DEF Took
    <3> QED BY <3>1 DEF Filled
  <2>7. /\ DOMAIN e.pods = DOMAIN c.pods /\ PodIds(e) = PodIds(c) /\ Places(e) = Places(c)
        /\ e.desired = c.desired /\ e.area = c.area /\ e.accruedAt = c.accruedAt
    BY <2>1 DEF Filled, Took
  <2> QED BY <2>3, <2>4, <2>5, <2>6, <2>7 DEF Filled
<1> QED BY <1>3, <1>4 DEF Turn

LEMMA FoldFills ==
  ASSUME NEW c, c \in ClusterType, RoomOk(c), NEW t \in Int, NEW S, S = InState(c, "pending")
  PROVE  /\ Filled(c, Folded("start", t, 0, c, S), S, "starting")
         /\ Filled(c, Folded("instantly", 0, 0, c, S), S, "ready")
<1>0. Numbers(S)
  BY PodSets
<1> DEFINE G(st) == {p \in (SUBSET S) \X ClusterType : Filled(c, p[2], p[1], st)}
<1>1. \A st : <<{}, c>> \in G(st)
  BY DEF Filled
<1>2. ASSUME NEW kind \in {"start", "instantly"}, NEW a, kind = "start" => a = t,
             NEW st, st = IF kind = "start" THEN "starting" ELSE "ready"
      PROVE  <<S, Folded(kind, a, 0, c, S)>> \in G(st)
  <2>1. ASSUME NEW s \in SUBSET S, NEW d, s # {}, <<s \ {Max(s)}, d>> \in G(st)
        PROVE  <<s, Step(kind, a, 0, d, Max(s))>> \in G(st)
    <3>1. PICK x : x = Max(s)
      OBVIOUS
    <3>2. x \in s
      <4>1. Numbers(s)
        BY <1>0, FS_Subset DEF Numbers
      <4> QED BY <2>1, <3>1, <4>1, LessOne
    <3>3. d \in ClusterType /\ Filled(c, d, s \ {x}, st)
      BY <2>1, <3>1
    <3>4. x \in InState(d, "pending")
      <4>1. x \in InState(c, "pending") /\ x \in DOMAIN c.pods
        BY <3>2 DEF InState, PodIds
      <4>2. d.pods[x] = c.pods[x] /\ PodIds(d) = PodIds(c)
        BY <3>3, <4>1 DEF Filled
      <4> QED BY <4>1, <4>2 DEF InState
    <3>5. PICK e : e = Step(kind, a, 0, d, x)
      OBVIOUS
    <3>6. Turn(d, e, x, st)
      <4>1. e = IF kind = "start" THEN Start(d, x, t) ELSE StartInstantly(d, x)
        BY <1>2, <3>5 DEF Step
      <4> QED BY <1>2, <3>3, <3>4, <4>1, StartTurns
    <3>7. Filled(c, e, s, st)
      <4>1. s \in SUBSET InState(c, "pending") /\ st \in {"starting", "ready"}
        BY <1>2
      <4> QED BY <3>2, <3>3, <3>6, <4>1, FilledMore
    <3>8. e \in ClusterType
      BY <3>7 DEF Filled
    <3> QED BY <3>1, <3>5, <3>7, <3>8
  <2> HIDE DEF G
  <2> QED BY <1>0, <1>1, <2>1, FoldKeeps
<1>3. <<S, Folded("start", t, 0, c, S)>> \in G("starting")
  <2> HIDE DEF G
  <2> QED BY <1>2
<1>4. <<S, Folded("instantly", 0, 0, c, S)>> \in G("ready")
  <2> HIDE DEF G
  <2> QED BY <1>2
<1> QED BY <1>3, <1>4

-----------------------------------------------------------------------------
(* How many machines the pods that wait would fill.                          *)

Holds(bin, size) == size.vcpu <= bin.vcpu /\ size.ram <= bin.ram

FitIn(bins, size) ==
  LET room == {b \in DOMAIN bins : Holds(bins[b], size)}
  IN  IF ~Holds(MachineSize, size) THEN bins
      ELSE IF room = {} THEN Append(bins, Minus(MachineSize, size))
      ELSE [bins EXCEPT ![Min(room)] = Minus(@, size)]

LEMMA FitInTyped ==
  ASSUME NEW B \in Seq(RoomType), NEW size \in SizeType
  PROVE  FitIn(B, size) \in Seq(RoomType) /\ Len(FitIn(B, size)) >= Len(B)
<1> DEFINE room == {b \in DOMAIN B : Holds(B[b], size)}
<1>1. MachineSize \in SizeType
  BY ClusterAssumption
<1>2. ASSUME NEW z \in RoomType PROVE Minus(z, size) \in RoomType
  BY DEF Minus, RoomType, SizeType
<1>3. MachineSize \in RoomType
  BY <1>1 DEF RoomType, SizeType
<1>4. Len(B) \in Nat /\ DOMAIN B = 1 .. Len(B) /\ \A i \in 1 .. Len(B) : B[i] \in RoomType
  OBVIOUS
<1>5. CASE ~Holds(MachineSize, size)
  <2>1. FitIn(B, size) = B
    BY <1>5 DEF FitIn
  <2> QED BY <1>4, <2>1
<1>6. CASE Holds(MachineSize, size) /\ room = {}
  <2>1. FitIn(B, size) = Append(B, Minus(MachineSize, size))
    BY <1>6 DEF FitIn
  <2>2. Minus(MachineSize, size) \in RoomType
    BY <1>2, <1>3
  <2>3. /\ Append(B, Minus(MachineSize, size)) \in Seq(RoomType)
        /\ Len(Append(B, Minus(MachineSize, size))) = Len(B) + 1
    BY <2>2, AppendProperties
  <2> QED BY <1>4, <2>1, <2>3
<1>7. CASE Holds(MachineSize, size) /\ room # {}
  <2>1. PICK x : x = Min(room)
    OBVIOUS
  <2>2. x \in 1 .. Len(B)
    <3>1. room \in SUBSET Nat
      BY <1>4
    <3>2. Min(room) \in room
      <4> HIDE DEF room
      <4> QED BY <1>7, <3>1, MinIn
    <3> QED BY <1>4, <2>1, <3>2
  <2>3. FitIn(B, size) = [B EXCEPT ![x] = Minus(B[x], size)]
    BY <1>7, <2>1 DEF FitIn
  <2>4. Minus(B[x], size) \in RoomType
    BY <1>2, <1>4, <2>2
  <2>5. /\ [B EXCEPT ![x] = Minus(B[x], size)] \in Seq(RoomType)
        /\ Len([B EXCEPT ![x] = Minus(B[x], size)]) = Len(B)
    BY <2>2, <2>4, ExceptSeq
  <2> QED BY <1>4, <2>3, <2>5
<1> QED BY <1>5, <1>6, <1>7

\* The bins of B, and whole machines behind them up to the L-th.
Padded(B, D, L) ==
  /\ B \in Seq(RoomType) /\ D \in Seq(RoomType)
  /\ Len(D) = IF Len(B) < L THEN L ELSE Len(B)
  /\ \A i \in 1 .. Len(D) : D[i] = IF i <= Len(B) THEN B[i] ELSE MachineSize

\* A pod goes to the same place whether whole machines stand behind the bins or not.
LEMMA PaddedFit ==
  ASSUME NEW size \in SizeType, NEW L \in Nat, NEW B, NEW D, Padded(B, D, L)
  PROVE  Padded(FitIn(B, size), FitIn(D, size), L)
<1> DEFINE roomB == {b \in DOMAIN B : Holds(B[b], size)}
           roomD == {b \in DOMAIN D : Holds(D[b], size)}
<1>1. B \in Seq(RoomType) /\ D \in Seq(RoomType)
  BY DEF Padded
<1>2. FitIn(B, size) \in Seq(RoomType) /\ FitIn(D, size) \in Seq(RoomType)
  BY <1>1, FitInTyped
<1>3. PICK p : p = Len(B)
  OBVIOUS
<1>4. PICK q : q = Len(D)
  OBVIOUS
<1>5. p \in Nat /\ q \in Nat /\ DOMAIN B = 1 .. p /\ DOMAIN D = 1 .. q
  BY <1>1, <1>3, <1>4
<1>6. q = IF p < L THEN L ELSE p
  BY <1>3, <1>4 DEF Padded
<1>7. \A i \in 1 .. q : D[i] = IF i <= p THEN B[i] ELSE MachineSize
  BY <1>3, <1>4 DEF Padded
<1>8. p <= q
  BY <1>5, <1>6
<1>9. \A i \in 1 .. p : i \in 1 .. q /\ D[i] = B[i]
  BY <1>5, <1>7, <1>8
<1>10. roomB \in SUBSET Nat /\ roomD \in SUBSET Nat
  <2>1. 1 .. p \in SUBSET Nat /\ 1 .. q \in SUBSET Nat
    BY <1>5
  <2> QED BY <1>5, <2>1
<1>11. CASE ~Holds(MachineSize, size)
  BY <1>11 DEF FitIn
<1>12. CASE Holds(MachineSize, size) /\ roomB # {}
  <2>1. PICK x : x = Min(roomB)
    OBVIOUS
  <2>2. x \in roomB /\ \A b \in roomB : x <= b
    <3> HIDE DEF roomB
    <3> QED BY <1>10, <1>12, <2>1, MinIn
  <2>3. x \in 1 .. p /\ x \in roomD
    BY <1>5, <1>9, <2>2
  <2>4. PICK y : y = Min(roomD)
    OBVIOUS
  <2>5. y \in roomD /\ y <= x
    <3> HIDE DEF roomD
    <3> QED BY <1>10, <2>3, <2>4, MinIn
  <2>6. y = x
    <3>1. y \in 1 .. q /\ Holds(D[y], size)
      BY <1>5, <2>5
    <3>2. y \in 1 .. p
      BY <1>5, <2>3, <2>5, <3>1
    <3>3. y \in roomB
      BY <1>5, <1>9, <3>1, <3>2
    <3>4. x <= y
      BY <2>2, <3>3
    <3> QED BY <1>5, <2>3, <2>5, <3>2, <3>4
  <2>7. PICK z : z = Minus(B[x], size)
    OBVIOUS
  <2>8. FitIn(B, size) = [B EXCEPT ![x] = z]
    BY <1>12, <2>1, <2>7 DEF FitIn
  <2>9. FitIn(D, size) = [D EXCEPT ![x] = z]
    <3>1. roomD # {} /\ D[x] = B[x]
      BY <1>9, <2>3
    <3> QED BY <1>12, <2>4, <2>6, <2>7, <3>1 DEF FitIn
  <2>10. Len(FitIn(B, size)) = p
    BY <1>1, <1>2, <1>3, <2>8
  <2>11. Len(FitIn(D, size)) = q
    BY <1>1, <1>2, <1>4, <2>9
  <2>12. \A i \in 1 .. q :
           FitIn(D, size)[i] = IF i <= p THEN FitIn(B, size)[i] ELSE MachineSize
    <3>1. ASSUME NEW i \in 1 .. q
          PROVE  FitIn(D, size)[i] = IF i <= p THEN FitIn(B, size)[i] ELSE MachineSize
      <4>1. FitIn(D, size)[i] = IF i = x THEN z ELSE D[i]
        BY <1>5, <2>9
      <4>2. CASE i <= p
        <5>1. i \in 1 .. p
          BY <1>5, <4>2
        <5>2. FitIn(B, size)[i] = IF i = x THEN z ELSE B[i]
          BY <1>5, <2>8, <5>1
        <5> QED BY <1>9, <4>1, <4>2, <5>1, <5>2
      <4>3. CASE ~(i <= p)
        <5>1. i # x
          BY <1>5, <2>3, <4>3
        <5> QED BY <1>7, <4>1, <4>3, <5>1
      <4> QED BY <4>2, <4>3
    <3> QED BY <3>1
  <2> QED BY <1>2, <1>6, <2>10, <2>11, <2>12 DEF Padded
<1>13. CASE Holds(MachineSize, size) /\ roomB = {}
  <2>1. PICK z : z = Minus(MachineSize, size)
    OBVIOUS
  <2>2. FitIn(B, size) = Append(B, z)
    BY <1>13, <2>1 DEF FitIn
  <2>3. z \in RoomType
    BY <2>1, ClusterAssumption DEF Minus, RoomType, SizeType
  <2>4. PICK F : F = FitIn(B, size)
    OBVIOUS
  <2>5. /\ Len(F) = p + 1 /\ F[p + 1] = z
        /\ \A i \in 1 .. p : F[i] = B[i]
    BY <1>1, <1>3, <2>2, <2>3, <2>4, AppendProperties
  <2>6. \A i \in 1 .. p : i \notin roomD
    BY <1>5, <1>9, <1>13
  <2>7. CASE p < q
    <3>1. PICK n : n = p + 1
      OBVIOUS
    <3>2. n \in 1 .. q /\ ~(n <= p)
      BY <1>5, <2>7, <3>1
    <3>3. D[n] = MachineSize
      BY <1>7, <3>2
    <3>4. n \in roomD
      BY <1>5, <1>13, <3>2, <3>3
    <3>5. PICK y : y = Min(roomD)
      OBVIOUS
    <3>6. y \in roomD /\ y <= n
      <4> HIDE DEF roomD
      <4> QED BY <1>10, <3>4, <3>5, MinIn
    <3>7. y = n
      <4>1. y \in 1 .. q
        BY <1>5, <3>6
      <4>2. y \notin 1 .. p
        BY <2>6, <3>6
      <4>3. y <= n
        BY <3>6
      <4> HIDE DEF roomB, roomD
      <4> QED BY <1>5, <3>1, <4>1, <4>2, <4>3
    <3>8. FitIn(D, size) = [D EXCEPT ![n] = z]
      <4>1. roomD # {}
        BY <3>4
      <4> QED BY <1>13, <2>1, <3>3, <3>5, <3>7, <4>1 DEF FitIn
    <3>9. Len(FitIn(D, size)) = q
      BY <1>1, <1>2, <1>4, <3>8
    <3>10. \A i \in 1 .. q : FitIn(D, size)[i] = IF i <= p + 1 THEN F[i] ELSE MachineSize
      <4>1. ASSUME NEW i \in 1 .. q
            PROVE  FitIn(D, size)[i] = IF i <= p + 1 THEN F[i] ELSE MachineSize
        <5>1. FitIn(D, size)[i] = IF i = n THEN z ELSE D[i]
          BY <1>5, <3>8
        <5>2. CASE i \in 1 .. p
          <6>1. D[i] = B[i] /\ F[i] = B[i] /\ i # n /\ i <= p + 1
            BY <1>5, <1>9, <2>5, <3>2, <5>2
          <6> QED BY <5>1, <6>1
        <5>3. CASE i = n
          BY <1>5, <2>5, <3>1, <5>1, <5>3
        <5>4. CASE i \notin 1 .. p /\ i # n
          <6>1. ~(i <= p) /\ ~(i <= p + 1)
            BY <1>5, <3>1, <5>4
          <6> QED BY <1>7, <5>1, <5>4, <6>1
        <5> QED BY <5>2, <5>3, <5>4
      <4> QED BY <4>1
    <3>11. q = IF p + 1 < L THEN L ELSE p + 1
      BY <1>5, <1>6, <2>7
    <3> QED BY <1>2, <2>4, <2>5, <3>9, <3>10, <3>11 DEF Padded
  <2>8. CASE p = q
    <3>1. B = D
      BY <1>1, <1>3, <1>4, <1>9, <2>8, SeqEqual
    <3>2. Len(F) = IF Len(F) < L THEN L ELSE Len(F)
      BY <1>5, <1>6, <2>5, <2>8
    <3>3. \A i \in 1 .. Len(F) : F[i] = IF i <= Len(F) THEN F[i] ELSE MachineSize
      OBVIOUS
    <3> QED BY <1>2, <2>4, <3>1, <3>2, <3>3 DEF Padded
  <2> QED BY <1>5, <1>8, <2>7, <2>8
<1> QED BY <1>11, <1>12, <1>13

FullBins(n) == [m \in 1 .. n |-> MachineSize]

LEMMA BootingTyped ==
  ASSUME NEW c, c \in ClusterType
  PROVE  Booting(c) \in Nat
<1>1. PICK M : M = {m \in Places(c) : c.machines[m].provisioning}
  OBVIOUS
<1>2. IsFiniteSet(M)
  BY <1>1, MachinesTyped, FS_Subset
<1> QED BY <1>1, <1>2, FS_CardinalityType DEF Booting

LEMMA PackedAhead ==
  ASSUME NEW c, c \in ClusterType, NEW d, d \in ClusterType,
         InState(d, "pending") = InState(c, "pending"),
         \A id \in InState(c, "pending") : SizeOf(d, id) = SizeOf(c, id),
         Booting(c) <= Booting(d)
  PROVE  /\ Len(Packed(c)) \in Nat /\ Booting(c) <= Len(Packed(c))
         /\ Len(Packed(d)) = IF Len(Packed(c)) < Booting(d) THEN Booting(d) ELSE Len(Packed(c))
<1>1. PICK S : S = InState(c, "pending")
  OBVIOUS
<1>2. Numbers(S) /\ S \in SUBSET PodIds(c)
  BY <1>1, PodSets
<1>3. PICK n : n = Booting(c)
  OBVIOUS
<1>4. PICK L : L = Booting(d)
  OBVIOUS
<1>5. n \in Nat /\ L \in Nat /\ n <= L
  BY <1>3, <1>4, BootingTyped
<1> DEFINE B(s) == Folded("pack", c, 0, FullBins(n), s)
           E(s) == Folded("pack", d, 0, FullBins(L), s)
           D == {s \in SUBSET S : Padded(B(s), E(s), L) /\ Len(B(s)) >= n}
<1>6. {} \in D
  <2>1. B({}) = FullBins(n) /\ E({}) = FullBins(L)
    BY FoldOfNone
  <2>2. MachineSize \in RoomType
    BY ClusterAssumption DEF SizeType, RoomType
  <2>3. ASSUME NEW k \in Nat
        PROVE  /\ FullBins(k) \in Seq(RoomType) /\ Len(FullBins(k)) = k
               /\ \A i \in 1 .. k : FullBins(k)[i] = MachineSize
    <3>1. FullBins(k) \in [1 .. k -> RoomType]
      BY <2>2 DEF FullBins
    <3>2. FullBins(k) \in Seq(RoomType)
      BY <3>1
    <3> QED BY <3>1, <3>2 DEF FullBins
  <2>4. Len(FullBins(n)) = n /\ Len(FullBins(L)) = L
    BY <1>5, <2>3
  <2>5. Padded(FullBins(n), FullBins(L), L)
    <3>1. FullBins(n) \in Seq(RoomType) /\ FullBins(L) \in Seq(RoomType)
      BY <1>5, <2>3
    <3>2. \A i \in 1 .. L : FullBins(L)[i] = MachineSize
      BY <1>5, <2>3
    <3>3. \A i \in 1 .. n : FullBins(n)[i] = MachineSize
      BY <1>5, <2>3
    <3>4. \A i \in 1 .. L : FullBins(L)[i] = IF i <= n THEN FullBins(n)[i] ELSE MachineSize
      BY <1>5, <3>2, <3>3
    <3> QED BY <1>5, <2>4, <3>1, <3>4 DEF Padded
  <2> HIDE DEF B, E
  <2> QED BY <1>5, <2>1, <2>4, <2>5
<1>7. ASSUME NEW s \in SUBSET S, s # {}, s \ {Max(s)} \in D PROVE s \in D
  <2>1. PICK x : x = Max(s)
    OBVIOUS
  <2>2. PICK t : t = s \ {x}
    OBVIOUS
  <2>3. Numbers(s) /\ x \in s
    <3>1. Numbers(s)
      BY <1>2, FS_Subset DEF Numbers
    <3> QED BY <1>7, <2>1, <3>1, LessOne
  <2>4. PICK size : size = SizeOf(c, x)
    OBVIOUS
  <2>5. size \in SizeType /\ SizeOf(d, x) = size
    BY <1>1, <1>2, <2>3, <2>4, SizesTyped
  <2>6. B(s) = FitIn(B(t), size)
    <3>1. B(s) = Step("pack", c, 0, B(t), x)
      BY <1>7, <2>1, <2>2, <2>3, FoldStep
    <3> HIDE DEF B
    <3> QED BY <2>4, <3>1 DEF Step, FirstFit, FitIn, Holds
  <2>7. E(s) = FitIn(E(t), size)
    <3>1. E(s) = Step("pack", d, 0, E(t), x)
      BY <1>7, <2>1, <2>2, <2>3, FoldStep
    <3> HIDE DEF E
    <3> QED BY <2>5, <3>1 DEF Step, FirstFit, FitIn, Holds
  <2>8. Padded(B(t), E(t), L) /\ Len(B(t)) >= n
    BY <1>7, <2>1, <2>2
  <2> HIDE DEF B, E
  <2>9. Padded(B(s), E(s), L)
    BY <1>5, <2>5, <2>6, <2>7, <2>8, PaddedFit
  <2>10. B(t) \in Seq(RoomType) /\ B(s) \in Seq(RoomType)
    BY <2>8, <2>9 DEF Padded
  <2>11. Len(B(s)) >= Len(B(t))
    BY <2>5, <2>6, <2>10, FitInTyped
  <2>12. Len(B(s)) \in Nat /\ Len(B(t)) \in Nat
    BY <2>10
  <2> QED BY <1>5, <2>8, <2>9, <2>11, <2>12
<1>8. S \in D
  <2> HIDE DEF D
  <2> QED BY <1>2, <1>6, <1>7, MaxInduction
<1>9. Packed(c) = B(S) /\ Packed(d) = E(S)
  BY <1>1, <1>3, <1>4, TheFolds DEF FullBins
<1> HIDE DEF B, E
<1>10. B(S) \in Seq(RoomType)
  BY <1>8 DEF Padded
<1>11. Len(B(S)) \in Nat
  BY <1>10
<1> QED BY <1>3, <1>4, <1>8, <1>9, <1>11 DEF Padded

\* The machines asked for are as many as are needed and may be had, and with them on
\* their way no more are needed.
LEMMA NeededTyped ==
  ASSUME NEW c, c \in ClusterType, Len(c.machines) <= MaxMachines
  PROVE  /\ MachinesNeededForPending(c) \in Nat
         /\ Len(c.machines) + MachinesNeededForPending(c) <= MaxMachines
<1>1. Len(Packed(c)) \in Nat /\ Booting(c) <= Len(Packed(c)) /\ Booting(c) \in Nat
  BY PackedAhead, BootingTyped
<1>2. Len(c.machines) \in Nat /\ MaxMachines \in Nat
  BY MachinesTyped, ClusterAssumption
<1> QED BY <1>1, <1>2 DEF MachinesNeededForPending, Smaller

LEMMA NeededServed ==
  ASSUME NEW c, c \in ClusterType, Len(c.machines) <= MaxMachines, NEW d, d \in ClusterType,
         InState(d, "pending") = InState(c, "pending"),
         \A id \in InState(c, "pending") : SizeOf(d, id) = SizeOf(c, id),
         NEW n \in Nat, Booting(d) = Booting(c) + n, Len(d.machines) = Len(c.machines) + n
  PROVE  /\ n = MachinesNeededForPending(c) => MachinesNeededForPending(d) = 0
         /\ n = 0 => MachinesNeededForPending(d) = MachinesNeededForPending(c)
<1>1. PICK p : p = Len(Packed(c))
  OBVIOUS
<1>2. PICK q : q = Len(Packed(d))
  OBVIOUS
<1>3. Booting(c) \in Nat /\ Booting(d) \in Nat /\ Booting(c) <= Booting(d)
  BY BootingTyped
<1>4. /\ p \in Nat /\ Booting(c) <= p
      /\ q = IF p < Booting(d) THEN Booting(d) ELSE p
  BY <1>1, <1>2, <1>3, PackedAhead
<1>5. Len(c.machines) \in Nat /\ MaxMachines \in Nat
  BY MachinesTyped, ClusterAssumption
<1>6. /\ MachinesNeededForPending(c) = Smaller(MaxMachines - Len(c.machines), p - Booting(c))
      /\ MachinesNeededForPending(d) = Smaller(MaxMachines - Len(d.machines), q - Booting(d))
  BY <1>1, <1>2 DEF MachinesNeededForPending
<1> QED BY SMTT(20), <1>3, <1>4, <1>5, <1>6 DEF Smaller

-----------------------------------------------------------------------------
(* Areas.                                                                    *)

AreaType == [ready : Int, pending : Int, allocated : Int, allocatable : Int]

LEMMA Accumulated ==
  ASSUME NEW a \in AreaType, NEW r \in AreaType, NEW x \in Int
  PROVE  /\ Accumulate(a, r, x) \in AreaType /\ Accumulate(a, r, 0) = a
         /\ Accumulate(a, r, x + 1) = Accumulate(Accumulate(a, r, x), r, 1)
<1> DEFINE K == {"ready", "pending", "allocated", "allocatable"}
<1>1. \A b : b \in AreaType <=> b \in [K -> Int]
  <2>1. ASSUME NEW b PROVE b \in AreaType => b \in [K -> Int]
    BY DEF AreaType
  <2>2. ASSUME NEW b, b \in [K -> Int] PROVE b \in AreaType
    <3>1. b = [ready |-> b.ready, pending |-> b.pending, allocated |-> b.allocated,
               allocatable |-> b.allocatable]
      BY <2>2
    <3>2. b.ready \in Int /\ b.pending \in Int /\ b.allocated \in Int /\ b.allocatable \in Int
      BY <2>2
    <3> QED BY <3>1, <3>2 DEF AreaType
  <2> QED BY <2>1, <2>2
<1>2. a \in [K -> Int] /\ r \in [K -> Int]
  BY <1>1
<1> HIDE DEF K
<1>3. ASSUME NEW b \in [K -> Int], NEW y \in Int
      PROVE  /\ Accumulate(b, r, y) = [k \in K |-> b[k] + r[k] * y]
             /\ Accumulate(b, r, y) \in [K -> Int]
  <2>1. Accumulate(b, r, y) = [k \in K |-> b[k] + r[k] * y]
    BY DEF Accumulate
  <2>2. \A k \in K : b[k] + r[k] * y \in Int
    BY <1>2
  <2> QED BY <2>1, <2>2
<1>4. Accumulate(a, r, 0) = a
  <2>1. \A k \in K : a[k] + r[k] * 0 = a[k]
    BY <1>2
  <2>2. Accumulate(a, r, 0) = [k \in K |-> a[k]]
    BY <1>2, <1>3, <2>1
  <2> QED BY <1>2, <2>2
<1>5. PICK b : b = Accumulate(a, r, x)
  OBVIOUS
<1>6. b = [k \in K |-> a[k] + r[k] * x] /\ b \in [K -> Int]
  BY <1>2, <1>3, <1>5
<1>7. Accumulate(a, r, x + 1) = Accumulate(b, r, 1)
  <2>1. x + 1 \in Int
    OBVIOUS
  <2>2. Accumulate(a, r, x + 1) = [k \in K |-> a[k] + r[k] * (x + 1)]
    BY <1>2, <1>3, <2>1
  <2>3. Accumulate(b, r, 1) = [k \in K |-> b[k] + r[k] * 1]
    BY <1>3, <1>6
  <2>4. ASSUME NEW k \in K PROVE a[k] + r[k] * (x + 1) = b[k] + r[k] * 1
    <3>1. PICK p : p = a[k]
      OBVIOUS
    <3>2. PICK q : q = r[k]
      OBVIOUS
    <3>3. p \in Int /\ q \in Int
      BY <1>2, <3>1, <3>2
    <3>4. p + q * (x + 1) = (p + q * x) + q * 1
      BY <3>3
    <3> QED BY <1>6, <3>1, <3>2, <3>4
  <2> QED BY <2>2, <2>3, <2>4
<1> QED BY <1>1, <1>4, <1>5, <1>6, <1>7

LEMMA RatesTyped ==
  ASSUME NEW c, c \in ClusterType
  PROVE  Rates(c) \in AreaType
<1>1. PICK up : up = {m \in Places(c) : c.machines[m].up}
  OBVIOUS
<1>2. IsFiniteSet(up) /\ Cardinality(up) \in Nat /\ up \in SUBSET Places(c)
  BY <1>1, MachinesTyped, FS_Subset, FS_CardinalityType
<1>3. \A s : Cardinality(InState(c, s)) \in Nat
  BY PodSets, FS_CardinalityType DEF Numbers
<1>4. PICK f : f = [m \in up |-> c.machines[m].used.vcpu]
  OBVIOUS
<1>5. \A m \in up : f[m] \in Int
  <2>1. \A m \in up : c.machines[m].used \in RoomType
    BY <1>2, MachinesTyped DEF MachineType
  <2> QED BY <1>4, <2>1 DEF RoomType
<1>6. SumFunctionOnSet(f, up) \in Int
  BY <1>2, <1>5, SumOfMore
<1>7. SumFunction(f) \in Int
  BY <1>4, <1>6 DEF SumFunction
<1>8. MachineSize.vcpu * Cardinality(up) \in Int
  <2>1. MachineSize.vcpu \in Int
    BY ClusterAssumption DEF SizeType
  <2> QED BY <1>2, <2>1
<1>9. Rates(c) = [ready |-> Cardinality(InState(c, "ready")),
                  pending |-> Cardinality(InState(c, "pending")),
                  allocated |-> SumFunction(f),
                  allocatable |-> MachineSize.vcpu * Cardinality(up)]
  BY <1>1, <1>4 DEF Rates
<1> QED BY <1>3, <1>7, <1>8, <1>9 DEF AreaType

\* The areas of c are those of a once the time up to t is added.
Dated(c, t, a) ==
  c.accruedAt <= t /\ Accumulate(c.area, Rates(c), t - c.accruedAt) = a

LEMMA Accrued ==
  ASSUME NEW c, c \in ClusterType, NEW t \in Int, NEW a, Dated(c, t, a)
  PROVE  /\ Accrue(c, t) \in ClusterType /\ Alike(c, Accrue(c, t))
         /\ Accrue(c, t).desired = c.desired
         /\ Accrue(c, t).accruedAt = t /\ Accrue(c, t).area = a /\ a \in AreaType
<1>1. c.accruedAt \in Int /\ c.area \in AreaType /\ Rates(c) \in AreaType
  BY RatesTyped DEF ClusterType, AreaType
<1>2. t - c.accruedAt \in Int /\ c.accruedAt <= t
  BY <1>1 DEF Dated
<1>3. a = Accumulate(c.area, Rates(c), t - c.accruedAt) /\ a \in AreaType
  BY <1>1, <1>2, Accumulated DEF Dated
<1>4. CASE t <= c.accruedAt
  <2>1. t = c.accruedAt /\ t - c.accruedAt = 0
    BY <1>1, <1>2, <1>4
  <2>2. a = c.area
    BY <1>1, <1>3, <2>1, Accumulated
  <2> QED BY <1>3, <1>4, <2>1, <2>2 DEF Accrue, Alike
<1>5. CASE ~(t <= c.accruedAt)
  <2>1. Accrue(c, t) = [c EXCEPT !.area = a, !.accruedAt = t]
    BY <1>3, <1>5 DEF Accrue, ClusterType
  <2> QED BY <1>3, <2>1 DEF ClusterType, AreaType, Alike
<1> QED BY <1>4, <1>5

\* Once accrued, what the machines and the pods do later at t is not in the areas.
LEMMA SettledDated ==
  ASSUME NEW c, c \in ClusterType, NEW t \in Int, NEW a, c.accruedAt = t, c.area = a
  PROVE  Dated(c, t, a)
<1>1. c.area \in AreaType /\ Rates(c) \in AreaType /\ t - c.accruedAt = 0 /\ c.accruedAt <= t
  BY RatesTyped DEF ClusterType, AreaType
<1> QED BY <1>1, Accumulated DEF Dated

-----------------------------------------------------------------------------
(* What holds of a cluster between two events.                               *)

Good(c) == c \in ClusterType /\ RoomOk(c) /\ Len(c.machines) <= MaxMachines
CountsOk(c) == \A w \in Workloads : Cardinality(PodsOf(c, w)) = c.desired[w]
Fine(c, t, a) == Good(c) /\ CountsOk(c) /\ Dated(c, t, a)

Served(c) ==
  /\ \A id \in InState(c, "pending") : Fitting(c, id) = {}
  /\ MachinesNeededForPending(c) = 0

LEMMA AlikeFine ==
  ASSUME NEW c, Good(c), NEW d, d \in ClusterType, Alike(c, d)
  PROVE  /\ Good(d) /\ (d.desired = c.desired /\ CountsOk(c) => CountsOk(d))
         /\ Served(c) => Served(d)
<1>1. Good(d)
  BY AlikeRoom DEF Good, Alike
<1>2. d.desired = c.desired /\ CountsOk(c) => CountsOk(d)
  BY AlikeSets DEF CountsOk
<1>3. /\ InState(d, "pending") = InState(c, "pending") /\ Places(d) = Places(c)
      /\ \A id : SizeOf(d, id) = SizeOf(c, id) /\ Fitting(d, id) = Fitting(c, id)
  BY AlikeSets
<1>4. Booting(d) = Booting(c) /\ Booting(c) \in Nat
  BY <1>3, BootingTyped DEF Booting, Alike, Good
<1>5. Len(d.machines) = Len(c.machines) /\ Len(c.machines) \in Nat
  BY MachinesTyped DEF Alike, Good
<1>6. MachinesNeededForPending(d) = MachinesNeededForPending(c)
  <2>1. Booting(d) = Booting(c) + 0 /\ Len(d.machines) = Len(c.machines) + 0
    BY <1>4, <1>5
  <2> QED BY <1>3, <2>1, NeededServed DEF Good
<1> QED BY <1>1, <1>2, <1>3, <1>6 DEF Served

LEMMA SameFine ==
  ASSUME NEW c, NEW t, NEW a, Fine(c, t, a), NEW d, Same(c, d)
  PROVE  /\ Fine(d, t, a) /\ (Served(c) => Served(d))
         /\ \A w : ReadyCount(d, w) = ReadyCount(c, w)
<1>1. Good(d) /\ CountsOk(d) /\ (Served(c) => Served(d))
  BY AlikeFine DEF Fine, Same
<1>2. Dated(d, t, a)
  BY AlikeSets DEF Dated, Fine, Same
<1> QED BY <1>1, <1>2, AlikeSets DEF Fine, Same

\* Two sequences of machines with the same places are of one length.
LEMMA SameLength ==
  ASSUME NEW c, c \in ClusterType, NEW d, d \in ClusterType, Places(d) = Places(c)
  PROVE  Len(d.machines) = Len(c.machines)
<1>1. PICK p : p = Len(c.machines)
  OBVIOUS
<1>2. PICK q : q = Len(d.machines)
  OBVIOUS
<1>3. p \in Nat /\ q \in Nat /\ 1 .. p = 1 .. q
  BY <1>1, <1>2, MachinesTyped
<1>4. Cardinality(1 .. p) = p /\ Cardinality(1 .. q) = q
  BY <1>3, FS_Interval
<1> QED BY <1>1, <1>2, <1>3, <1>4

LEMMA FilledCounts ==
  ASSUME NEW c, c \in ClusterType, NEW st \in {"starting", "ready"},
         NEW d, Filled(c, d, InState(c, "pending"), st)
  PROVE  /\ Len(d.machines) = Len(c.machines)
         /\ \A w : PodsOf(d, w) = PodsOf(c, w)
         /\ st = "starting" => \A w : ReadyCount(d, w) = ReadyCount(c, w)
         /\ \A id \in InState(d, "pending") : Fitting(d, id) = {}
<1>1. d \in ClusterType /\ PodIds(d) = PodIds(c) /\ Places(d) = Places(c)
  BY DEF Filled
<1>4. Len(d.machines) = Len(c.machines)
  BY <1>1, SameLength
<1>5. ASSUME NEW k \in PodIds(c), k \notin InState(c, "pending")
      PROVE  d.pods[k] = c.pods[k]
  <2>1. k \in DOMAIN c.pods
    BY DEF PodIds
  <2> QED BY <1>5, <2>1 DEF Filled
<1>6. ASSUME NEW k \in InState(c, "pending")
      PROVE  /\ d.pods[k].workload = c.pods[k].workload /\ d.pods[k].state \in {"pending", st}
             /\ d.pods[k].state = "pending" => Fitting(d, k) = {}
             /\ c.pods[k].state = "pending"
  BY DEF Filled, InState
<1>7. \A w : PodsOf(d, w) = PodsOf(c, w)
  BY <1>1, <1>5, <1>6 DEF PodsOf
<1>8. ASSUME st = "starting" PROVE InState(d, "ready") = InState(c, "ready")
  <2>1. \A k \in PodIds(c) : d.pods[k].state = "ready" <=> c.pods[k].state = "ready"
    BY <1>5, <1>6, <1>8
  <2> QED BY <1>1, <2>1 DEF InState
<1>9. ASSUME NEW id \in InState(d, "pending") PROVE Fitting(d, id) = {}
  <2>1. id \in PodIds(c) /\ d.pods[id].state = "pending"
    BY <1>1 DEF InState
  <2>2. id \in InState(c, "pending")
    BY <1>5, <2>1 DEF InState
  <2> QED BY <1>6, <2>1, <2>2
<1> QED BY <1>4, <1>7, <1>8, <1>9 DEF ReadyCount

-----------------------------------------------------------------------------
(* A run of the cluster's scheduling.                                        *)

\* The cluster with n machines more, which boot.
Booted(c, n) == [c EXCEPT !.machines = @ \o [i \in 1 .. n |-> Machine(TRUE)]]

Grown(c, d, n) ==
  /\ d \in ClusterType /\ d.pods = c.pods /\ d.desired = c.desired
  /\ d.area = c.area /\ d.accruedAt = c.accruedAt
  /\ Len(d.machines) = Len(c.machines) + n
  /\ Places(c) \subseteq Places(d)
  /\ \A m \in Places(c) : d.machines[m] = c.machines[m]
  /\ \A m \in Places(d) \ Places(c) : d.machines[m] = Machine(TRUE)
  /\ Booting(d) = Booting(c) + n /\ Numbers(Places(d) \ Places(c))

LEMMA BootedFields ==
  ASSUME NEW c, c \in ClusterType, NEW n \in Nat
  PROVE  Grown(c, Booted(c, n), n)
<1> DEFINE d == Booted(c, n)
<1>1. PICK v : v = [i \in 1 .. n |-> Machine(TRUE)]
  OBVIOUS
<1>2. Machine(TRUE) \in MachineType
  BY DEF Machine, MachineType, RoomType
<1>3. v \in Seq(MachineType)
  <2>1. v \in [1 .. n -> MachineType]
    BY <1>1, <1>2
  <2> QED BY <2>1
<1>4. Len(v) = n /\ \A i \in 1 .. n : v[i] = Machine(TRUE)
  BY <1>1, <1>3
<1>5. PICK u : u = c.machines
  OBVIOUS
<1>6. u \in Seq(MachineType)
  BY <1>5 DEF ClusterType
<1>7. PICK l : l = Len(u)
  OBVIOUS
<1>8. l \in Nat
  BY <1>6, <1>7
<1>9. PICK w : w = u \o v
  OBVIOUS
<1>10. /\ w \in Seq(MachineType) /\ Len(w) = l + n
       /\ \A i \in 1 .. l + n : w[i] = IF i <= l THEN u[i] ELSE v[i - l]
  <2>1. /\ u \o v \in Seq(MachineType) /\ Len(u \o v) = Len(u) + Len(v)
        /\ \A i \in 1 .. Len(u) + Len(v) : (u \o v)[i] = IF i <= Len(u) THEN u[i] ELSE v[i - Len(u)]
    BY ONLY <1>3, <1>6, ConcatProperties
  <2> QED BY ONLY <1>4, <1>7, <1>9, <2>1
<1>11. d = [c EXCEPT !.machines = w]
  BY <1>1, <1>5, <1>9 DEF Booted
<1> HIDE DEF d
<1>12. /\ d \in ClusterType /\ d.pods = c.pods /\ d.desired = c.desired
       /\ d.area = c.area /\ d.accruedAt = c.accruedAt /\ d.machines = w
  BY <1>10, <1>11 DEF ClusterType
<1>13. Places(c) = 1 .. l /\ Places(d) = 1 .. l + n
  BY <1>5, <1>7, <1>10, <1>12, MachinesTyped
<1>14. \A m \in 1 .. l : m \in 1 .. l + n /\ w[m] = u[m]
  BY <1>8, <1>10
<1>15. ASSUME NEW m \in (1 .. l + n) \ (1 .. l) PROVE w[m] = Machine(TRUE)
  <2>1. ~(m <= l) /\ m - l \in 1 .. n
    BY <1>8
  <2> QED BY <1>4, <1>10, <2>1
<1>16. PICK P : P = {m \in 1 .. l : u[m].provisioning}
  OBVIOUS
<1>17. PICK Q : Q = (1 .. l + n) \ (1 .. l)
  OBVIOUS
<1>18. IsFiniteSet(P) /\ Cardinality(P) \in Nat /\ P \subseteq 1 .. l
  <2>1. IsFiniteSet(1 .. l)
    BY <1>8, FS_Interval
  <2> QED BY <1>16, <2>1, FS_Subset, FS_CardinalityType
<1>19. IsFiniteSet(Q) /\ Cardinality(Q) = n
  <2>1. l + 1 \in Int /\ l + n \in Int /\ Q = l + 1 .. l + n
    BY <1>8, <1>17
  <2>2. Cardinality(Q) = IF l + 1 > l + n THEN 0 ELSE (l + n) - (l + 1) + 1
    BY <2>1, FS_Interval
  <2> QED BY <1>8, <2>1, <2>2, FS_Interval
<1>20. {m \in 1 .. l + n : w[m].provisioning} = P \cup Q
  <2>1. Machine(TRUE).provisioning
    BY DEF Machine
  <2> QED BY <1>14, <1>15, <1>16, <1>17, <2>1
<1>21. P \cap Q = {}
  BY <1>17, <1>18
<1>22. Cardinality(P \cup Q) = Cardinality(P) + n
  <2>1. Cardinality(P \cup Q) = Cardinality(P) + Cardinality(Q) - Cardinality(P \cap Q)
    BY <1>18, <1>19, FS_Union
  <2>2. Cardinality(P \cap Q) = 0
    BY <1>21, FS_EmptySet
  <2> QED BY <1>18, <1>19, <2>1, <2>2
<1>23. Booting(d) = Cardinality(P \cup Q) /\ Booting(c) = Cardinality(P)
  BY <1>5, <1>12, <1>13, <1>16, <1>20 DEF Booting
<1>24. Numbers(Q)
  <2>1. Q \in SUBSET Nat
    BY <1>8, <1>17
  <2> QED BY <1>19, <2>1 DEF Numbers
<1> QED BY <1>5, <1>7, <1>10, <1>12, <1>13, <1>14, <1>15, <1>17, <1>22, <1>23, <1>24
   DEF d, Grown

LEMMA BootedFine ==
  ASSUME NEW c, Good(c), NEW n \in Nat, Len(c.machines) + n <= MaxMachines,
         NEW d, Grown(c, d, n)
  PROVE  /\ Good(d) /\ (CountsOk(c) => CountsOk(d))
         /\ \A w : ReadyCount(d, w) = ReadyCount(c, w)
         /\ \A id \in PodIds(c) : Fitting(d, id) = Fitting(c, id)
         /\ InState(d, "pending") = InState(c, "pending")
         /\ \A id : SizeOf(d, id) = SizeOf(c, id)
<1>1. /\ d \in ClusterType /\ d.pods = c.pods /\ d.desired = c.desired
      /\ Len(d.machines) = Len(c.machines) + n
      /\ Places(c) \subseteq Places(d)
      /\ \A m \in Places(c) : d.machines[m] = c.machines[m]
      /\ \A m \in Places(d) \ Places(c) : d.machines[m] = Machine(TRUE)
  BY DEF Grown
<1>2. c \in ClusterType /\ RoomOk(c)
  BY DEF Good
<1>3. PodIds(d) = PodIds(c)
  BY <1>1 DEF PodIds
<1>4. /\ \A s : InState(d, s) = InState(c, s)
      /\ \A w : PodsOf(d, w) = PodsOf(c, w)
      /\ \A m : Bound(d, m) = Bound(c, m)
      /\ \A id : SizeOf(d, id) = SizeOf(c, id)
  BY <1>1, <1>3 DEF InState, PodsOf, Bound, SizeOf
<1>5. ASSUME NEW k \in PodIds(d) PROVE PodOk(d, k)
  BY <1>1, <1>2, <1>3, PodStays DEF RoomOk
<1>6. ASSUME NEW m \in Places(d) PROVE MachineOk(d, m)
  <2>1. CASE m \in Places(c)
    <3>1. MachineOk(c, m) /\ Bound(d, m) = Bound(c, m) /\ d.machines[m] = c.machines[m]
      BY <1>1, <1>2, <1>4, <2>1 DEF RoomOk
    <3> QED BY <1>1, <1>2, <3>1, MachineStays
  <2>2. CASE m \notin Places(c)
    <3>1. m # NoMachine
      BY <1>1, MachinesTyped DEF NoMachine
    <3>2. Bound(c, m) = {}
      BY <1>2, <2>2, <3>1 DEF Bound, RoomOk, PodOk
    <3>3. \A r : Load(d, m, r) = 0
      BY <1>4, <3>2, SumOfNone DEF Load
    <3>4. d.machines[m] = Machine(TRUE)
      BY <1>1, <2>2
    <3>5. ~d.machines[m].up /\ \A r \in Resources : d.machines[m].used[r] = 0
      <4>1. ~Machine(TRUE).up /\ Machine(TRUE).used = [vcpu |-> 0, ram |-> 0]
        BY DEF Machine
      <4>2. \A r \in Resources : [vcpu |-> 0, ram |-> 0][r] = 0
        BY DEF Resources
      <4> QED BY <3>4, <4>1, <4>2
    <3>6. \A r \in Resources : 0 <= MachineSize[r]
      BY ClusterAssumption DEF Resources, SizeType
    <3> QED BY <3>3, <3>5, <3>6 DEF MachineOk
  <2> QED BY <2>1, <2>2
<1>7. ASSUME NEW id \in PodIds(c) PROVE Fitting(d, id) = Fitting(c, id)
  <2>1. ASSUME NEW m \in Places(d), Fits(d.machines[m], SizeOf(c, id)) PROVE m \in Places(c)
    <3>1. d.machines[m].up
      BY <2>1 DEF Fits
    <3>2. ~Machine(TRUE).up
      BY DEF Machine
    <3> QED BY <1>1, <3>1, <3>2
  <2> QED BY <1>1, <1>4, <2>1 DEF Fitting
<1> QED BY <1>1, <1>2, <1>4, <1>5, <1>6, <1>7 DEF Good, RoomOk, CountsOk, ReadyCount

LEMMA ProvisionedFine ==
  ASSUME NEW c, NEW t \in Int, NEW a, Fine(c, t, a),
         \A id \in InState(c, "pending") : Fitting(c, id) = {}
  PROVE  /\ Fine(MaybeProvisionMachines(c, t), t, a) /\ Served(MaybeProvisionMachines(c, t))
         /\ \A w : ReadyCount(MaybeProvisionMachines(c, t), w) = ReadyCount(c, w)
<1>1. PICK n : n = MachinesNeededForPending(c)
  OBVIOUS
<1>2. c \in ClusterType /\ Good(c) /\ Dated(c, t, a) /\ CountsOk(c)
  BY DEF Fine, Good
<1>3. n \in Nat /\ Len(c.machines) + n <= MaxMachines
  BY <1>1, <1>2, NeededTyped DEF Good
<1>4. CASE n = 0
  BY <1>1, <1>4 DEF MaybeProvisionMachines, Served
<1>5. CASE n # 0
  <2>1. PICK b : b = Accrue(c, t)
    OBVIOUS
  <2>2. b \in ClusterType /\ Alike(c, b) /\ b.desired = c.desired /\ b.accruedAt = t /\ b.area = a
    BY <1>2, <2>1, Accrued
  <2>3. Good(b) /\ CountsOk(b)
    BY <1>2, <2>2, AlikeFine
  <2>4. /\ Places(b) = Places(c) /\ PodIds(b) = PodIds(c) /\ Booting(b) = Booting(c)
        /\ InState(b, "pending") = InState(c, "pending")
        /\ \A w : ReadyCount(b, w) = ReadyCount(c, w)
        /\ \A id : SizeOf(b, id) = SizeOf(c, id) /\ Fitting(b, id) = Fitting(c, id)
        /\ Len(b.machines) = Len(c.machines)
    <3>1. Places(b) = Places(c)
      BY <2>2, AlikeSets
    <3> QED BY <2>2, <3>1, AlikeSets DEF Booting, Alike
  <2>5. PICK d : d = Booted(b, n)
    OBVIOUS
  <2>6. /\ d \in ClusterType /\ d.area = a /\ d.accruedAt = t
        /\ Len(d.machines) = Len(c.machines) + n /\ Booting(d) = Booting(c) + n
        /\ Numbers(Places(d) \ Places(c))
    <3>1. Grown(b, d, n)
      BY <1>3, <2>2, <2>5, BootedFields
    <3> QED BY <2>2, <2>4, <3>1 DEF Grown
  <2>7. /\ Good(d) /\ CountsOk(d) /\ \A w : ReadyCount(d, w) = ReadyCount(c, w)
        /\ \A id \in PodIds(c) : Fitting(d, id) = Fitting(c, id)
        /\ InState(d, "pending") = InState(c, "pending")
        /\ \A id : SizeOf(d, id) = SizeOf(c, id)
    <3>1. Grown(b, d, n)
      BY <1>3, <2>2, <2>5, BootedFields
    <3>2. /\ Good(d) /\ CountsOk(d) /\ \A w : ReadyCount(d, w) = ReadyCount(b, w)
          /\ \A id \in PodIds(b) : Fitting(d, id) = Fitting(b, id)
          /\ InState(d, "pending") = InState(b, "pending")
          /\ \A id : SizeOf(d, id) = SizeOf(b, id)
      <4>1. Len(b.machines) + n <= MaxMachines
        BY <1>3, <2>4
      <4> QED BY <1>3, <2>3, <3>1, <4>1, BootedFine
    <3> QED BY <2>4, <3>2
  <2>8. MachinesNeededForPending(d) = 0
    BY <1>1, <1>2, <1>3, <2>6, <2>7, NeededServed DEF Good
  <2>9. \A id \in InState(d, "pending") : Fitting(d, id) = {}
    BY <2>7 DEF InState
  <2>10. Fine(d, t, a) /\ Served(d)
    BY <2>6, <2>7, <2>8, <2>9, SettledDated DEF Fine, Served
  <2>11. MaybeProvisionMachines(c, t)
           = ScheduleEach(d, Places(d) \ Places(c), t + MachineProvision, "machine-joined")
    BY <1>1, <1>5, <2>1, <2>5 DEF MaybeProvisionMachines, Booted
  <2>12. t + MachineProvision \in Int /\ "machine-joined" \in Actions
    BY ClusterAssumption DEF Actions
  <2>13. Same(d, MaybeProvisionMachines(c, t))
    BY <2>6, <2>11, <2>12, ScheduleEachSame
  <2> QED BY <2>7, <2>10, <2>13, SameFine
<1> QED BY <1>4, <1>5

LEMMA RunFine ==
  ASSUME NEW c, NEW t \in Int, NEW a, Fine(c, t, a)
  PROVE  /\ Fine(RunClusterScheduling(c, t), t, a) /\ Served(RunClusterScheduling(c, t))
         /\ \A w : ReadyCount(RunClusterScheduling(c, t), w) = ReadyCount(c, w)
<1>1. c \in ClusterType /\ Good(c) /\ Dated(c, t, a) /\ CountsOk(c)
  BY DEF Fine, Good
<1>2. PICK b : b = Accrue(c, t)
  OBVIOUS
<1>3. b \in ClusterType /\ Alike(c, b) /\ b.desired = c.desired /\ b.accruedAt = t /\ b.area = a
  BY <1>1, <1>2, Accrued
<1>4. Good(b) /\ CountsOk(b)
  BY <1>1, <1>3, AlikeFine
<1>5. InState(b, "pending") = InState(c, "pending") /\ \A w : ReadyCount(b, w) = ReadyCount(c, w)
  BY <1>3, AlikeSets
<1>6. PICK d : d = SchedulePending(c, t)
  OBVIOUS
<1>7. Filled(b, d, InState(b, "pending"), "starting")
  <2>1. PICK S : S = InState(b, "pending")
    OBVIOUS
  <2>2. d = Folded("start", t, 0, b, S)
    BY <1>2, <1>5, <1>6, <2>1, TheFolds
  <2> QED BY <1>4, <2>1, <2>2, FoldFills DEF Good
<1>8. /\ Len(d.machines) = Len(b.machines)
      /\ \A w : PodsOf(d, w) = PodsOf(b, w) /\ ReadyCount(d, w) = ReadyCount(b, w)
      /\ \A id \in InState(d, "pending") : Fitting(d, id) = {}
  BY <1>3, <1>7, FilledCounts
<1>9. /\ d \in ClusterType /\ RoomOk(d) /\ d.desired = b.desired /\ d.accruedAt = t /\ d.area = a
  BY <1>3, <1>7 DEF Filled
<1>10. Fine(d, t, a)
  <2>1. Good(d) /\ CountsOk(d)
    BY <1>4, <1>8, <1>9 DEF Good, CountsOk
  <2> QED BY <1>9, <2>1, SettledDated DEF Fine
<1>11. RunClusterScheduling(c, t) = MaybeProvisionMachines(d, t)
  BY <1>6 DEF RunClusterScheduling
<1>12. PICK e : e = MaybeProvisionMachines(d, t)
  OBVIOUS
<1>13. Fine(e, t, a) /\ Served(e) /\ \A w : ReadyCount(e, w) = ReadyCount(d, w)
  BY <1>8, <1>10, <1>12, ProvisionedFine
<1>14. \A w : ReadyCount(e, w) = ReadyCount(c, w)
  BY <1>5, <1>8, <1>13
<1> QED BY <1>11, <1>12, <1>13, <1>14

-----------------------------------------------------------------------------
(* Pods come and go.                                                         *)

\* n pods of w more, which wait.
Created(c, d, w, n) ==
  /\ d \in ClusterType /\ DOMAIN c.pods \subseteq DOMAIN d.pods
  /\ \A k \in DOMAIN c.pods : d.pods[k] = c.pods[k]
  /\ \A k \in DOMAIN d.pods \ DOMAIN c.pods :
       d.pods[k].workload = w /\ d.pods[k].state = "pending" /\ d.pods[k].machine = NoMachine
  /\ IsFiniteSet(DOMAIN d.pods \ DOMAIN c.pods)
  /\ Cardinality(DOMAIN d.pods \ DOMAIN c.pods) = n
  /\ d.machines = c.machines /\ d.desired = c.desired
  /\ d.area = c.area /\ d.accruedAt = c.accruedAt

LEMMA CreatedFields ==
  ASSUME NEW c, c \in ClusterType, NEW w \in Workloads, NEW n \in Nat, NEW t \in Int,
         NEW x \in Int
  PROVE  Created(c, CreatePods(c, w, n, t, x), w, n)
<1>1. PICK p : p = [workload |-> w, state |-> "pending", machine |-> NoMachine,
                    created |-> t, readyAt |-> Never, lossAt |-> x]
  OBVIOUS
<1>2. /\ p \in PodType \cup {Gone} /\ p.workload = w /\ p.state = "pending"
      /\ p.machine = NoMachine
  BY <1>1 DEF PodType, NoMachine, Never
<1>3. PICK v : v = [i \in 1 .. n |-> p]
  OBVIOUS
<1>4. v \in Seq(PodType \cup {Gone})
  <2>1. v \in [1 .. n -> PodType \cup {Gone}]
    BY <1>2, <1>3
  <2> QED BY <2>1
<1>5. Len(v) = n /\ \A i \in 1 .. n : v[i] = p
  BY <1>3, <1>4
<1>6. PICK u : u = c.pods
  OBVIOUS
<1>7. u \in Seq(PodType \cup {Gone})
  BY <1>6 DEF ClusterType
<1>8. PICK l : l = Len(u)
  OBVIOUS
<1>9. l \in Nat /\ DOMAIN u = 1 .. l
  BY <1>7, <1>8
<1>10. PICK y : y = u \o v
  OBVIOUS
<1>11. /\ y \in Seq(PodType \cup {Gone}) /\ Len(y) = l + n
       /\ \A i \in 1 .. l + n : y[i] = IF i <= l THEN u[i] ELSE v[i - l]
  <2>1. /\ u \o v \in Seq(PodType \cup {Gone}) /\ Len(u \o v) = Len(u) + Len(v)
        /\ \A i \in 1 .. Len(u) + Len(v) : (u \o v)[i] = IF i <= Len(u) THEN u[i] ELSE v[i - Len(u)]
    BY ONLY <1>4, <1>7, ConcatProperties
  <2> QED BY ONLY <1>5, <1>8, <1>10, <2>1
<1>12. DOMAIN y = 1 .. l + n
  BY <1>11
<1>13. PICK d : d = CreatePods(c, w, n, t, x)
  OBVIOUS
<1>14. d = [c EXCEPT !.pods = y]
  BY <1>1, <1>3, <1>6, <1>10, <1>13 DEF CreatePods
<1>15. /\ d \in ClusterType /\ d.pods = y /\ d.machines = c.machines /\ d.desired = c.desired
       /\ d.area = c.area /\ d.accruedAt = c.accruedAt
  BY <1>11, <1>14 DEF ClusterType
<1>16. \A k \in 1 .. l : k \in 1 .. l + n /\ y[k] = u[k]
  BY <1>9, <1>11
<1>17. ASSUME NEW k \in (1 .. l + n) \ (1 .. l) PROVE y[k] = p
  <2>1. ~(k <= l) /\ k - l \in 1 .. n
    BY <1>9
  <2> QED BY <1>5, <1>11, <2>1
<1>18. IsFiniteSet((1 .. l + n) \ (1 .. l)) /\ Cardinality((1 .. l + n) \ (1 .. l)) = n
  <2>1. PICK N : N = l + 1 .. l + n
    OBVIOUS
  <2>2. l + 1 \in Int /\ l + n \in Int /\ (1 .. l + n) \ (1 .. l) = N
    BY <1>9, <2>1
  <2>3. IsFiniteSet(N) /\ Cardinality(N) = IF l + 1 > l + n THEN 0 ELSE (l + n) - (l + 1) + 1
    BY <2>1, <2>2, FS_Interval
  <2>4. Cardinality(N) = n
    BY <1>9, <2>3
  <2> QED BY <2>2, <2>3, <2>4
<1> QED BY <1>2, <1>6, <1>9, <1>12, <1>13, <1>15, <1>16, <1>17, <1>18 DEF Created

LEMMA CreatedCounts ==
  ASSUME NEW c, c \in ClusterType, RoomOk(c), NEW w, NEW n \in Nat, NEW d, Created(c, d, w, n)
  PROVE  /\ RoomOk(d)
         /\ \A v : Cardinality(PodsOf(d, v)) = Cardinality(PodsOf(c, v)) + IF v = w THEN n ELSE 0
         /\ \A v : ReadyCount(d, v) = ReadyCount(c, v)
<1>1. PICK N : N = DOMAIN d.pods \ DOMAIN c.pods
  OBVIOUS
<1>2. /\ d \in ClusterType /\ d.machines = c.machines /\ Places(d) = Places(c)
      /\ \A k \in DOMAIN c.pods : d.pods[k] = c.pods[k]
      /\ IsFiniteSet(N) /\ Cardinality(N) = n
      /\ \A k \in N : /\ d.pods[k].workload = w /\ d.pods[k].state = "pending"
                      /\ d.pods[k].machine = NoMachine
  BY <1>1 DEF Created, Places
<1>3. PodIds(d) = PodIds(c) \cup N /\ PodIds(c) \cap N = {}
  BY <1>1, <1>2 DEF PodIds, Created
<1>4. \A k \in PodIds(c) : d.pods[k] = c.pods[k]
  BY <1>2 DEF PodIds
<1>5. \A v : PodsOf(d, v) = PodsOf(c, v) \cup IF v = w THEN N ELSE {}
  BY <1>2, <1>3, <1>4 DEF PodsOf
<1>6. InState(d, "ready") = InState(c, "ready")
  BY <1>2, <1>3, <1>4 DEF InState
<1>7. ASSUME NEW v
      PROVE  Cardinality(PodsOf(d, v)) = Cardinality(PodsOf(c, v)) + IF v = w THEN n ELSE 0
  <2>1. IsFiniteSet(PodsOf(c, v)) /\ PodsOf(c, v) \in SUBSET PodIds(c)
        /\ Cardinality(PodsOf(c, v)) \in Nat
    BY PodSets DEF Numbers
  <2>2. CASE v = w
    <3>1. PodsOf(c, v) \cap N = {}
      BY <1>3, <2>1
    <3>2. Cardinality(PodsOf(c, v) \cup N)
            = Cardinality(PodsOf(c, v)) + Cardinality(N) - Cardinality(PodsOf(c, v) \cap N)
      BY <1>2, <2>1, FS_Union
    <3>3. Cardinality(PodsOf(c, v) \cap N) = 0
      BY <3>1, FS_EmptySet
    <3>4. PodsOf(d, v) = PodsOf(c, v) \cup N
      BY <1>5, <2>2
    <3>5. Cardinality(N) = n
      BY <1>2
    <3>6. PICK p : p = Cardinality(PodsOf(c, v))
      OBVIOUS
    <3>7. p \in Nat /\ Cardinality(PodsOf(d, v)) = p + n - 0
      BY <2>1, <3>2, <3>3, <3>4, <3>5, <3>6
    <3> QED BY <2>2, <3>6, <3>7
  <2>3. CASE v # w
    <3>1. PodsOf(d, v) = PodsOf(c, v)
      BY <1>5, <2>3
    <3> QED BY <2>1, <2>3, <3>1
  <2> QED BY <2>2, <2>3
<1>8. ASSUME NEW v PROVE ReadyCount(d, v) = ReadyCount(c, v)
  <2>1. PodsOf(d, v) \cap InState(c, "ready") = PodsOf(c, v) \cap InState(c, "ready")
    <3>1. InState(c, "ready") \in SUBSET PodIds(c)
      BY PodSets
    <3> QED BY <1>3, <1>5, <3>1
  <2> QED BY <1>6, <2>1 DEF ReadyCount
<1>9. ASSUME NEW k \in PodIds(d) PROVE PodOk(d, k)
  <2>1. CASE k \in PodIds(c)
    <3>1. PodOk(c, k) /\ d.pods[k] = c.pods[k]
      BY <1>4, <2>1 DEF RoomOk
    <3> QED BY <1>2, <3>1, PodStays
  <2>2. CASE k \in N
    BY <1>2, <2>2 DEF PodOk
  <2> QED BY <1>3, <2>1, <2>2
<1>10. ASSUME NEW m \in Places(d) PROVE MachineOk(d, m)
  <2>1. MachineOk(c, m) /\ m # NoMachine
    <3>1. m \in Places(c)
      BY <1>2
    <3> QED BY <3>1, MachinesTyped DEF RoomOk, NoMachine
  <2>2. Bound(d, m) = Bound(c, m)
    BY <1>2, <1>3, <1>4, <2>1 DEF Bound
  <2>3. \A k \in Bound(c, m) : d.pods[k].workload = c.pods[k].workload
    BY <1>4 DEF Bound
  <2> QED BY <1>2, <2>1, <2>2, <2>3, MachineStays
<1> QED BY <1>7, <1>8, <1>9, <1>10 DEF RoomOk

LEMMA GaveCounts ==
  ASSUME NEW c, c \in ClusterType, NEW id \in PodIds(c), NEW d, Gave(c, d, id)
  PROVE  /\ \A v : Cardinality(PodsOf(d, v))
                     = Cardinality(PodsOf(c, v)) - IF v = c.pods[id].workload THEN 1 ELSE 0
         /\ c.pods[id].state # "ready" => \A v : ReadyCount(d, v) = ReadyCount(c, v)
<1>1. PodIds(d) = PodIds(c) \ {id} /\ \A k \in PodIds(c) : k # id => d.pods[k] = c.pods[k]
  BY PodsTyped DEF Gave, PodIds
<1>2. \A v : PodsOf(d, v) = PodsOf(c, v) \ {id}
  BY <1>1 DEF PodsOf
<1>3. InState(d, "ready") = InState(c, "ready") \ {id}
  BY <1>1 DEF InState
<1>4. ASSUME NEW v
      PROVE  Cardinality(PodsOf(d, v))
               = Cardinality(PodsOf(c, v)) - IF v = c.pods[id].workload THEN 1 ELSE 0
  <2>1. IsFiniteSet(PodsOf(c, v)) /\ Cardinality(PodsOf(c, v)) \in Nat
    BY PodSets DEF Numbers
  <2>2. Cardinality(PodsOf(c, v) \ {id})
          = IF id \in PodsOf(c, v) THEN Cardinality(PodsOf(c, v)) - 1 ELSE Cardinality(PodsOf(c, v))
    BY <2>1, FS_RemoveElement
  <2>3. id \in PodsOf(c, v) <=> v = c.pods[id].workload
    BY DEF PodsOf
  <2>4. PICK p : p = Cardinality(PodsOf(c, v))
    OBVIOUS
  <2>5. p \in Nat /\ Cardinality(PodsOf(d, v)) = IF id \in PodsOf(c, v) THEN p - 1 ELSE p
    BY <1>2, <2>1, <2>2, <2>4
  <2>6. p = p - 0
    BY <2>5
  <2> QED BY <2>3, <2>4, <2>5, <2>6
<1>5. ASSUME c.pods[id].state # "ready", NEW v PROVE ReadyCount(d, v) = ReadyCount(c, v)
  <2>1. id \notin InState(c, "ready")
    BY <1>5 DEF InState
  <2>2. PodsOf(d, v) \cap InState(d, "ready") = PodsOf(c, v) \cap InState(c, "ready")
    BY <1>2, <1>3, <2>1
  <2> QED BY <2>2 DEF ReadyCount
<1> QED BY <1>4, <1>5

\* The pods of s are replaced one by one.
Replaced(c, d, s) ==
  /\ d \in ClusterType /\ RoomOk(d) /\ DOMAIN c.pods \subseteq DOMAIN d.pods
  /\ \A k \in DOMAIN c.pods : k \notin s => d.pods[k] = c.pods[k]
  /\ \A v : /\ Cardinality(PodsOf(d, v)) = Cardinality(PodsOf(c, v))
            /\ ReadyCount(d, v) = ReadyCount(c, v)
  /\ Len(d.machines) = Len(c.machines)
  /\ d.desired = c.desired /\ d.area = c.area /\ d.accruedAt = c.accruedAt

LEMMA ReplacedMore ==
  ASSUME NEW c, c \in ClusterType, NEW s \in SUBSET InState(c, "lost"), NEW x \in s,
         NEW d, Replaced(c, d, s \ {x}), NEW t \in Int
  PROVE  Replaced(c, ReplaceLost(d, x, t), s)
<1>1. x \in PodIds(c) /\ x \in DOMAIN c.pods /\ c.pods[x].state = "lost" /\ c.pods[x] \in PodType
  BY PodsTyped DEF InState, PodIds
<1>2. d \in ClusterType /\ RoomOk(d) /\ d.pods[x] = c.pods[x] /\ x \in PodIds(d)
  BY <1>1 DEF Replaced, PodIds
<1>3. PICK pod : pod = c.pods[x]
  OBVIOUS
<1>4. pod.workload \in Workloads /\ pod.lossAt \in Int /\ pod.state = "lost"
  BY <1>1, <1>3 DEF PodType
<1>5. PICK g : g = Removed(d, x)
  OBVIOUS
<1>6. Gave(d, g, x)
  BY <1>2, <1>5, RemovedFields
<1>7. RoomOk(g) /\ g \in ClusterType
  BY <1>2, <1>6, GaveRoom DEF Gave
<1>8. PICK e : e = CreatePods(g, pod.workload, 1, t, pod.lossAt)
  OBVIOUS
<1>9. Created(g, e, pod.workload, 1)
  BY <1>4, <1>7, <1>8, CreatedFields
<1>10. ReplaceLost(d, x, t) = e
  BY <1>2, <1>3, <1>5, <1>8 DEF ReplaceLost, Removed
<1>11. RoomOk(e) /\ e \in ClusterType
  BY <1>7, <1>9, CreatedCounts DEF Created
<1>12. ASSUME NEW v
       PROVE  /\ Cardinality(PodsOf(e, v)) = Cardinality(PodsOf(c, v))
              /\ ReadyCount(e, v) = ReadyCount(c, v)
  <2>1. /\ Cardinality(PodsOf(e, v)) = Cardinality(PodsOf(g, v)) + IF v = pod.workload THEN 1 ELSE 0
        /\ ReadyCount(e, v) = ReadyCount(g, v)
    BY <1>7, <1>9, CreatedCounts
  <2>2. /\ Cardinality(PodsOf(g, v)) = Cardinality(PodsOf(d, v)) - IF v = pod.workload THEN 1 ELSE 0
        /\ ReadyCount(g, v) = ReadyCount(d, v)
    BY <1>2, <1>3, <1>4, <1>6, GaveCounts
  <2>3. Cardinality(PodsOf(d, v)) \in Nat
    BY <1>2, PodSets
  <2>4. Cardinality(PodsOf(d, v)) = Cardinality(PodsOf(c, v)) /\ ReadyCount(d, v) = ReadyCount(c, v)
    BY DEF Replaced
  <2> QED BY <2>1, <2>2, <2>3, <2>4
<1>13. DOMAIN g.pods = DOMAIN d.pods /\ DOMAIN g.pods \subseteq DOMAIN e.pods
  BY <1>6, <1>9 DEF Gave, Created
<1>14. ASSUME NEW k \in DOMAIN c.pods, k \notin s PROVE e.pods[k] = c.pods[k]
  <2>1. k \in DOMAIN d.pods /\ d.pods[k] = c.pods[k] /\ k # x
    BY <1>14 DEF Replaced
  <2>2. g.pods[k] = d.pods[k]
    BY <1>6, <2>1 DEF Gave
  <2>3. e.pods[k] = g.pods[k]
    BY <1>9, <1>13, <2>1 DEF Created
  <2> QED BY <2>1, <2>2, <2>3
<1>15. Len(e.machines) = Len(c.machines)
  <2>1. Places(g) = Places(d) /\ e.machines = g.machines
    BY <1>6, <1>9 DEF Gave, Created
  <2>2. Len(g.machines) = Len(d.machines)
    BY <1>2, <1>7, <2>1, SameLength
  <2> QED BY <2>1, <2>2 DEF Replaced
<1>16. e.desired = c.desired /\ e.area = c.area /\ e.accruedAt = c.accruedAt
  BY <1>6, <1>9 DEF Gave, Created, Replaced
<1>17. DOMAIN c.pods \subseteq DOMAIN e.pods
  BY <1>13 DEF Replaced
<1> QED BY <1>10, <1>11, <1>12, <1>14, <1>15, <1>16, <1>17 DEF Replaced

LEMMA FoldReplaces ==
  ASSUME NEW c, c \in ClusterType, RoomOk(c), NEW S \in SUBSET InState(c, "lost"), NEW t \in Int
  PROVE  Replaced(c, Folded("replace", t, 0, c, S), S)
<1>1. Numbers(S)
  <2>1. Numbers(InState(c, "lost"))
    BY PodSets
  <2> QED BY <2>1, FS_Subset DEF Numbers
<1> DEFINE G == {p \in (SUBSET S) \X ClusterType : Replaced(c, p[2], p[1])}
<1>2. <<{}, c>> \in G
  BY DEF Replaced
<1>3. ASSUME NEW s \in SUBSET S, NEW d, s # {}, <<s \ {Max(s)}, d>> \in G
      PROVE  <<s, Step("replace", t, 0, d, Max(s))>> \in G
  <2>1. PICK x : x = Max(s)
    OBVIOUS
  <2>2. x \in s
    <3>1. Numbers(s)
      BY <1>1, FS_Subset DEF Numbers
    <3>2. s # {}
      BY <1>3
    <3> HIDE DEF G
    <3> QED BY <2>1, <3>1, <3>2, LessOne
  <2>3. Replaced(c, d, s \ {x})
    BY <1>3, <2>1
  <2>4. s \in SUBSET InState(c, "lost")
    OBVIOUS
  <2>5. Replaced(c, ReplaceLost(d, x, t), s)
    BY <2>2, <2>3, <2>4, ReplacedMore
  <2>6. Step("replace", t, 0, d, x) = ReplaceLost(d, x, t)
    BY DEF Step
  <2>7. ReplaceLost(d, x, t) \in ClusterType
    BY <2>5 DEF Replaced
  <2> QED BY <2>1, <2>5, <2>6, <2>7
<1>4. <<S, Folded("replace", t, 0, c, S)>> \in G
  <2> HIDE DEF G
  <2> QED BY <1>1, <1>2, <1>3, FoldKeeps
<1> QED BY <1>4

\* The pods of s are deleted one by one.
Deleted(c, d, s) ==
  /\ d \in ClusterType /\ RoomOk(d) /\ PodIds(d) = PodIds(c) \ s
  /\ \A k \in PodIds(d) : d.pods[k] = c.pods[k]
  /\ Len(d.machines) = Len(c.machines)
  /\ d.desired = c.desired /\ d.area = c.area /\ d.accruedAt = c.accruedAt

LEMMA FoldDeletes ==
  ASSUME NEW c, c \in ClusterType, RoomOk(c), NEW S \in SUBSET PodIds(c)
  PROVE  Deleted(c, Folded("delete", 0, 0, c, S), S)
<1>1. Numbers(S)
  BY PodsTyped, FS_Subset DEF Numbers
<1> DEFINE G == {p \in (SUBSET S) \X ClusterType : Deleted(c, p[2], p[1])}
<1>2. <<{}, c>> \in G
  BY DEF Deleted
<1>3. ASSUME NEW s \in SUBSET S, NEW d, s # {}, <<s \ {Max(s)}, d>> \in G
      PROVE  <<s, Step("delete", 0, 0, d, Max(s))>> \in G
  <2>1. PICK x : x = Max(s)
    OBVIOUS
  <2>2. x \in s
    <3>1. Numbers(s)
      BY <1>1, FS_Subset DEF Numbers
    <3>2. s # {}
      BY <1>3
    <3> HIDE DEF G
    <3> QED BY <2>1, <3>1, <3>2, LessOne
  <2>3. Deleted(c, d, s \ {x})
    BY <1>3, <2>1
  <2>4. d \in ClusterType /\ RoomOk(d) /\ x \in PodIds(d)
    BY <2>2, <2>3 DEF Deleted
  <2>5. PICK e : e = Removed(d, x)
    OBVIOUS
  <2>6. Gave(d, e, x)
    BY <2>4, <2>5, RemovedFields
  <2>7. RoomOk(e) /\ e \in ClusterType
    BY <2>4, <2>6, GaveRoom DEF Gave
  <2>8. PodIds(e) = PodIds(d) \ {x} /\ PodIds(e) = PodIds(c) \ s
    BY <2>2, <2>3, <2>6 DEF Gave, Deleted
  <2>9. ASSUME NEW k \in PodIds(e) PROVE e.pods[k] = c.pods[k]
    <3>1. k \in PodIds(d) /\ k # x /\ k \in DOMAIN d.pods
      BY <2>8 DEF PodIds
    <3> QED BY <2>3, <2>6, <3>1 DEF Gave, Deleted
  <2>10. Len(e.machines) = Len(c.machines)
    <3>1. Len(e.machines) = Len(d.machines)
      BY <2>4, <2>6, <2>7, SameLength DEF Gave
    <3> QED BY <2>3, <3>1 DEF Deleted
  <2>11. Deleted(c, e, s)
    BY <2>3, <2>6, <2>7, <2>8, <2>9, <2>10 DEF Gave, Deleted
  <2>12. Step("delete", 0, 0, d, x) = e
    BY <2>5 DEF Step, Removed
  <2> QED BY <2>1, <2>7, <2>11, <2>12
<1>4. <<S, Folded("delete", 0, 0, c, S)>> \in G
  <2> HIDE DEF G
  <2> QED BY <1>1, <1>2, <1>3, FoldKeeps
<1> QED BY <1>4

LEMMA DeletedCounts ==
  ASSUME NEW c, c \in ClusterType, NEW S \in SUBSET PodIds(c), NEW d, Deleted(c, d, S)
  PROVE  /\ \A v : PodsOf(d, v) = PodsOf(c, v) \ S
         /\ \A v : ReadyCount(d, v) <= ReadyCount(c, v)
         /\ \A v : S \cap PodsOf(c, v) = {} => ReadyCount(d, v) = ReadyCount(c, v)
<1>1. \A v : PodsOf(d, v) = PodsOf(c, v) \ S
  BY DEF Deleted, PodsOf
<1>2. InState(d, "ready") = InState(c, "ready") \ S
  BY DEF Deleted, InState
<1>3. ASSUME NEW v PROVE ReadyCount(d, v) <= ReadyCount(c, v)
  <2>1. PICK R : R = PodsOf(c, v) \cap InState(c, "ready")
    OBVIOUS
  <2>2. IsFiniteSet(R)
    <3>1. IsFiniteSet(PodsOf(c, v))
      BY PodSets DEF Numbers
    <3> QED BY <2>1, <3>1, FS_Subset
  <2>3. PodsOf(d, v) \cap InState(d, "ready") \in SUBSET R
    BY <1>1, <1>2, <2>1
  <2> QED BY <2>1, <2>2, <2>3, FS_Subset DEF ReadyCount
<1>4. ASSUME NEW v, S \cap PodsOf(c, v) = {} PROVE ReadyCount(d, v) = ReadyCount(c, v)
  <2>1. PodsOf(d, v) \cap InState(d, "ready") = PodsOf(c, v) \cap InState(c, "ready")
    BY <1>1, <1>2, <1>4
  <2> QED BY <2>1 DEF ReadyCount
<1> QED BY <1>1, <1>3, <1>4

-----------------------------------------------------------------------------
(* Pods and machines change their states, and no pod its machine.            *)

Stayed(c, d) ==
  /\ d \in ClusterType /\ PodIds(d) = PodIds(c) /\ Places(d) = Places(c)
  /\ \A k \in PodIds(c) : /\ d.pods[k].workload = c.pods[k].workload
                          /\ d.pods[k].machine = c.pods[k].machine
  /\ \A m \in Places(c) : d.machines[m].used = c.machines[m].used

LEMMA StayedRoom ==
  ASSUME NEW c, c \in ClusterType, RoomOk(c), NEW d, Stayed(c, d),
         \A k \in PodIds(c) : PodOk(d, k),
         \A m \in Places(c) : d.machines[m].provisioning => ~d.machines[m].up
  PROVE  /\ RoomOk(d) /\ Len(d.machines) = Len(c.machines)
         /\ \A w : PodsOf(d, w) = PodsOf(c, w)
         /\ \A id \in PodIds(c) : SizeOf(d, id) = SizeOf(c, id)
<1>1. /\ d \in ClusterType /\ PodIds(d) = PodIds(c) /\ Places(d) = Places(c)
      /\ \A k \in PodIds(c) : /\ d.pods[k].workload = c.pods[k].workload
                              /\ d.pods[k].machine = c.pods[k].machine
      /\ \A m \in Places(c) : d.machines[m].used = c.machines[m].used
  BY DEF Stayed
<1>2. ASSUME NEW m \in Places(c) PROVE MachineOk(d, m)
  <2>1. Bound(d, m) = Bound(c, m)
    BY <1>1 DEF Bound
  <2>2. \A k \in Bound(c, m) : d.pods[k].workload = c.pods[k].workload
    BY <1>1 DEF Bound
  <2>3. \A r \in Resources : Load(d, m, r) = Load(c, m, r)
    BY <1>1, <2>1, <2>2, LoadSame
  <2> QED BY <1>1, <2>3 DEF RoomOk, MachineOk
<1>3. \A w : PodsOf(d, w) = PodsOf(c, w)
  BY <1>1 DEF PodsOf
<1>4. \A id \in PodIds(c) : SizeOf(d, id) = SizeOf(c, id)
  BY <1>1 DEF SizeOf
<1> QED BY <1>1, <1>2, <1>3, <1>4, SameLength DEF RoomOk

\* A machine that was booting comes up.
Joined(c, m) == [c EXCEPT !.machines[m].provisioning = FALSE, !.machines[m].up = TRUE]

LEMMA JoinedFine ==
  ASSUME NEW c, NEW t \in Int, NEW a, Fine(c, t, a), c.accruedAt = t, c.area = a,
         NEW m \in Places(c), c.machines[m].provisioning
  PROVE  /\ Fine(Joined(c, m), t, a)
         /\ \A w : ReadyCount(Joined(c, m), w) = ReadyCount(c, w)
<1>1. c \in ClusterType /\ RoomOk(c) /\ CountsOk(c)
  BY DEF Fine, Good
<1>2. m \in 1 .. Len(c.machines) /\ c.machines[m] \in MachineType /\ m \in DOMAIN c.machines
  BY <1>1, MachinesTyped DEF Places
<1>3. PICK q : q = [c.machines[m] EXCEPT !.provisioning = FALSE, !.up = TRUE]
  OBVIOUS
<1>4. q \in MachineType /\ q.up = TRUE /\ q.provisioning = FALSE /\ q.used = c.machines[m].used
  BY <1>2, <1>3 DEF MachineType
<1>5. PICK d : d = Joined(c, m)
  OBVIOUS
<1>6. d = [c EXCEPT !.machines = [c.machines EXCEPT ![m] = q]]
  <2>1. PICK o : o = [c.machines[m] EXCEPT !.provisioning = FALSE]
    OBVIOUS
  <2>2. q = [o EXCEPT !.up = TRUE]
    BY <1>2, <1>3, <2>1 DEF MachineType
  <2>3. d = [[c EXCEPT !.machines = [c.machines EXCEPT ![m] = o]]
               EXCEPT !.machines = [[c.machines EXCEPT ![m] = o] EXCEPT ![m] = q]]
    BY <1>1, <1>2, <1>5, <2>1, <2>2 DEF Joined, ClusterType
  <2>4. [[c.machines EXCEPT ![m] = o] EXCEPT ![m] = q] = [c.machines EXCEPT ![m] = q]
    OBVIOUS
  <2> QED BY <1>1, <2>3, <2>4 DEF ClusterType
<1>7. [c.machines EXCEPT ![m] = q] \in Seq(MachineType)
  <2>1. c.machines \in Seq(MachineType)
    BY <1>1 DEF ClusterType
  <2> QED BY <1>2, <1>4, <2>1, ExceptSeq
<1>8. /\ d \in ClusterType /\ d.pods = c.pods /\ d.machines = [c.machines EXCEPT ![m] = q]
      /\ d.desired = c.desired /\ d.area = a /\ d.accruedAt = t
  BY <1>1, <1>6, <1>7 DEF ClusterType
<1>9. PodIds(d) = PodIds(c) /\ Places(d) = Places(c)
  BY <1>8 DEF PodIds, Places
<1>10. Stayed(c, d)
  <2>1. \A n \in Places(c) : d.machines[n].used = c.machines[n].used
    BY <1>4, <1>8 DEF Places
  <2> QED BY <1>8, <1>9, <2>1 DEF Stayed
<1>11. ASSUME NEW k \in PodIds(c) PROVE PodOk(d, k)
  <2>1. PodOk(c, k)
    BY <1>1 DEF RoomOk
  <2>2. \A n \in Places(c) : n # m => d.machines[n] = c.machines[n]
    BY <1>8 DEF Places
  <2> QED BY <1>8, <1>9, <2>1, <2>2 DEF PodOk
<1>12. ASSUME NEW n \in Places(c) PROVE d.machines[n].provisioning => ~d.machines[n].up
  <2>1. c.machines[n].provisioning => ~c.machines[n].up
    BY <1>1 DEF RoomOk, MachineOk
  <2> QED BY <1>4, <1>8, <2>1 DEF Places
<1>13. RoomOk(d) /\ Len(d.machines) = Len(c.machines) /\ \A w : PodsOf(d, w) = PodsOf(c, w)
  BY <1>1, <1>10, <1>11, <1>12, StayedRoom
<1>14. InState(d, "ready") = InState(c, "ready")
  BY <1>8, <1>9 DEF InState
<1>15. Good(d) /\ CountsOk(d)
  BY <1>1, <1>8, <1>13 DEF Good, CountsOk, Fine
<1>16. Dated(d, t, a)
  BY <1>8, SettledDated
<1> QED BY <1>5, <1>13, <1>14, <1>15, <1>16 DEF Fine, ReadyCount

\* A pod that was starting is ready.
Readied(c, id) == [c EXCEPT !.pods[id].state = "ready", !.pods[id].lossAt = Never]

LEMMA ReadiedFine ==
  ASSUME NEW c, NEW t \in Int, NEW a, Fine(c, t, a), c.accruedAt = t, c.area = a, Served(c),
         NEW id \in InState(c, "starting")
  PROVE  /\ Fine(Readied(c, id), t, a) /\ Served(Readied(c, id))
         /\ \A w : w # c.pods[id].workload => ReadyCount(Readied(c, id), w) = ReadyCount(c, w)
<1>1. c \in ClusterType /\ RoomOk(c) /\ CountsOk(c) /\ Good(c)
  BY DEF Fine, Good
<1>2. /\ id \in PodIds(c) /\ id \in DOMAIN c.pods /\ id \in 1 .. Len(c.pods)
      /\ c.pods[id] \in PodType /\ c.pods[id].state = "starting"
  BY <1>1, PodsTyped DEF InState
<1>3. PICK p : p = [c.pods[id] EXCEPT !.state = "ready", !.lossAt = Never]
  OBVIOUS
<1>4. /\ p \in PodType /\ p.state = "ready" /\ p.workload = c.pods[id].workload
      /\ p.machine = c.pods[id].machine
  <2>1. PICK o : o = [c.pods[id] EXCEPT !.state = "ready"]
    OBVIOUS
  <2>2. /\ o \in PodType /\ o.state = "ready" /\ o.workload = c.pods[id].workload
        /\ o.machine = c.pods[id].machine
    BY <1>2, <2>1 DEF PodType
  <2>3. Never \in Int
    BY DEF Never
  <2>4. p = [o EXCEPT !.lossAt = Never]
    BY <1>2, <1>3, <2>1 DEF PodType
  <2> QED BY <2>2, <2>3, <2>4 DEF PodType
<1>5. PICK d : d = Readied(c, id)
  OBVIOUS
<1>6. d = [c EXCEPT !.pods = [c.pods EXCEPT ![id] = p]]
  <2>1. PICK o : o = [c.pods[id] EXCEPT !.state = "ready"]
    OBVIOUS
  <2>2. p = [o EXCEPT !.lossAt = Never]
    BY <1>2, <1>3, <2>1 DEF PodType
  <2>3. d = [[c EXCEPT !.pods = [c.pods EXCEPT ![id] = o]]
               EXCEPT !.pods = [[c.pods EXCEPT ![id] = o] EXCEPT ![id] = p]]
    BY <1>1, <1>2, <1>5, <2>1, <2>2 DEF Readied, ClusterType
  <2>4. [[c.pods EXCEPT ![id] = o] EXCEPT ![id] = p] = [c.pods EXCEPT ![id] = p]
    OBVIOUS
  <2> QED BY <1>1, <2>3, <2>4 DEF ClusterType
<1>7. [c.pods EXCEPT ![id] = p] \in Seq(PodType \cup {Gone})
  <2>1. c.pods \in Seq(PodType \cup {Gone}) /\ p \in PodType \cup {Gone}
    BY <1>1, <1>4 DEF ClusterType
  <2> QED BY <1>2, <2>1, ExceptSeq
<1>8. /\ d \in ClusterType /\ d.machines = c.machines /\ d.pods = [c.pods EXCEPT ![id] = p]
      /\ d.desired = c.desired /\ d.area = a /\ d.accruedAt = t
  BY <1>1, <1>6, <1>7 DEF ClusterType
<1>9. PodIds(d) = PodIds(c) /\ Places(d) = Places(c)
  BY <1>2, <1>4, <1>8 DEF PodIds, Places
<1>10. \A k \in PodIds(c) : d.pods[k] = IF k = id THEN p ELSE c.pods[k]
  BY <1>8 DEF PodIds
<1>11. Stayed(c, d)
  BY <1>4, <1>8, <1>9, <1>10 DEF Stayed
<1>12. ASSUME NEW k \in PodIds(c) PROVE PodOk(d, k)
  <2>1. PodOk(c, k)
    BY <1>1 DEF RoomOk
  <2>2. CASE k = id
    BY <1>2, <1>4, <1>8, <1>9, <1>10, <2>1, <2>2 DEF PodOk
  <2>3. CASE k # id
    BY <1>8, <1>9, <1>10, <2>1, <2>3 DEF PodOk
  <2> QED BY <2>2, <2>3
<1>13. \A n \in Places(c) : d.machines[n].provisioning => ~d.machines[n].up
  BY <1>1, <1>8 DEF RoomOk, MachineOk
<1>14. /\ RoomOk(d) /\ Len(d.machines) = Len(c.machines) /\ \A w : PodsOf(d, w) = PodsOf(c, w)
       /\ \A k \in PodIds(c) : SizeOf(d, k) = SizeOf(c, k)
  BY <1>1, <1>11, <1>12, <1>13, StayedRoom
<1>15. Good(d) /\ CountsOk(d)
  BY <1>1, <1>8, <1>14 DEF Good, CountsOk
<1>16. Dated(d, t, a)
  BY <1>8, SettledDated
<1>17. InState(d, "pending") = InState(c, "pending")
  BY <1>2, <1>4, <1>9, <1>10 DEF InState
<1>18. \A k \in InState(c, "pending") : SizeOf(d, k) = SizeOf(c, k) /\ Fitting(d, k) = Fitting(c, k)
  BY <1>8, <1>9, <1>14 DEF InState, Fitting
<1>19. MachinesNeededForPending(d) = MachinesNeededForPending(c)
  <2>1. Booting(d) = Booting(c) /\ Booting(c) \in Nat
    BY <1>1, <1>8, <1>9, BootingTyped DEF Booting
  <2>2. Len(c.machines) \in Nat /\ Len(d.machines) = Len(c.machines)
    BY <1>1, <1>14, MachinesTyped
  <2>3. Booting(d) = Booting(c) + 0 /\ Len(d.machines) = Len(c.machines) + 0
    BY <2>1, <2>2
  <2> QED BY <1>1, <1>8, <1>17, <1>18, <2>3, NeededServed DEF Good
<1>20. Served(d)
  BY <1>17, <1>18, <1>19 DEF Served
<1>21. ASSUME NEW w, w # c.pods[id].workload PROVE ReadyCount(d, w) = ReadyCount(c, w)
  <2>1. id \notin PodsOf(c, w)
    BY <1>21 DEF PodsOf
  <2>2. PodsOf(d, w) \cap InState(d, "ready") = PodsOf(c, w) \cap InState(c, "ready")
    BY <1>9, <1>10, <1>14, <2>1 DEF InState
  <2> QED BY <2>2 DEF ReadyCount
<1> QED BY <1>5, <1>15, <1>16, <1>20, <1>21 DEF Fine

-----------------------------------------------------------------------------
(* Machines fail and come back.                                              *)

UpOnes(c) == {m \in Places(c) : c.machines[m].up}

\* The machines ms are down, and the pods of L lost.
Struck(c, d, ms, L) ==
  /\ d \in ClusterType /\ PodIds(d) = PodIds(c) /\ Places(d) = Places(c)
  /\ \A k \in PodIds(c) : /\ k \notin L => d.pods[k] = c.pods[k]
                          /\ k \in L => d.pods[k].state = "lost"
                          /\ d.pods[k].workload = c.pods[k].workload
                          /\ d.pods[k].machine = c.pods[k].machine
  /\ \A m \in Places(c) : /\ d.machines[m].used = c.machines[m].used
                          /\ d.machines[m].provisioning = c.machines[m].provisioning
                          /\ d.machines[m].up <=> c.machines[m].up /\ m \notin ms
  /\ d.desired = c.desired /\ d.area = c.area /\ d.accruedAt = c.accruedAt

LEMMA LoseFields ==
  ASSUME NEW c, c \in ClusterType, NEW ms \in SUBSET UpOnes(c), NEW t \in Int
  PROVE  Struck(c, Lose(c, ms, t), ms, LostWith(c, ms))
<1>0. PICK d : d = Lose(c, ms, t)
  OBVIOUS
<1>1. PICK L : L = LostWith(c, ms)
  OBVIOUS
<1>2. L \in SUBSET PodIds(c)
  BY <1>1 DEF LostWith, InState
<1> DEFINE Lost(k, pod) == IF k \in L
             THEN [pod EXCEPT !.state = "lost", !.readyAt = Never, !.lossAt = t] ELSE pod
           Failed(m, machine) == IF m \in ms THEN [machine EXCEPT !.up = FALSE] ELSE machine
<1>3. PICK y : y = [k \in DOMAIN c.pods |-> Lost(k, c.pods[k])]
  OBVIOUS
<1>4. PICK z : z = [m \in Places(c) |-> Failed(m, c.machines[m])]
  OBVIOUS
<1>5. d = [c EXCEPT !.pods = y, !.machines = z]
  BY <1>0, <1>1, <1>3, <1>4 DEF Lose
<1>6. ASSUME NEW k \in DOMAIN c.pods
      PROVE  /\ Lost(k, c.pods[k]) \in PodType \cup {Gone}
             /\ k \in PodIds(c) <=> Lost(k, c.pods[k]).state # "gone"
             /\ k \in L => Lost(k, c.pods[k]).state = "lost"
             /\ k \in PodIds(c) => /\ Lost(k, c.pods[k]).workload = c.pods[k].workload
                                   /\ Lost(k, c.pods[k]).machine = c.pods[k].machine
             /\ k \notin L => Lost(k, c.pods[k]) = c.pods[k]
  <2>1. CASE k \in L
    <3>1. k \in PodIds(c) /\ c.pods[k] \in PodType
      BY <1>2, <2>1, PodsTyped
    <3>2. PICK p : p = [c.pods[k] EXCEPT !.state = "lost", !.readyAt = Never, !.lossAt = t]
      OBVIOUS
    <3>3. Never \in Int
      BY DEF Never
    <3>4. /\ p \in PodType /\ p.state = "lost" /\ p.workload = c.pods[k].workload
          /\ p.machine = c.pods[k].machine
      BY <3>1, <3>2, <3>3 DEF PodType
    <3> QED BY <2>1, <3>1, <3>2, <3>4
  <2>2. CASE k \notin L
    BY <2>2, PodsTyped DEF PodIds
  <2> QED BY <2>1, <2>2
<1>7. ASSUME NEW m \in Places(c)
      PROVE  /\ Failed(m, c.machines[m]) \in MachineType
             /\ Failed(m, c.machines[m]).used = c.machines[m].used
             /\ Failed(m, c.machines[m]).provisioning = c.machines[m].provisioning
             /\ Failed(m, c.machines[m]).up <=> c.machines[m].up /\ m \notin ms
  <2>1. c.machines[m] \in MachineType
    BY MachinesTyped
  <2> QED BY <2>1 DEF MachineType
<1> HIDE DEF Lost, Failed
<1>8. /\ y \in Seq(PodType \cup {Gone}) /\ DOMAIN y = DOMAIN c.pods
      /\ \A k \in DOMAIN c.pods : y[k] = Lost(k, c.pods[k])
  <2>1. Len(c.pods) \in Nat /\ DOMAIN c.pods = 1 .. Len(c.pods)
    BY PodsTyped
  <2>2. y \in [1 .. Len(c.pods) -> PodType \cup {Gone}]
    BY <1>3, <1>6, <2>1
  <2>3. y \in Seq(PodType \cup {Gone})
    BY <2>1, <2>2
  <2> QED BY <1>3, <2>3
<1>9. /\ z \in Seq(MachineType) /\ DOMAIN z = Places(c)
      /\ \A m \in Places(c) : z[m] = Failed(m, c.machines[m])
  <2>1. Len(c.machines) \in Nat /\ Places(c) = 1 .. Len(c.machines)
    BY MachinesTyped
  <2>2. z \in [1 .. Len(c.machines) -> MachineType]
    BY <1>4, <1>7, <2>1
  <2>3. z \in Seq(MachineType)
    BY <2>1, <2>2
  <2> QED BY <1>4, <2>3
<1>10. /\ d \in ClusterType /\ d.pods = y /\ d.machines = z
       /\ d.desired = c.desired /\ d.area = c.area /\ d.accruedAt = c.accruedAt
  BY <1>5, <1>8, <1>9 DEF ClusterType
<1>11. PodIds(d) = PodIds(c)
  BY <1>6, <1>8, <1>10 DEF PodIds
<1>12. Places(d) = Places(c)
  BY <1>9, <1>10 DEF Places
<1>13. \A k \in PodIds(c) : k \in DOMAIN c.pods
  BY DEF PodIds
<1> QED BY <1>0, <1>1, <1>6, <1>7, <1>8, <1>9, <1>10, <1>11, <1>12, <1>13 DEF Struck

LEMMA LoseFine ==
  ASSUME NEW c, NEW t \in Int, NEW a, Fine(c, t, a), c.accruedAt = t, c.area = a, Served(c),
         NEW ms \in SUBSET UpOnes(c)
  PROVE  /\ Fine(Lose(c, ms, t), t, a) /\ Served(Lose(c, ms, t))
         /\ \A w : w \notin {c.pods[id].workload : id \in LostWith(c, ms)}
                     => ReadyCount(Lose(c, ms, t), w) = ReadyCount(c, w)
<1>1. c \in ClusterType /\ RoomOk(c) /\ CountsOk(c) /\ Good(c)
  BY DEF Fine, Good
<1>2. PICK d : d = Lose(c, ms, t)
  OBVIOUS
<1>3. PICK L : L = LostWith(c, ms)
  OBVIOUS
<1>4. /\ d \in ClusterType /\ PodIds(d) = PodIds(c) /\ Places(d) = Places(c)
      /\ \A k \in PodIds(c) : /\ k \notin L => d.pods[k] = c.pods[k]
                              /\ k \in L => d.pods[k].state = "lost"
                              /\ d.pods[k].workload = c.pods[k].workload
                              /\ d.pods[k].machine = c.pods[k].machine
      /\ \A m \in Places(c) : /\ d.machines[m].used = c.machines[m].used
                              /\ d.machines[m].provisioning = c.machines[m].provisioning
                              /\ d.machines[m].up <=> c.machines[m].up /\ m \notin ms
      /\ d.desired = c.desired /\ d.area = c.area /\ d.accruedAt = c.accruedAt
  <2>1. Struck(c, d, ms, L)
    BY <1>1, <1>2, <1>3, LoseFields
  <2> QED BY <2>1 DEF Struck
<1>5. Stayed(c, d)
  BY <1>4 DEF Stayed
<1>6. \A k \in PodIds(c) :
        k \in L <=> c.pods[k].state \in {"ready", "starting"} /\ c.pods[k].machine \in ms
  BY <1>3 DEF LostWith, InState
<1>7. ASSUME NEW k \in PodIds(c) PROVE PodOk(d, k)
  <2>1. PodOk(c, k) /\ c.pods[k].state \in {"pending", "starting", "ready", "lost"}
    BY <1>1, PodsTyped DEF RoomOk, PodType
  <2>2. CASE k \in L
    <3>1. c.pods[k].machine \in Places(c) /\ ~c.machines[c.pods[k].machine].provisioning
          /\ c.pods[k].machine \in ms
      BY <1>6, <2>1, <2>2 DEF PodOk
    <3> QED BY <1>4, <2>2, <3>1 DEF PodOk
  <2>3. CASE k \notin L
    <3>1. d.pods[k] = c.pods[k]
      BY <1>4, <2>3
    <3>2. CASE c.pods[k].state = "pending"
      BY <2>1, <3>1, <3>2 DEF PodOk
    <3>3. CASE c.pods[k].state # "pending"
      <4>1. PICK m : m = c.pods[k].machine
        OBVIOUS
      <4>2. /\ m \in Places(c) /\ ~c.machines[m].provisioning
            /\ c.machines[m].up <=> c.pods[k].state # "lost"
        BY <2>1, <3>3, <4>1 DEF PodOk
      <4>3. m \in ms => c.machines[m].up
        BY DEF UpOnes
      <4>4. m \notin ms
        BY <1>6, <2>1, <2>3, <3>3, <4>1, <4>2, <4>3
      <4> QED BY <1>4, <3>1, <3>3, <4>1, <4>2, <4>4 DEF PodOk
    <3> QED BY <3>2, <3>3
  <2> QED BY <2>2, <2>3
<1>8. \A n \in Places(c) : d.machines[n].provisioning => ~d.machines[n].up
  BY <1>1, <1>4 DEF RoomOk, MachineOk
<1>9. /\ RoomOk(d) /\ Len(d.machines) = Len(c.machines) /\ \A w : PodsOf(d, w) = PodsOf(c, w)
      /\ \A k \in PodIds(c) : SizeOf(d, k) = SizeOf(c, k)
  BY <1>1, <1>5, <1>7, <1>8, StayedRoom
<1>10. Good(d) /\ CountsOk(d)
  BY <1>1, <1>4, <1>9 DEF Good, CountsOk
<1>11. Dated(d, t, a)
  BY <1>4, SettledDated
<1>12. InState(d, "pending") = InState(c, "pending")
  BY <1>4, <1>6 DEF InState
<1>13. ASSUME NEW k \in InState(c, "pending")
       PROVE  SizeOf(d, k) = SizeOf(c, k) /\ Fitting(d, k) = {}
  <2>1. k \in PodIds(c) /\ Fitting(c, k) = {}
    BY DEF InState, Served
  <2>2. SizeOf(d, k) = SizeOf(c, k)
    BY <1>9, <2>1
  <2>3. \A m \in Places(c) : Fits(d.machines[m], SizeOf(c, k)) => Fits(c.machines[m], SizeOf(c, k))
    BY <1>4 DEF Fits
  <2> QED BY <1>4, <2>1, <2>2, <2>3 DEF Fitting
<1>14. MachinesNeededForPending(d) = 0
  <2>1. Booting(d) = Booting(c) /\ Booting(c) \in Nat
    <3>1. {m \in Places(d) : d.machines[m].provisioning} = {m \in Places(c) : c.machines[m].provisioning}
      BY <1>4
    <3> QED BY <1>1, <3>1, BootingTyped DEF Booting
  <2>2. Len(c.machines) \in Nat /\ Len(d.machines) = Len(c.machines)
    BY <1>1, <1>9, MachinesTyped
  <2>3. Booting(d) = Booting(c) + 0 /\ Len(d.machines) = Len(c.machines) + 0
    BY <2>1, <2>2
  <2>4. \A k \in InState(c, "pending") : SizeOf(d, k) = SizeOf(c, k)
    BY <1>13
  <2>5. MachinesNeededForPending(d) = MachinesNeededForPending(c)
    BY <1>1, <1>4, <1>12, <2>3, <2>4, NeededServed DEF Good
  <2> QED BY <2>5 DEF Served
<1>15. Served(d)
  BY <1>12, <1>13, <1>14 DEF Served
<1>16. ASSUME NEW w, w \notin {c.pods[id].workload : id \in L}
       PROVE  ReadyCount(d, w) = ReadyCount(c, w)
  <2>1. \A k \in PodsOf(c, w) : k \in PodIds(c) /\ k \notin L
    BY <1>16 DEF PodsOf
  <2>2. PodsOf(d, w) \cap InState(d, "ready") = PodsOf(c, w) \cap InState(c, "ready")
    BY <1>4, <1>9, <2>1 DEF InState
  <2> QED BY <2>2 DEF ReadyCount
<1> QED BY <1>2, <1>3, <1>10, <1>11, <1>15, <1>16 DEF Fine

\* The pods of s restart in place.
Restarted(c, d, s) ==
  /\ d \in ClusterType /\ PodIds(d) = PodIds(c) /\ d.machines = c.machines
  /\ \A k \in PodIds(c) : /\ k \notin s => d.pods[k] = c.pods[k]
                          /\ k \in s => d.pods[k].state = "starting"
                          /\ d.pods[k].workload = c.pods[k].workload
                          /\ d.pods[k].machine = c.pods[k].machine
  /\ d.desired = c.desired /\ d.area = c.area /\ d.accruedAt = c.accruedAt

LEMMA FoldRestarts ==
  ASSUME NEW c, c \in ClusterType, NEW S \in SUBSET PodIds(c), NEW t \in Int
  PROVE  Restarted(c, Folded("restart", t, 0, c, S), S)
<1>1. Numbers(S)
  BY PodsTyped, FS_Subset DEF Numbers
<1> DEFINE G == {p \in (SUBSET S) \X ClusterType : Restarted(c, p[2], p[1])}
<1>2. <<{}, c>> \in G
  BY DEF Restarted
<1>3. ASSUME NEW s \in SUBSET S, NEW d, s # {}, <<s \ {Max(s)}, d>> \in G
      PROVE  <<s, Step("restart", t, 0, d, Max(s))>> \in G
  <2>1. PICK x : x = Max(s)
    OBVIOUS
  <2>2. x \in s /\ x \in PodIds(c)
    <3>1. Numbers(s)
      BY <1>1, FS_Subset DEF Numbers
    <3>2. s # {}
      BY <1>3
    <3>3. x \in s
      <4> HIDE DEF G
      <4> QED BY <2>1, <3>1, <3>2, LessOne
    <3> QED BY <3>3
  <2>3. Restarted(c, d, s \ {x})
    BY <1>3, <2>1
  <2>4. /\ d \in ClusterType /\ PodIds(d) = PodIds(c)
        /\ \A k \in PodIds(c) : /\ k \notin s \ {x} => d.pods[k] = c.pods[k]
                                /\ k \in s \ {x} => d.pods[k].state = "starting"
                                /\ d.pods[k].workload = c.pods[k].workload
                                /\ d.pods[k].machine = c.pods[k].machine
    BY <2>3 DEF Restarted
  <2>5. d.pods[x] \in PodType /\ x \in DOMAIN d.pods /\ x \in 1 .. Len(d.pods)
    BY <2>2, <2>4, PodsTyped
  <2>6. PICK p : p = [d.pods[x] EXCEPT !.state = "starting", !.readyAt = t + PodStartup]
    OBVIOUS
  <2>7. /\ p \in PodType /\ p.state = "starting" /\ p.workload = d.pods[x].workload
        /\ p.machine = d.pods[x].machine
    <3>1. t + PodStartup \in Int
      BY ClusterAssumption
    <3> QED BY <2>5, <2>6, <3>1 DEF PodType
  <2>8. PICK e : e = Step("restart", t, 0, d, x)
    OBVIOUS
  <2>9. e = [d EXCEPT !.pods = [d.pods EXCEPT ![x] = p]]
    <3>1. PICK o : o = [d.pods[x] EXCEPT !.state = "starting"]
      OBVIOUS
    <3>2. p = [o EXCEPT !.readyAt = t + PodStartup]
      BY <2>5, <2>6, <3>1 DEF PodType
    <3>3. e = [d EXCEPT !.pods[x].state = "starting", !.pods[x].readyAt = t + PodStartup]
      BY <2>8 DEF Step
    <3>4. e = [[d EXCEPT !.pods = [d.pods EXCEPT ![x] = o]]
                 EXCEPT !.pods = [[d.pods EXCEPT ![x] = o] EXCEPT ![x] = p]]
      BY <2>4, <2>5, <3>1, <3>2, <3>3 DEF ClusterType
    <3>5. [[d.pods EXCEPT ![x] = o] EXCEPT ![x] = p] = [d.pods EXCEPT ![x] = p]
      OBVIOUS
    <3> QED BY <2>4, <3>4, <3>5 DEF ClusterType
  <2>10. [d.pods EXCEPT ![x] = p] \in Seq(PodType \cup {Gone})
    <3>1. d.pods \in Seq(PodType \cup {Gone}) /\ p \in PodType \cup {Gone}
      BY <2>4, <2>7 DEF ClusterType
    <3> QED BY <2>5, <3>1, ExceptSeq
  <2>11. /\ e \in ClusterType /\ e.pods = [d.pods EXCEPT ![x] = p] /\ e.machines = d.machines
         /\ e.desired = d.desired /\ e.area = d.area /\ e.accruedAt = d.accruedAt
    BY <2>4, <2>9, <2>10 DEF ClusterType
  <2>12. PodIds(e) = PodIds(c)
    <3>1. PodIds(e) = PodIds(d)
      BY <2>5, <2>7, <2>11 DEF PodIds, PodType
    <3> QED BY <2>4, <3>1
  <2>13. \A k \in PodIds(c) : e.pods[k] = IF k = x THEN p ELSE d.pods[k]
    BY <2>4, <2>11 DEF PodIds
  <2>14. \A k \in PodIds(c) : /\ k \notin s => e.pods[k] = c.pods[k]
                              /\ k \in s => e.pods[k].state = "starting"
                              /\ e.pods[k].workload = c.pods[k].workload
                              /\ e.pods[k].machine = c.pods[k].machine
    BY <2>2, <2>4, <2>7, <2>13
  <2>15. Restarted(c, e, s)
    BY <2>3, <2>11, <2>12, <2>14 DEF Restarted
  <2> QED BY <2>1, <2>8, <2>11, <2>15
<1>4. <<S, Folded("restart", t, 0, c, S)>> \in G
  <2> HIDE DEF G
  <2> QED BY <1>1, <1>2, <1>3, FoldKeeps
<1> QED BY <1>4

\* A machine that is down comes back, and what was lost with it restarts.
LEMMA RecoverFine ==
  ASSUME NEW c, NEW t \in Int, NEW a, Fine(c, t, a), NEW m
  PROVE  /\ Fine(RecoverMachine(c, m, t), t, a)
         /\ \A w : ReadyCount(RecoverMachine(c, m, t), w) = ReadyCount(c, w)
<1>1. c \in ClusterType /\ RoomOk(c) /\ CountsOk(c) /\ Good(c) /\ Dated(c, t, a)
  BY DEF Fine, Good
<1>2. CASE ~Down(c, m)
  BY <1>2 DEF RecoverMachine
<1>3. CASE Down(c, m)
  <2>1. m \in Places(c) /\ ~c.machines[m].up /\ ~c.machines[m].provisioning
    BY <1>3 DEF Down
  <2>2. PICK b : b = Accrue(c, t)
    OBVIOUS
  <2>3. b \in ClusterType /\ Alike(c, b) /\ b.desired = c.desired /\ b.accruedAt = t /\ b.area = a
    BY <1>1, <2>2, Accrued
  <2>4. b.machines[m] \in MachineType /\ m \in 1 .. Len(b.machines) /\ m \in DOMAIN b.machines
    BY <1>1, <2>1, <2>3, MachinesTyped DEF Alike
  <2>5. PICK q : q = [b.machines[m] EXCEPT !.up = TRUE]
    OBVIOUS
  <2>6. /\ q \in MachineType /\ q.up = TRUE /\ q.used = b.machines[m].used
        /\ q.provisioning = b.machines[m].provisioning
    BY <2>4, <2>5 DEF MachineType
  <2>7. PICK g : g = Return(c, m, t)
    OBVIOUS
  <2>8. g = [b EXCEPT !.machines = [b.machines EXCEPT ![m] = q]]
    BY <2>2, <2>3, <2>5, <2>7 DEF Return, Returning, ClusterType
  <2>9. [b.machines EXCEPT ![m] = q] \in Seq(MachineType)
    <3>1. b.machines \in Seq(MachineType)
      BY <2>3 DEF ClusterType
    <3> QED BY <2>4, <2>6, <3>1, ExceptSeq
  <2>10. /\ g \in ClusterType /\ g.pods = c.pods /\ g.machines = [c.machines EXCEPT ![m] = q]
         /\ g.desired = c.desired /\ g.area = a /\ g.accruedAt = t
    BY <2>3, <2>8, <2>9 DEF ClusterType, Alike
  <2>11. PodIds(g) = PodIds(c) /\ Places(g) = Places(c)
    BY <2>10 DEF PodIds, Places
  <2>12. PICK ids : ids = {id \in InState(c, "lost") : c.pods[id].machine = m}
    OBVIOUS
  <2>13. ids \in SUBSET PodIds(c)
    BY <2>12 DEF InState
  <2>14. PICK d : d = Folded("restart", t, 0, g, ids)
    OBVIOUS
  <2>15. Restarted(g, d, ids)
    BY <2>10, <2>11, <2>13, <2>14, FoldRestarts
  <2>16. /\ d \in ClusterType /\ PodIds(d) = PodIds(c) /\ d.machines = [c.machines EXCEPT ![m] = q]
         /\ \A k \in PodIds(c) : /\ k \notin ids => d.pods[k] = c.pods[k]
                                 /\ k \in ids => d.pods[k].state = "starting"
                                 /\ d.pods[k].workload = c.pods[k].workload
                                 /\ d.pods[k].machine = c.pods[k].machine
         /\ d.desired = c.desired /\ d.area = a /\ d.accruedAt = t
    BY <2>10, <2>11, <2>15 DEF Restarted
  <2>17. Places(d) = Places(c) /\ \A n \in Places(c) : d.machines[n] = IF n = m THEN q ELSE c.machines[n]
    BY <2>16 DEF Places
  <2>18. q.used = c.machines[m].used /\ ~q.provisioning
    BY <2>1, <2>3, <2>6 DEF Alike
  <2>19. Stayed(c, d)
    BY <2>16, <2>17, <2>18 DEF Stayed
  <2>20. \A k \in PodIds(c) : k \in ids <=> c.pods[k].state = "lost" /\ c.pods[k].machine = m
    BY <2>12 DEF InState
  <2>21. ASSUME NEW k \in PodIds(c) PROVE PodOk(d, k)
    <3>1. PodOk(c, k)
      BY <1>1 DEF RoomOk
    <3>2. CASE k \in ids
      <4>1. /\ d.pods[k].state = "starting" /\ d.pods[k].machine = m /\ d.machines[m] = q
            /\ m \in Places(d)
        BY <2>1, <2>16, <2>17, <2>20, <3>2
      <4> QED BY <2>6, <2>18, <4>1 DEF PodOk
    <3>3. CASE k \notin ids
      <4>1. d.pods[k] = c.pods[k]
        BY <2>16, <3>3
      <4>2. CASE c.pods[k].state = "pending"
        BY <3>1, <4>1, <4>2 DEF PodOk
      <4>3. CASE c.pods[k].state # "pending"
        <5>1. PICK n : n = c.pods[k].machine
          OBVIOUS
        <5>2. /\ n \in Places(c) /\ ~c.machines[n].provisioning
              /\ c.machines[n].up <=> c.pods[k].state # "lost"
          BY <3>1, <4>3, <5>1 DEF PodOk
        <5>3. n # m
          BY <2>1, <2>20, <3>3, <5>1, <5>2
        <5>4. n \in Places(d) /\ d.machines[n] = c.machines[n]
          BY <2>17, <5>2, <5>3
        <5> QED BY <4>1, <4>3, <5>1, <5>2, <5>4 DEF PodOk
      <4> QED BY <4>2, <4>3
    <3> QED BY <3>2, <3>3
  <2>22. \A n \in Places(c) : d.machines[n].provisioning => ~d.machines[n].up
    BY <1>1, <2>17, <2>18 DEF RoomOk, MachineOk
  <2>23. /\ RoomOk(d) /\ Len(d.machines) = Len(c.machines) /\ \A w : PodsOf(d, w) = PodsOf(c, w)
    BY <1>1, <2>19, <2>21, <2>22, StayedRoom
  <2>24. Good(d) /\ CountsOk(d)
    BY <1>1, <2>16, <2>23 DEF Good, CountsOk
  <2>25. Dated(d, t, a)
    BY <2>16, SettledDated
  <2>26. InState(d, "ready") = InState(c, "ready")
    BY <2>16, <2>20 DEF InState
  <2>27. \A w : ReadyCount(d, w) = ReadyCount(c, w)
    BY <2>23, <2>26 DEF ReadyCount
  <2>28. PICK e : e = RecoverMachine(c, m, t)
    OBVIOUS
  <2>29. e = ScheduleEach(d, ids, t + PodStartup, "pod-ready")
    <3>1. Folded("restart", t, 0, g, ids) =
            Each(LAMBDA f, id : [f EXCEPT !.pods[id].state = "starting",
                                          !.pods[id].readyAt = t + PodStartup], g, ids)
      BY DEF Each, MapThenFoldSet, Folded, Iterated, Iterates, Step
    <3> QED BY <1>3, <2>7, <2>12, <2>14, <2>28, <3>1 DEF RecoverMachine
  <2>30. Same(d, e)
    <3>1. t + PodStartup \in Int /\ "pod-ready" \in Actions
      BY ClusterAssumption DEF Actions
    <3>2. Numbers(ids)
      BY <1>1, <2>13, PodsTyped, FS_Subset DEF Numbers
    <3> QED BY <2>16, <2>29, <3>1, <3>2, ScheduleEachSame
  <2>31. Fine(d, t, a)
    BY <2>24, <2>25 DEF Fine
  <2>32. Fine(e, t, a) /\ \A w : ReadyCount(e, w) = ReadyCount(d, w)
    BY <2>30, <2>31, SameFine
  <2> QED BY <2>27, <2>28, <2>32
<1> QED BY <1>2, <1>3

LEMMA FoldRecovers ==
  ASSUME NEW c, NEW t \in Int, NEW a, Fine(c, t, a), NEW S, Numbers(S)
  PROVE  /\ Fine(Folded("recover", t, 0, c, S), t, a)
         /\ \A w : ReadyCount(Folded("recover", t, 0, c, S), w) = ReadyCount(c, w)
<1> DEFINE G == (SUBSET S) \X {d \in ClusterType :
                   Fine(d, t, a) /\ \A w : ReadyCount(d, w) = ReadyCount(c, w)}
<1>1. <<{}, c>> \in G
  BY DEF Fine, Good
<1>2. ASSUME NEW s \in SUBSET S, NEW d, s # {}, <<s \ {Max(s)}, d>> \in G
      PROVE  <<s, Step("recover", t, 0, d, Max(s))>> \in G
  <2>1. PICK x : x = Max(s)
    OBVIOUS
  <2>2. Fine(d, t, a) /\ \A w : ReadyCount(d, w) = ReadyCount(c, w)
    BY <1>2
  <2>3. PICK e : e = RecoverMachine(d, x, t)
    OBVIOUS
  <2>4. Fine(e, t, a) /\ \A w : ReadyCount(e, w) = ReadyCount(d, w)
    BY <2>2, <2>3, RecoverFine
  <2>5. Step("recover", t, 0, d, x) = e
    BY <2>3 DEF Step
  <2>6. e \in ClusterType
    BY <2>4 DEF Fine, Good
  <2> QED BY <2>1, <2>2, <2>4, <2>5, <2>6
<1>3. <<S, Folded("recover", t, 0, c, S)>> \in G
  <2> HIDE DEF G
  <2> QED BY <1>1, <1>2, FoldKeeps
<1>4. PICK r : r = Folded("recover", t, 0, c, S)
  OBVIOUS
<1>5. r \in {d \in ClusterType : Fine(d, t, a) /\ \A w : ReadyCount(d, w) = ReadyCount(c, w)}
  BY <1>3, <1>4
<1> QED BY <1>4, <1>5

\* The pods lost with a machine are replaced.
LEMMA ReplaceFine ==
  ASSUME NEW c, NEW t \in Int, NEW a, Fine(c, t, a), c.accruedAt = t, c.area = a,
         NEW S \in SUBSET InState(c, "lost")
  PROVE  /\ Fine(Folded("replace", t, 0, c, S), t, a)
         /\ \A w : ReadyCount(Folded("replace", t, 0, c, S), w) = ReadyCount(c, w)
<1>1. c \in ClusterType /\ RoomOk(c) /\ CountsOk(c) /\ Len(c.machines) <= MaxMachines
  BY DEF Fine, Good
<1>2. PICK d : d = Folded("replace", t, 0, c, S)
  OBVIOUS
<1>3. Replaced(c, d, S)
  BY <1>1, <1>2, FoldReplaces
<1>4. Good(d) /\ CountsOk(d)
  BY <1>1, <1>3 DEF Replaced, Good, CountsOk
<1>5. Dated(d, t, a)
  BY <1>3, SettledDated DEF Replaced
<1> QED BY <1>2, <1>3, <1>4, <1>5 DEF Fine, Replaced

\* Another number of replicas is wanted.
Wanting(c, w, n, t) == [Accrue(c, t) EXCEPT !.desired[w] = n]

LEMMA WantedFields ==
  ASSUME NEW c, NEW t \in Int, NEW a, Fine(c, t, a), NEW w \in Workloads, NEW n \in Nat
  PROVE  /\ Wanting(c, w, n, t) \in ClusterType /\ Alike(c, Wanting(c, w, n, t))
         /\ Good(Wanting(c, w, n, t))
         /\ Wanting(c, w, n, t).accruedAt = t /\ Wanting(c, w, n, t).area = a
         /\ Wanting(c, w, n, t).desired = [c.desired EXCEPT ![w] = n]
<1>1. c \in ClusterType /\ Good(c) /\ Dated(c, t, a)
  BY DEF Fine, Good
<1>2. PICK b : b = Accrue(c, t)
  OBVIOUS
<1>3. b \in ClusterType /\ Alike(c, b) /\ b.desired = c.desired /\ b.accruedAt = t /\ b.area = a
  BY <1>1, <1>2, Accrued
<1>4. PICK d : d = Wanting(c, w, n, t)
  OBVIOUS
<1>5. d = [b EXCEPT !.desired = [c.desired EXCEPT ![w] = n]]
  BY <1>2, <1>3, <1>4 DEF Wanting, ClusterType
<1>6. [c.desired EXCEPT ![w] = n] \in [Workloads -> Int]
  BY <1>1 DEF ClusterType
<1>7. /\ d \in ClusterType /\ Alike(c, d) /\ d.accruedAt = t /\ d.area = a
      /\ d.desired = [c.desired EXCEPT ![w] = n]
  BY <1>3, <1>5, <1>6 DEF ClusterType, Alike
<1>8. Good(d)
  BY <1>1, <1>7, AlikeFine
<1> QED BY <1>4, <1>7, <1>8

LEMMA DesiredFine ==
  ASSUME NEW c, NEW t \in Int, NEW a, Fine(c, t, a), NEW w \in Workloads, NEW n \in Nat,
         NEW d \in SetDesired(c, w, n, t)
  PROVE  /\ Fine(d, t, a) /\ ReadyCount(d, w) <= ReadyCount(c, w)
         /\ \A v : v # w => ReadyCount(d, v) = ReadyCount(c, v)
<1>1. c \in ClusterType /\ Good(c) /\ RoomOk(c) /\ CountsOk(c)
  BY DEF Fine, Good
<1>2. PICK b : b = Wanting(c, w, n, t)
  OBVIOUS
<1>3. /\ b \in ClusterType /\ Alike(c, b) /\ Good(b) /\ b.accruedAt = t /\ b.area = a
      /\ b.desired = [c.desired EXCEPT ![w] = n]
  BY <1>2, WantedFields
<1>4. /\ PodIds(b) = PodIds(c)
      /\ \A v : PodsOf(b, v) = PodsOf(c, v) /\ ReadyCount(b, v) = ReadyCount(c, v)
  BY <1>3, AlikeSets
<1>5. RoomOk(b) /\ Len(b.machines) <= MaxMachines
  BY <1>3 DEF Good
<1>6. \A v : ReadyCount(c, v) \in Nat /\ Cardinality(PodsOf(c, v)) \in Nat
  BY <1>1, PodSets
<1>7. \A v \in Workloads : b.desired[v] = IF v = w THEN n ELSE Cardinality(PodsOf(c, v))
  <2>1. \A v \in Workloads : c.desired[v] = Cardinality(PodsOf(c, v)) /\ v \in DOMAIN c.desired
    BY <1>1 DEF CountsOk, ClusterType
  <2> QED BY <1>3, <2>1
<1>8. PICK p : p = Cardinality(PodsOf(c, w))
  OBVIOUS
<1>9. p \in Nat
  BY <1>6, <1>8
<1>10. CASE p - n <= 0
  <2>1. PICK k : k = -(p - n)
    OBVIOUS
  <2>2. k \in Nat /\ p + k = n
    BY <1>9, <1>10, <2>1
  <2>3. d = CreatePods(b, w, k, t, Never)
    <3>1. SetDesired(c, w, n, t) = {CreatePods(b, w, -(p - n), t, Never)}
      BY <1>2, <1>8, <1>10 DEF SetDesired, Wanting
    <3> QED BY <2>1, <3>1
  <2>4. Created(b, d, w, k)
    <3>1. Never \in Int
      BY DEF Never
    <3> QED BY <1>3, <2>2, <2>3, <3>1, CreatedFields
  <2>5. /\ RoomOk(d)
        /\ \A v : Cardinality(PodsOf(d, v)) = Cardinality(PodsOf(b, v)) + IF v = w THEN k ELSE 0
        /\ \A v : ReadyCount(d, v) = ReadyCount(b, v)
    BY <1>3, <1>5, <2>2, <2>4, CreatedCounts
  <2>6. /\ d \in ClusterType /\ d.machines = b.machines /\ d.desired = b.desired
        /\ d.area = a /\ d.accruedAt = t
    BY <1>3, <2>4 DEF Created
  <2>7. ASSUME NEW v \in Workloads PROVE Cardinality(PodsOf(d, v)) = d.desired[v]
    <3>1. Cardinality(PodsOf(d, v)) = Cardinality(PodsOf(c, v)) + IF v = w THEN k ELSE 0
      BY <1>4, <2>5
    <3>2. d.desired[v] = IF v = w THEN n ELSE Cardinality(PodsOf(c, v))
      BY <1>7, <2>6
    <3>3. Cardinality(PodsOf(c, v)) \in Nat
      BY <1>6
    <3> QED BY <1>8, <1>9, <2>2, <3>1, <3>2, <3>3
  <2>8. Fine(d, t, a)
    BY <1>5, <2>5, <2>6, <2>7, SettledDated DEF Fine, Good, CountsOk
  <2>9. \A v : ReadyCount(d, v) = ReadyCount(c, v)
    BY <1>4, <2>5
  <2>10. ReadyCount(d, w) <= ReadyCount(c, w)
    BY <1>6, <2>9
  <2> QED BY <2>8, <2>9, <2>10
<1>11. CASE ~(p - n <= 0)
  <2>1. PICK ids : ids \in Victims(c, w, p - n) /\ d = Folded("delete", 0, 0, b, ids)
    <3>1. \A ids : Folded("delete", 0, 0, b, ids)
                     = Each(LAMBDA e, id : DeletePod(Unbind(e, id), id), b, ids)
      BY DEF Each, MapThenFoldSet, Folded, Iterated, Iterates, Step
    <3>2. d \in {Each(LAMBDA e, id : DeletePod(Unbind(e, id), id), b, ids) :
                   ids \in Victims(c, w, p - n)}
      BY <1>2, <1>8, <1>11 DEF SetDesired, Wanting
    <3>3. PICK ids \in Victims(c, w, p - n) :
             d = Each(LAMBDA e, id : DeletePod(Unbind(e, id), id), b, ids)
      BY <3>2
    <3> QED BY <3>1, <3>3
  <2>2. ids \in SUBSET PodsOf(c, w) /\ Cardinality(ids) = p - n
    BY <2>1 DEF Victims, kSubset
  <2>3. PodsOf(c, w) \in SUBSET PodIds(c) /\ IsFiniteSet(PodsOf(c, w))
    BY <1>1, PodSets DEF Numbers
  <2>4. ids \in SUBSET PodIds(b)
    BY <1>4, <2>2, <2>3
  <2>5. Deleted(b, d, ids)
    BY <1>3, <1>5, <2>1, <2>4, FoldDeletes
  <2>6. /\ \A v : PodsOf(d, v) = PodsOf(c, v) \ ids
        /\ \A v : ReadyCount(d, v) <= ReadyCount(c, v)
        /\ \A v : ids \cap PodsOf(c, v) = {} => ReadyCount(d, v) = ReadyCount(c, v)
    <3>1. /\ \A v : PodsOf(d, v) = PodsOf(b, v) \ ids
          /\ \A v : ReadyCount(d, v) <= ReadyCount(b, v)
          /\ \A v : ids \cap PodsOf(b, v) = {} => ReadyCount(d, v) = ReadyCount(b, v)
      <4>1. b \in ClusterType
        BY <1>3
      <4>2. \A v : PodsOf(d, v) = PodsOf(b, v) \ ids
        BY <2>4, <2>5, <4>1, DeletedCounts
      <4>3. \A v : ReadyCount(d, v) <= ReadyCount(b, v)
        BY <2>4, <2>5, <4>1, DeletedCounts
      <4>4. \A v : ids \cap PodsOf(b, v) = {} => ReadyCount(d, v) = ReadyCount(b, v)
        BY <2>4, <2>5, <4>1, DeletedCounts
      <4> QED BY <4>2, <4>3, <4>4
    <3> QED BY <1>4, <3>1
  <2>7. \A v : v # w => ids \cap PodsOf(c, v) = {}
    BY <2>2 DEF PodsOf
  <2>8. Cardinality(PodsOf(d, w)) = n
    <3>1. Cardinality(PodsOf(c, w) \ ids)
            = Cardinality(PodsOf(c, w)) - Cardinality(PodsOf(c, w) \cap ids)
      BY <2>3, FS_Difference
    <3>2. PodsOf(c, w) \cap ids = ids
      BY <2>2
    <3>3. Cardinality(PodsOf(d, w)) = p - (p - n)
      BY <1>8, <2>2, <2>6, <3>1, <3>2
    <3> QED BY <1>9, <3>3
  <2>9. /\ d \in ClusterType /\ RoomOk(d) /\ Len(d.machines) <= MaxMachines
        /\ d.desired = b.desired /\ d.area = a /\ d.accruedAt = t
    BY <1>3, <1>5, <2>5 DEF Deleted
  <2>10. ASSUME NEW v \in Workloads PROVE Cardinality(PodsOf(d, v)) = d.desired[v]
    <3>1. CASE v = w
      BY <1>7, <2>8, <2>9, <3>1
    <3>2. CASE v # w
      <4>1. PodsOf(d, v) = PodsOf(c, v)
        BY <2>6, <2>7, <3>2
      <4> QED BY <1>7, <2>9, <3>2, <4>1
    <3> QED BY <3>1, <3>2
  <2>11. Fine(d, t, a)
    BY <2>9, <2>10, SettledDated DEF Fine, Good, CountsOk
  <2> QED BY <2>6, <2>7, <2>11
<1> QED BY <1>10, <1>11

-----------------------------------------------------------------------------
(* The cluster a run starts with.                                            *)

LEMMA EmptyFine ==
  /\ Empty \in ClusterType /\ RoomOk(Empty) /\ Len(Empty.machines) <= MaxMachines
  /\ PodIds(Empty) = {} /\ Empty.desired = Instances /\ Empty.accruedAt = 0
<1>1. Machine(FALSE) \in MachineType
  BY DEF Machine, MachineType, RoomType
<1>2. PICK v : v = [m \in 1 .. MachineCount |-> Machine(FALSE)]
  OBVIOUS
<1>3. v \in Seq(MachineType) /\ Len(v) = MachineCount
  <2>1. MachineCount \in Nat
    BY ClusterAssumption
  <2>2. v \in [1 .. MachineCount -> MachineType]
    BY <1>1, <1>2
  <2>3. v \in Seq(MachineType)
    BY <2>1, <2>2
  <2> QED BY <2>1, <2>2, <2>3
<1>4. PICK a : a = Empty.area
  OBVIOUS
<1>5. Empty = [machines |-> v, pods |-> <<>>, desired |-> Instances, events |-> <<>>,
               area |-> [ready |-> 0, pending |-> 0, allocated |-> 0, allocatable |-> 0],
               accruedAt |-> 0]
  BY <1>2 DEF Empty
<1>6. Instances \in [Workloads -> Int]
  BY ClusterAssumption
<1>7. <<>> \in Seq(PodType \cup {Gone}) /\ <<>> \in Seq(EventType)
  OBVIOUS
<1>8. Empty \in ClusterType
  BY <1>3, <1>5, <1>6, <1>7 DEF ClusterType
<1>9. Empty.machines = v /\ Empty.pods = <<>> /\ Empty.desired = Instances /\ Empty.accruedAt = 0
  BY <1>5
<1>10. PodIds(Empty) = {}
  BY <1>9 DEF PodIds
<1>11. ASSUME NEW m \in Places(Empty) PROVE MachineOk(Empty, m)
  <2>1. Empty.machines[m] = Machine(FALSE)
    <3>1. m \in 1 .. MachineCount
      BY <1>2, <1>9, <1>11 DEF Places
    <3> QED BY <1>2, <1>9, <3>1
  <2>2. ~Machine(FALSE).provisioning /\ Machine(FALSE).used = [vcpu |-> 0, ram |-> 0]
    BY DEF Machine
  <2>3. \A r \in Resources : [vcpu |-> 0, ram |-> 0][r] = 0 /\ 0 <= MachineSize[r]
    BY ClusterAssumption DEF Resources, SizeType
  <2>4. Bound(Empty, m) = {}
    BY <1>10 DEF Bound
  <2>5. \A r : Load(Empty, m, r) = 0
    BY <2>4, SumOfNone DEF Load
  <2> QED BY <2>1, <2>2, <2>3, <2>5 DEF MachineOk
<1>12. Len(Empty.machines) <= MaxMachines
  BY <1>3, <1>9, ClusterAssumption
<1> QED BY <1>8, <1>9, <1>10, <1>11, <1>12 DEF RoomOk

\* The workloads numbered in s have been asked for.
Requested(c, order, s, d) ==
  /\ d \in ClusterType /\ RoomOk(d) /\ Len(d.machines) = Len(c.machines)
  /\ d.desired = c.desired /\ d.area = c.area /\ d.accruedAt = c.accruedAt
  /\ \A k \in PodIds(d) : d.pods[k].state = "pending"
  /\ \A v \in Workloads :
       Cardinality(PodsOf(d, v)) = IF \E i \in s : order[i] = v THEN Instances[v] ELSE 0

LEMMA FoldRequests ==
  ASSUME NEW c, c \in ClusterType, RoomOk(c), PodIds(c) = {}, NEW order \in SetToSeqs(Workloads)
  PROVE  Requested(c, order, DOMAIN order, Folded("ask", order, 0, c, DOMAIN order))
<1>1. PICK N : N = DOMAIN order
  OBVIOUS
<1>2. /\ N = 1 .. Cardinality(Workloads) /\ \A i \in N : order[i] \in Workloads
      /\ \A i, j \in N : i # j => order[i] # order[j]
  BY <1>1 DEF SetToSeqs
<1>3. Numbers(N)
  <2>1. Cardinality(Workloads) \in Nat
    BY ClusterAssumption, FS_CardinalityType
  <2>2. IsFiniteSet(1 .. Cardinality(Workloads))
    BY <2>1, FS_Interval
  <2> QED BY <1>2, <2>1, <2>2 DEF Numbers
<1> DEFINE G == {p \in (SUBSET N) \X ClusterType : Requested(c, order, p[1], p[2])}
<1>4. <<{}, c>> \in G
  <2>1. \A v : PodsOf(c, v) = {}
    BY DEF PodsOf
  <2>2. \A v : Cardinality(PodsOf(c, v)) = 0
    BY <2>1, FS_EmptySet
  <2>3. Requested(c, order, {}, c)
    BY <2>2 DEF Requested
  <2> QED BY <2>3
<1>5. ASSUME NEW s \in SUBSET N, NEW d, s # {}, <<s \ {Max(s)}, d>> \in G
      PROVE  <<s, Step("ask", order, 0, d, Max(s))>> \in G
  <2>1. PICK x : x = Max(s)
    OBVIOUS
  <2>2. x \in s
    <3>1. Numbers(s)
      BY <1>3, FS_Subset DEF Numbers
    <3>2. s # {}
      BY <1>5
    <3> HIDE DEF G
    <3> QED BY <2>1, <3>1, <3>2, LessOne
  <2>3. Requested(c, order, s \ {x}, d)
    BY <1>5, <2>1
  <2>4. PICK w : w = order[x]
    OBVIOUS
  <2>5. w \in Workloads /\ Instances[w] \in Nat
    <3>1. w \in Workloads
      BY <1>2, <2>2, <2>4
    <3> QED BY <3>1, ClusterAssumption
  <2>6. PICK n : n = Instances[w]
    OBVIOUS
  <2>7. PICK e : e = CreatePods(d, w, n, 0, Never)
    OBVIOUS
  <2>8. d \in ClusterType /\ RoomOk(d)
    BY <2>3 DEF Requested
  <2>9. Created(d, e, w, n)
    <3>1. Never \in Int
      BY DEF Never
    <3> QED BY <2>5, <2>6, <2>7, <2>8, <3>1, CreatedFields
  <2>10. /\ RoomOk(e)
         /\ \A v : Cardinality(PodsOf(e, v)) = Cardinality(PodsOf(d, v)) + IF v = w THEN n ELSE 0
    <3>1. n \in Nat
      BY <2>5, <2>6
    <3>2. RoomOk(e)
      BY <2>5, <2>8, <2>9, <3>1, CreatedCounts
    <3>3. \A v : Cardinality(PodsOf(e, v)) = Cardinality(PodsOf(d, v)) + IF v = w THEN n ELSE 0
      BY ONLY <2>8, <2>9, <3>1, CreatedCounts
    <3> QED BY <3>2, <3>3
  <2>11. Step("ask", order, 0, d, x) = e
    BY <2>4, <2>6, <2>7 DEF Step
  <2>12. ASSUME NEW v \in Workloads
         PROVE  Cardinality(PodsOf(e, v)) = IF \E i \in s : order[i] = v THEN Instances[v] ELSE 0
    <3>1. Cardinality(PodsOf(d, v)) = IF \E i \in s \ {x} : order[i] = v THEN Instances[v] ELSE 0
      BY <2>3 DEF Requested
    <3>2. Cardinality(PodsOf(e, v)) = Cardinality(PodsOf(d, v)) + IF v = w THEN n ELSE 0
      BY <2>10
    <3>3. Instances[v] \in Nat
      BY ClusterAssumption
    <3>4. CASE v = w
      <4>1. ~\E i \in s \ {x} : order[i] = v
        BY <1>2, <2>2, <2>4, <3>4
      <4>2. \E i \in s : order[i] = v
        BY <2>2, <2>4, <3>4
      <4> QED BY <2>6, <3>1, <3>2, <3>3, <3>4, <4>1, <4>2
    <3>5. CASE v # w
      <4>1. (\E i \in s \ {x} : order[i] = v) <=> \E i \in s : order[i] = v
        BY <2>4, <3>5
      <4> QED BY <3>1, <3>2, <3>3, <3>5, <4>1
    <3> QED BY <3>4, <3>5
  <2>13. ASSUME NEW k \in PodIds(e) PROVE e.pods[k].state = "pending"
    <3>1. CASE k \in DOMAIN d.pods
      <4>1. e.pods[k] = d.pods[k]
        BY <2>9, <3>1 DEF Created
      <4>2. k \in PodIds(d)
        BY <3>1, <4>1 DEF PodIds
      <4> QED BY <2>3, <4>1, <4>2 DEF Requested
    <3>2. CASE k \notin DOMAIN d.pods
      BY <2>9, <3>2 DEF Created, PodIds
    <3> QED BY <3>1, <3>2
  <2>14. /\ e \in ClusterType /\ e.machines = d.machines /\ e.desired = d.desired
         /\ e.area = d.area /\ e.accruedAt = d.accruedAt
    BY <2>9 DEF Created
  <2>15. Requested(c, order, s, e)
    BY <2>3, <2>10, <2>12, <2>13, <2>14 DEF Requested
  <2> QED BY <2>1, <2>11, <2>14, <2>15
<1>6. <<N, Folded("ask", order, 0, c, N)>> \in G
  <2> HIDE DEF G
  <2> QED BY <1>3, <1>4, <1>5, FoldKeeps
<1> QED BY <1>1, <1>6

LEMMA EveryoneInOrder ==
  ASSUME NEW order \in SetToSeqs(Workloads), NEW v \in Workloads
  PROVE  \E i \in DOMAIN order : order[i] = v
<1>1. PICK n : n = Cardinality(Workloads)
  OBVIOUS
<1>2. n \in Nat
  BY <1>1, ClusterAssumption, FS_CardinalityType
<1>3. order \in [1 .. n -> Workloads] /\ \A i, j \in 1 .. n : i # j => order[i] # order[j]
  BY <1>1 DEF SetToSeqs
<1>4. IsFiniteSet(1 .. n) /\ Cardinality(1 .. n) = n
  BY <1>2, FS_Interval
<1> SUFFICES ASSUME \A i \in 1 .. n : order[i] # v PROVE FALSE
  BY <1>3
<1>5. order \in [1 .. n -> Workloads \ {v}]
  BY <1>3
<1>6. IsFiniteSet(Workloads \ {v}) /\ Cardinality(Workloads \ {v}) = n - 1
  BY <1>1, ClusterAssumption, FS_RemoveElement
<1>7. n - 1 < n
  BY <1>2
<1>8. \E x, y \in 1 .. n : x # y /\ order[x] = order[y]
  <2>1. PICK T : T = Workloads \ {v}
    OBVIOUS
  <2>2. PICK D : D = 1 .. n
    OBVIOUS
  <2>3. order \in [D -> T] /\ IsFiniteSet(D) /\ IsFiniteSet(T) /\ Cardinality(T) < Cardinality(D)
    BY <1>4, <1>5, <1>6, <1>7, <2>1, <2>2
  <2>4. \E x, y \in D : x # y /\ order[x] = order[y]
    BY ONLY <2>3, FS_PigeonHole
  <2> QED BY <2>2, <2>4
<1> QED BY <1>3, <1>8

LEMMA InitialFine ==
  ASSUME NEW p \in Plans, NEW order \in SetToSeqs(Workloads)
  PROVE  Fine(InitialCluster(p, order), 0, Empty.area) /\ Served(InitialCluster(p, order))
<1>1. PICK a : a = Empty.area
  OBVIOUS
<1>2. PICK ticking : ticking = Schedule(Empty, TickInterval, "trait-tick", NoMachine)
  OBVIOUS
<1>3. Same(Empty, ticking)
  <2>1. TickInterval \in Int /\ "trait-tick" \in Actions /\ NoMachine \in Int
    BY ClusterAssumption DEF Actions, NoMachine
  <2> QED BY <1>2, <2>1, EmptyFine, ScheduledSame
<1>4. /\ ticking \in ClusterType /\ RoomOk(ticking) /\ PodIds(ticking) = {}
      /\ Len(ticking.machines) <= MaxMachines /\ ticking.desired = Instances
      /\ ticking.area = a /\ ticking.accruedAt = 0
  <2>1. Alike(Empty, ticking)
    BY <1>3 DEF Same
  <2>2. RoomOk(ticking) /\ PodIds(ticking) = {}
    BY <2>1, EmptyFine, AlikeRoom, AlikeSets
  <2> QED BY <1>1, <1>3, <2>2, EmptyFine DEF Same, Alike
<1>5. PICK asked : asked = Folded("ask", order, 0, ticking, DOMAIN order)
  OBVIOUS
<1>6. Requested(ticking, order, DOMAIN order, asked)
  BY <1>4, <1>5, FoldRequests
<1>7. /\ asked \in ClusterType /\ RoomOk(asked) /\ Len(asked.machines) <= MaxMachines
      /\ asked.desired = Instances /\ asked.area = a /\ asked.accruedAt = 0
      /\ InState(asked, "pending") = PodIds(asked)
  BY <1>4, <1>6 DEF Requested, InState
<1>8. \A v \in Workloads : Cardinality(PodsOf(asked, v)) = Instances[v]
  BY <1>6, EveryoneInOrder DEF Requested
<1>9. PICK S : S = InState(asked, "pending")
  OBVIOUS
<1>10. PICK placed : placed = Folded("instantly", 0, 0, asked, S)
  OBVIOUS
<1>11. Filled(asked, placed, S, "ready")
  BY <1>7, <1>9, <1>10, FoldFills
<1>12. /\ Len(placed.machines) = Len(asked.machines)
       /\ \A w : PodsOf(placed, w) = PodsOf(asked, w)
       /\ \A id \in InState(placed, "pending") : Fitting(placed, id) = {}
  BY <1>7, <1>9, <1>11, FilledCounts
<1>13. /\ placed \in ClusterType /\ RoomOk(placed) /\ placed.desired = Instances
       /\ placed.area = a /\ placed.accruedAt = 0
  BY <1>7, <1>11 DEF Filled
<1>14. Fine(placed, 0, a)
  BY <1>7, <1>8, <1>12, <1>13, SettledDated DEF Fine, Good, CountsOk
<1>15. PICK grown : grown = MaybeProvisionMachines(placed, 0)
  OBVIOUS
<1>16. Fine(grown, 0, a) /\ Served(grown)
  BY <1>12, <1>14, <1>15, ProvisionedFine
<1>17. PICK failing : failing = Schedule(grown, p.failAt, "machine-failure", p.count)
  OBVIOUS
<1>18. p.failAt \in Int /\ p.count \in Int /\ (p.recoverAt > p.failAt => p.recoverAt \in Int)
  BY ClusterAssumption DEF Never
<1>19. Fine(failing, 0, a) /\ Served(failing)
  <2>1. grown \in ClusterType /\ "machine-failure" \in Actions
    BY <1>16 DEF Fine, Good, Actions
  <2>2. Same(grown, failing)
    BY <1>17, <1>18, <2>1, ScheduledSame
  <2> QED BY <1>16, <2>2, SameFine
<1>20. PICK r : r = InitialCluster(p, order)
  OBVIOUS
<1>21. r = IF p.recoverAt > p.failAt
             THEN Schedule(failing, p.recoverAt, "machine-recovery", NoMachine) ELSE failing
  <2>1. Each(LAMBDA c, i : CreatePods(c, order[i], Instances[order[i]], 0, Never),
             ticking, DOMAIN order) = asked
    BY <1>5 DEF Each, MapThenFoldSet, Folded, Iterated, Iterates, Step
  <2>2. Each(StartInstantly, asked, PodIds(asked)) = placed
    <3>1. Each(StartInstantly, asked, S) = Folded("instantly", 0, 0, asked, S)
      BY DEF Each, MapThenFoldSet, Folded, Iterated, Iterates, Step
    <3>2. PodIds(asked) = S
      BY <1>7, <1>9
    <3> QED BY <1>10, <3>1, <3>2
  <2> QED BY <1>2, <1>15, <1>17, <1>20, <2>1, <2>2 DEF InitialCluster
<1>22. CASE p.recoverAt > p.failAt
  <2>1. failing \in ClusterType /\ "machine-recovery" \in Actions /\ NoMachine \in Int
    BY <1>19 DEF Fine, Good, Actions, NoMachine
  <2>2. Same(failing, r)
    BY <1>18, <1>21, <1>22, <2>1, ScheduledSame
  <2>3. Fine(r, 0, a) /\ Served(r)
    BY <1>19, <2>2, SameFine
  <2> QED BY <1>1, <1>20, <2>3
<1>23. CASE ~(p.recoverAt > p.failAt)
  BY <1>1, <1>19, <1>20, <1>21, <1>23
<1> QED BY <1>22, <1>23

-----------------------------------------------------------------------------
(* Steps.                                                                    *)

LEMMA AccrueFine ==
  ASSUME NEW c, NEW t \in Int, NEW a, Fine(c, t, a)
  PROVE  /\ Fine(Accrue(c, t), t, a) /\ Alike(c, Accrue(c, t)) /\ Accrue(c, t) \in ClusterType
         /\ Accrue(c, t).accruedAt = t /\ Accrue(c, t).area = a
         /\ (Served(c) => Served(Accrue(c, t)))
<1>1. PICK d : d = Accrue(c, t)
  OBVIOUS
<1>2. c \in ClusterType /\ Good(c) /\ CountsOk(c) /\ Dated(c, t, a)
  BY DEF Fine, Good
<1>3. /\ d \in ClusterType /\ Alike(c, d) /\ d.desired = c.desired
      /\ d.accruedAt = t /\ d.area = a
  BY <1>1, <1>2, Accrued
<1>4. Good(d) /\ CountsOk(d) /\ (Served(c) => Served(d))
  BY <1>2, <1>3, AlikeFine
<1>5. Dated(d, t, a)
  BY <1>3, SettledDated
<1> QED BY <1>1, <1>3, <1>4, <1>5 DEF Fine

\* The event taken is one of the cluster's, and taking it changes nothing else.
LEMMA TakenSame ==
  ASSUME cluster \in ClusterType, cluster.events # <<>>
  PROVE  Same(cluster, Taken) /\ Next1 \in EventType
<1>1. PICK q : q = cluster.events
  OBVIOUS
<1>2. q \in Seq(EventType) /\ q # <<>>
  BY <1>1 DEF ClusterType
<1>3. Head(q) \in EventType /\ Tail(q) \in Seq(EventType)
  BY <1>2, HeadTailProperties
<1>4. PICK r : r = Tail(q)
  OBVIOUS
<1>5. Taken = [cluster EXCEPT !.events = r]
  BY <1>1, <1>4 DEF Taken
<1>6. Taken \in ClusterType
  BY <1>3, <1>4, <1>5 DEF ClusterType
<1>7. /\ Taken.machines = cluster.machines /\ Taken.pods = cluster.pods
      /\ Taken.desired = cluster.desired /\ Taken.area = cluster.area
      /\ Taken.accruedAt = cluster.accruedAt
  BY <1>5 DEF ClusterType
<1> QED BY <1>1, <1>3, <1>6, <1>7 DEF Same, Alike, Next1

\* What a run keeps: the books, the areas and the numbers of pods are exact, no pod
\* waits beside room, and the nodes are sized to what is ready.
ClusterInv ==
  /\ plan \in Plans /\ now \in Nat /\ instances \in Int /\ Numbers(failed)
  /\ Fine(cluster, now, total) /\ Served(cluster)
  /\ capacity = [w \in Workloads |-> ReadyCount(cluster, w)]

\* What the step of an event starts from.
LEMMA StepStarts ==
  ASSUME ClusterInv, cluster.events # <<>>
  PROVE  /\ now \in Int /\ Next1 \in EventType
         /\ Fine(Taken, now, total) /\ Served(Taken)
         /\ \A w : ReadyCount(Taken, w) = ReadyCount(cluster, w)
<1>1. cluster \in ClusterType /\ Fine(cluster, now, total) /\ Served(cluster) /\ now \in Int
  BY DEF ClusterInv, Fine, Good
<1>2. Same(cluster, Taken) /\ Next1 \in EventType
  BY <1>1, TakenSame
<1>3. /\ Fine(Taken, now, total) /\ Served(Taken)
      /\ \A w : ReadyCount(Taken, w) = ReadyCount(cluster, w)
  BY <1>1, <1>2, SameFine
<1> QED BY <1>1, <1>2, <1>3

\* The capacities stay right when they are applied to what may have changed.
LEMMA CapacityApplied ==
  ASSUME ClusterInv, NEW ws,
         \A w \in Workloads : w \notin ws => ReadyCount(cluster', w) = ReadyCount(cluster, w)
  PROVE  /\ Apply(ws) => capacity' = [w \in Workloads |-> ReadyCount(cluster', w)]
         /\ ws = {} /\ UNCHANGED capacity
              => capacity' = [w \in Workloads |-> ReadyCount(cluster', w)]
<1>1. \A w \in Workloads : capacity[w] = ReadyCount(cluster, w)
  BY DEF ClusterInv
<1>2. ASSUME Apply(ws)
      PROVE  capacity' = [w \in Workloads |-> ReadyCount(cluster', w)]
  BY <1>1, <1>2 DEF Apply
<1>3. ASSUME ws = {}, UNCHANGED capacity
      PROVE  capacity' = [w \in Workloads |-> ReadyCount(cluster', w)]
  <2>1. \A w \in Workloads : ReadyCount(cluster', w) = ReadyCount(cluster, w)
    BY <1>3
  <2> QED BY <1>3, <2>1 DEF ClusterInv
<1> QED BY <1>2, <1>3

\* The invariant after a step, from its parts.
LEMMA StepEnds ==
  ASSUME ClusterInv, Kept, instances' \in Int, Numbers(failed'),
         Fine(cluster', now, total), Served(cluster'),
         capacity' = [w \in Workloads |-> ReadyCount(cluster', w)]
  PROVE  ClusterInv'
BY DEF ClusterInv, Kept, Numbers, Fine, Good, CountsOk, Dated, Served, RoomOk, ClusterType

LEMMA PodReadyKeeps ==
  ASSUME ClusterInv, PodReady
  PROVE  ClusterInv'
<1>1. /\ cluster.events # <<>> /\ failed' = failed /\ instances' = instances /\ Kept
      /\ now \in Int
  BY DEF PodReady, Due, ClusterInv
<1>2. Next1 \in EventType /\ Fine(Taken, now, total) /\ Served(Taken)
  BY <1>1, StepStarts
<1>3. \A w : ReadyCount(Taken, w) = ReadyCount(cluster, w)
  BY <1>1, StepStarts
<1>4. instances' \in Int /\ Numbers(failed')
  BY <1>1 DEF ClusterInv
<1>5. PICK c : c = Accrue(Taken, now)
  OBVIOUS
<1>6. PICK id : id = Next1.arg
  OBVIOUS
<1>7. CASE id \in InState(Taken, "starting")
  <2>1. /\ Fine(c, now, total) /\ Alike(Taken, c) /\ c.accruedAt = now /\ c.area = total
        /\ Served(c)
    BY <1>1, <1>2, <1>5, AccrueFine
  <2>2. /\ id \in InState(c, "starting")
        /\ \A w : ReadyCount(c, w) = ReadyCount(Taken, w)
    BY <1>7, <2>1, AlikeSets
  <2>3. cluster' = Readied(c, id) /\ Apply({c.pods[id].workload})
    BY <1>5, <1>6, <1>7 DEF PodReady, Readied
  <2>4. PICK d : d = Readied(c, id)
    OBVIOUS
  <2>5. Fine(d, now, total) /\ Served(d)
    BY <1>1, <2>1, <2>2, <2>4, ReadiedFine
  <2>6. \A w : w # c.pods[id].workload => ReadyCount(d, w) = ReadyCount(c, w)
    BY <1>1, <2>1, <2>2, <2>4, ReadiedFine
  <2>7. cluster' = d
    BY <2>3, <2>4
  <2>8. \A w \in Workloads :
          w \notin {c.pods[id].workload} => ReadyCount(cluster', w) = ReadyCount(cluster, w)
    BY <1>3, <2>2, <2>6, <2>7
  <2>9. capacity' = [w \in Workloads |-> ReadyCount(cluster', w)]
    BY <2>3, <2>8, CapacityApplied
  <2> QED BY <1>1, <1>4, <2>5, <2>7, <2>9, StepEnds
<1>8. CASE id \notin InState(Taken, "starting")
  <2>1. cluster' = Taken /\ UNCHANGED capacity
    BY <1>6, <1>8 DEF PodReady
  <2>2. capacity' = [w \in Workloads |-> ReadyCount(cluster', w)]
    BY <1>3, <2>1, CapacityApplied
  <2> QED BY <1>1, <1>2, <1>4, <2>1, <2>2, StepEnds
<1> QED BY <1>7, <1>8

\* What the steps that leave the capacities alone have in common.
LEMMA UnappliedKeeps ==
  ASSUME ClusterInv, Kept, instances' \in Int, Numbers(failed'), UNCHANGED capacity,
         NEW d, cluster' = d, Fine(d, now, total), Served(d),
         \A w : ReadyCount(d, w) = ReadyCount(cluster, w)
  PROVE  ClusterInv'
<1>1. capacity' = [w \in Workloads |-> ReadyCount(cluster', w)]
  BY CapacityApplied
<1> QED BY <1>1, StepEnds

LEMMA EvictKeeps ==
  ASSUME ClusterInv, Evict
  PROVE  ClusterInv'
<1>1. /\ cluster.events # <<>> /\ failed' = failed /\ instances' = instances /\ Kept
      /\ now \in Int /\ UNCHANGED capacity
  <2>1. /\ Due("evict") /\ UNCHANGED <<failed, instances, ticks, capacity>> /\ Kept
    BY DEF Evict
  <2> QED BY <2>1 DEF Due, ClusterInv
<1>2. Fine(Taken, now, total)
  BY <1>1, StepStarts
<1>3. \A w : ReadyCount(Taken, w) = ReadyCount(cluster, w)
  BY <1>1, StepStarts
<1>4. instances' \in Int /\ Numbers(failed')
  BY <1>1 DEF ClusterInv
<1>5. PICK c : c = Accrue(Taken, now)
  OBVIOUS
<1>6. Fine(c, now, total) /\ Alike(Taken, c) /\ c.accruedAt = now /\ c.area = total
  BY <1>1, <1>2, <1>5, AccrueFine
<1>7. \A w : ReadyCount(c, w) = ReadyCount(Taken, w)
  BY <1>6, AlikeSets
<1>8. PICK S : S = {id \in InState(c, "lost") : c.pods[id].machine = Next1.arg}
  OBVIOUS
<1>9. PICK e : e = Folded("replace", now, 0, c, S)
  OBVIOUS
<1>10. Fine(e, now, total)
  BY <1>1, <1>6, <1>8, <1>9, ReplaceFine
<1>11. \A w : ReadyCount(e, w) = ReadyCount(c, w)
  BY <1>1, <1>6, <1>8, <1>9, ReplaceFine
<1>12. PICK d : d = RunClusterScheduling(e, now)
  OBVIOUS
<1>13. Fine(d, now, total) /\ Served(d)
  BY <1>1, <1>10, <1>12, RunFine
<1>14. \A w : ReadyCount(d, w) = ReadyCount(e, w)
  BY <1>1, <1>10, <1>12, RunFine
<1>15. cluster' = d
  <2>1. Each(LAMBDA f, id : ReplaceLost(f, id, now), c, S) = e
    BY <1>9 DEF Each, MapThenFoldSet, Folded, Iterated, Iterates, Step
  <2> QED BY <1>5, <1>8, <1>12, <2>1 DEF Evict
<1>16. \A w : ReadyCount(d, w) = ReadyCount(cluster, w)
  BY <1>3, <1>7, <1>11, <1>14
<1> QED BY <1>1, <1>4, <1>13, <1>15, <1>16, UnappliedKeeps

LEMMA MachineRecoveryKeeps ==
  ASSUME ClusterInv, MachineRecovery
  PROVE  ClusterInv'
<1>1. /\ cluster.events # <<>> /\ failed' = {} /\ instances' = instances /\ Kept
      /\ now \in Int /\ UNCHANGED capacity /\ Numbers(failed)
  <2>1. /\ Due("machine-recovery") /\ failed' = {}
        /\ UNCHANGED <<instances, ticks, capacity>> /\ Kept
    BY DEF MachineRecovery
  <2> QED BY <2>1 DEF Due, ClusterInv
<1>2. Fine(Taken, now, total)
  BY <1>1, StepStarts
<1>3. \A w : ReadyCount(Taken, w) = ReadyCount(cluster, w)
  BY <1>1, StepStarts
<1>4. instances' \in Int /\ Numbers(failed')
  BY <1>1, FS_EmptySet DEF ClusterInv, Numbers
<1>5. PICK e : e = Folded("recover", now, 0, Taken, failed)
  OBVIOUS
<1>6. Fine(e, now, total)
  BY <1>1, <1>2, <1>5, FoldRecovers
<1>7. \A w : ReadyCount(e, w) = ReadyCount(Taken, w)
  BY <1>1, <1>2, <1>5, FoldRecovers
<1>8. PICK d : d = RunClusterScheduling(e, now)
  OBVIOUS
<1>9. Fine(d, now, total) /\ Served(d)
  BY <1>1, <1>6, <1>8, RunFine
<1>10. \A w : ReadyCount(d, w) = ReadyCount(e, w)
  BY <1>1, <1>6, <1>8, RunFine
<1>11. cluster' = d
  <2>1. Each(LAMBDA f, m : RecoverMachine(f, m, now), Taken, failed) = e
    BY <1>5 DEF Each, MapThenFoldSet, Folded, Iterated, Iterates, Step
  <2> QED BY <1>8, <2>1 DEF MachineRecovery
<1>12. \A w : ReadyCount(d, w) = ReadyCount(cluster, w)
  BY <1>3, <1>7, <1>10
<1> QED BY <1>1, <1>4, <1>9, <1>11, <1>12, UnappliedKeeps

LEMMA MachineJoinedKeeps ==
  ASSUME ClusterInv, MachineJoined
  PROVE  ClusterInv'
<1>1. /\ cluster.events # <<>> /\ failed' = failed /\ instances' = instances /\ Kept
      /\ now \in Int /\ UNCHANGED capacity
  BY DEF MachineJoined, Due, ClusterInv
<1>2. Fine(Taken, now, total) /\ Served(Taken)
  BY <1>1, StepStarts
<1>3. \A w : ReadyCount(Taken, w) = ReadyCount(cluster, w)
  BY <1>1, StepStarts
<1>4. instances' \in Int /\ Numbers(failed')
  BY <1>1 DEF ClusterInv
<1>5. PICK m : m = Next1.arg
  OBVIOUS
<1>6. CASE m \in Places(Taken) /\ Taken.machines[m].provisioning
  <2>1. PICK c : c = Accrue(Taken, now)
    OBVIOUS
  <2>2. Fine(c, now, total) /\ Alike(Taken, c) /\ c.accruedAt = now /\ c.area = total
    BY <1>1, <1>2, <2>1, AccrueFine
  <2>3. m \in Places(c) /\ c.machines[m].provisioning
    BY <1>6, <2>2 DEF Alike, Places
  <2>4. \A w : ReadyCount(c, w) = ReadyCount(Taken, w)
    BY <2>2, AlikeSets
  <2>5. PICK e : e = Joined(c, m)
    OBVIOUS
  <2>6. Fine(e, now, total)
    BY <1>1, <2>2, <2>3, <2>5, JoinedFine
  <2>7. \A w : ReadyCount(e, w) = ReadyCount(c, w)
    BY <1>1, <2>2, <2>3, <2>5, JoinedFine
  <2>8. PICK d : d = RunClusterScheduling(e, now)
    OBVIOUS
  <2>9. Fine(d, now, total) /\ Served(d)
    BY <1>1, <2>6, <2>8, RunFine
  <2>10. \A w : ReadyCount(d, w) = ReadyCount(e, w)
    BY <1>1, <2>6, <2>8, RunFine
  <2>11. cluster' = d
    BY <1>5, <1>6, <2>1, <2>5, <2>8 DEF MachineJoined, Joined
  <2>12. \A w : ReadyCount(d, w) = ReadyCount(cluster, w)
    BY <1>3, <2>4, <2>7, <2>10
  <2> QED BY <1>1, <1>4, <2>9, <2>11, <2>12, UnappliedKeeps
<1>7. CASE ~(m \in Places(Taken) /\ Taken.machines[m].provisioning)
  <2>1. cluster' = Taken
    BY <1>5, <1>7 DEF MachineJoined
  <2> QED BY <1>1, <1>2, <1>3, <1>4, <2>1, UnappliedKeeps
<1> QED BY <1>6, <1>7

LEMMA MachineFailureKeeps ==
  ASSUME ClusterInv, MachineFailure
  PROVE  ClusterInv'
<1>1. /\ cluster.events # <<>> /\ instances' = instances /\ Kept /\ now \in Int
  BY DEF MachineFailure, Due, ClusterInv
<1>2. Fine(Taken, now, total) /\ Served(Taken)
  BY <1>1, StepStarts
<1>3. \A w : ReadyCount(Taken, w) = ReadyCount(cluster, w)
  BY <1>1, StepStarts
<1>4. PICK c : c = Accrue(Taken, now)
  OBVIOUS
<1>5. /\ Fine(c, now, total) /\ Alike(Taken, c) /\ c.accruedAt = now /\ c.area = total
      /\ Served(c)
  BY <1>1, <1>2, <1>4, AccrueFine
<1>6. \A w : ReadyCount(c, w) = ReadyCount(Taken, w)
  BY <1>5, AlikeSets
<1>7. PICK ms : ms = {m \in UpOnes(c) : Cardinality({n \in UpOnes(c) : n <= m}) <= Next1.arg}
  OBVIOUS
<1>8. PICK W : W = {c.pods[id].workload : id \in LostWith(c, ms)}
  OBVIOUS
<1>9. /\ cluster' = EvictLater(Lose(c, ms, now), ms, now) /\ Apply(W)
      /\ failed' = IF ms = {} THEN failed ELSE ms
  <2> DEFINE up == {m \in Places(c) : c.machines[m].up}
             ns == {m \in up : Cardinality({n \in up : n <= m}) <= Next1.arg}
  <2>1. ns = ms
    BY <1>7 DEF UpOnes
  <2>2. /\ cluster' = EvictLater(Lose(c, ns, now), ns, now)
        /\ Apply({c.pods[id].workload : id \in LostWith(c, ns)})
        /\ failed' = IF ns = {} THEN failed ELSE ns
    BY <1>4 DEF MachineFailure
  <2> HIDE DEF ns
  <2> QED BY <1>8, <2>1, <2>2
<1>10. ms \in SUBSET UpOnes(c)
  BY <1>7
<1>11. Numbers(ms) /\ Numbers(failed') /\ instances' \in Int
  <2>1. c \in ClusterType
    BY <1>5 DEF Fine, Good
  <2>2. /\ Len(c.machines) \in Nat /\ Places(c) = 1 .. Len(c.machines) /\ IsFiniteSet(Places(c))
    BY <2>1, MachinesTyped
  <2>3. ms \in SUBSET Places(c)
    BY <1>10 DEF UpOnes
  <2>4. IsFiniteSet(ms)
    BY <2>2, <2>3, FS_Subset
  <2>5. Numbers(ms)
    BY <2>2, <2>3, <2>4 DEF Numbers
  <2> QED BY <1>1, <1>9, <2>5 DEF ClusterInv
<1>12. PICK e : e = Lose(c, ms, now)
  OBVIOUS
<1>13. Fine(e, now, total) /\ Served(e)
  BY <1>1, <1>5, <1>10, <1>12, LoseFine
<1>14. \A w : w \notin W => ReadyCount(e, w) = ReadyCount(c, w)
  BY <1>1, <1>5, <1>8, <1>10, <1>12, LoseFine
<1>15. PICK d : d = EvictLater(e, ms, now)
  OBVIOUS
<1>16. Same(e, d)
  <2>1. e \in ClusterType /\ "evict" \in Actions
    BY <1>13 DEF Fine, Good, Actions
  <2>2. now + RescheduleDelay \in Int
    BY <1>1, ClusterAssumption
  <2> QED BY <1>11, <1>15, <2>1, <2>2, ScheduleEachSame DEF EvictLater
<1>17. Fine(d, now, total) /\ Served(d) /\ \A w : ReadyCount(d, w) = ReadyCount(e, w)
  BY <1>13, <1>16, SameFine
<1>18. cluster' = d
  BY <1>9, <1>12, <1>15
<1>19. \A w \in Workloads : w \notin W => ReadyCount(cluster', w) = ReadyCount(cluster, w)
  BY <1>3, <1>6, <1>14, <1>17, <1>18
<1>20. capacity' = [w \in Workloads |-> ReadyCount(cluster', w)]
  BY <1>9, <1>19, CapacityApplied
<1> QED BY <1>1, <1>11, <1>17, <1>18, <1>20, StepEnds

LEMMA TraitTickKeeps ==
  ASSUME ClusterInv, TraitTick
  PROVE  ClusterInv'
<1>1. /\ cluster.events # <<>> /\ failed' = failed /\ Kept /\ now \in Int
  BY DEF TraitTick, Due, ClusterInv
<1>2. Fine(Taken, now, total)
  BY <1>1, StepStarts
<1>3. \A w : ReadyCount(Taken, w) = ReadyCount(cluster, w)
  BY <1>1, StepStarts
<1>4. PICK n, c, d : /\ \E step \in {-1, 0, 1} : n = Clamp(instances + step)
                     /\ instances' = n /\ c \in SetDesired(Taken, Autoscaled, n, now)
                     /\ d = RunClusterScheduling(c, now)
                     /\ cluster' = IF ticks < MaxTicks
                          THEN Schedule(d, now + TickInterval, "trait-tick", NoMachine) ELSE d
  BY DEF TraitTick
<1>5. n \in Nat
  <2>1. instances \in Int /\ MinInstances \in Nat /\ MaxInstances \in Nat
    BY ClusterAssumption DEF ClusterInv
  <2> QED BY <1>4, <2>1 DEF Clamp, Smaller
<1>6. instances' \in Int /\ Numbers(failed') /\ Autoscaled \in Workloads
  BY <1>1, <1>4, <1>5, ClusterAssumption DEF ClusterInv
<1>7. Fine(c, now, total)
  BY <1>1, <1>2, <1>4, <1>5, <1>6, DesiredFine
<1>8. ReadyCount(c, Autoscaled) <= ReadyCount(Taken, Autoscaled)
  BY <1>1, <1>2, <1>4, <1>5, <1>6, DesiredFine
<1>9. \A v : v # Autoscaled => ReadyCount(c, v) = ReadyCount(Taken, v)
  BY <1>1, <1>2, <1>4, <1>5, <1>6, DesiredFine
<1>10. Fine(d, now, total) /\ Served(d)
  BY <1>1, <1>4, <1>7, RunFine
<1>11. \A w : ReadyCount(d, w) = ReadyCount(c, w)
  BY <1>1, <1>4, <1>7, RunFine
<1>12. PICK e : e = Schedule(d, now + TickInterval, "trait-tick", NoMachine)
  OBVIOUS
<1>13. Same(d, e)
  <2>1. d \in ClusterType
    BY <1>10 DEF Fine, Good
  <2>2. now + TickInterval \in Int /\ "trait-tick" \in Actions /\ NoMachine \in Int
    BY <1>1, ClusterAssumption DEF Actions, NoMachine
  <2> QED BY <1>12, <2>1, <2>2, ScheduledSame
<1>14. Fine(e, now, total) /\ Served(e) /\ \A w : ReadyCount(e, w) = ReadyCount(d, w)
  BY <1>10, <1>13, SameFine
<1>15. PICK f : cluster' = f
  OBVIOUS
<1>16. f = d \/ f = e
  BY <1>4, <1>12, <1>15
<1>17. Fine(f, now, total) /\ Served(f) /\ \A w : ReadyCount(f, w) = ReadyCount(d, w)
  BY <1>10, <1>14, <1>16
<1>18. PICK W : W = IF ReadyCount(f, Autoscaled) < ReadyCount(cluster, Autoscaled)
                      THEN {Autoscaled} ELSE {}
  OBVIOUS
<1>19. Apply(W)
  BY <1>15, <1>18 DEF TraitTick
<1>20. ReadyCount(f, Autoscaled) \in Nat /\ ReadyCount(cluster, Autoscaled) \in Nat
  <2>1. f \in ClusterType /\ cluster \in ClusterType
    BY <1>17 DEF ClusterInv, Fine, Good
  <2> QED BY <2>1, PodSets
<1>21. \A w \in Workloads : w \notin W => ReadyCount(cluster', w) = ReadyCount(cluster, w)
  <2>1. SUFFICES ASSUME NEW w \in Workloads, w \notin W
                 PROVE  ReadyCount(f, w) = ReadyCount(cluster, w)
    BY <1>15
  <2>2. CASE w # Autoscaled
    BY <1>3, <1>9, <1>11, <1>17, <2>2
  <2>3. CASE w = Autoscaled
    <3>1. PICK x : x = ReadyCount(f, Autoscaled)
      OBVIOUS
    <3>2. PICK y : y = ReadyCount(cluster, Autoscaled)
      OBVIOUS
    <3>3. x <= y
      BY <1>3, <1>8, <1>11, <1>17, <3>1, <3>2
    <3>4. ~(x < y)
      BY <1>18, <2>1, <2>3, <3>1, <3>2
    <3> QED BY <1>20, <2>3, <3>1, <3>2, <3>3, <3>4
  <2> QED BY <2>2, <2>3
<1>22. capacity' = [w \in Workloads |-> ReadyCount(cluster', w)]
  BY <1>19, <1>21, CapacityApplied
<1> QED BY <1>1, <1>6, <1>15, <1>17, <1>22, StepEnds

LEMMA TickKeeps ==
  ASSUME ClusterInv, Tick
  PROVE  ClusterInv'
<1>1. /\ cluster.events # <<>> /\ Next1.at > now /\ now' = now + 1 /\ now \in Nat
      /\ total' = Accumulate(total, Rates(cluster), 1) /\ UNCHANGED plan
      /\ cluster' = cluster /\ failed' = failed /\ instances' = instances /\ capacity' = capacity
  BY DEF Tick, ClusterInv
<1>2. /\ cluster \in ClusterType /\ Good(cluster) /\ CountsOk(cluster) /\ Dated(cluster, now, total)
  BY DEF ClusterInv, Fine, Good
<1>3. PICK r : r = Rates(cluster)
  OBVIOUS
<1>4. PICK b : b = cluster.area
  OBVIOUS
<1>5. r \in AreaType /\ b \in AreaType
  BY <1>2, <1>3, <1>4, RatesTyped DEF ClusterType, AreaType
<1>6. PICK x : x = now - cluster.accruedAt
  OBVIOUS
<1>7. cluster.accruedAt \in Int /\ cluster.accruedAt <= now /\ x \in Int
  BY <1>1, <1>2, <1>6 DEF Dated, ClusterType
<1>8. Accumulate(b, r, x) = total
  BY <1>2, <1>3, <1>4, <1>6 DEF Dated
<1>9. Accumulate(b, r, x + 1) = total'
  BY <1>1, <1>3, <1>5, <1>7, <1>8, Accumulated
<1>10. now' - cluster.accruedAt = x + 1 /\ cluster.accruedAt <= now'
  BY <1>1, <1>6, <1>7
<1>11. Dated(cluster, now', total')
  BY <1>3, <1>4, <1>9, <1>10 DEF Dated
<1>12. Fine(cluster, now', total')
  BY <1>2, <1>11 DEF Fine
<1>13. Fine(cluster, now, total)' /\ Served(cluster)'
  <2>1. Served(cluster)
    BY DEF ClusterInv
  <2>2. PICK k : k = cluster
    OBVIOUS
  <2>3. cluster' = k /\ Served(k) /\ Fine(k, now', total')
    BY <1>1, <1>12, <2>1, <2>2
  <2> QED BY <2>3 DEF Fine, Good, CountsOk, Dated, Served, RoomOk, ClusterType
<1>14. capacity' = [w \in Workloads |-> ReadyCount(cluster', w)]
  BY <1>1 DEF ClusterInv
<1> QED BY <1>1, <1>13, <1>14 DEF ClusterInv

-----------------------------------------------------------------------------
(* The theorems.                                                             *)

LEMMA ClusterInit == Init => ClusterInv
<1> SUFFICES ASSUME Init PROVE ClusterInv
  OBVIOUS
<1>1. PICK order \in SetToSeqs(Workloads) : cluster = InitialCluster(plan, order)
  BY DEF Init
<1>2. plan \in Plans /\ now = 0 /\ failed = {} /\ total = Empty.area
  BY DEF Init
<1>3. Fine(cluster, now, total) /\ Served(cluster)
  BY <1>1, <1>2, InitialFine
<1>4. instances \in Int
  <2>1. instances = Clamp(Instances[Autoscaled])
    BY DEF Init
  <2>2. Instances[Autoscaled] \in Int /\ MinInstances \in Int /\ MaxInstances \in Int
    BY ClusterAssumption
  <2> QED BY <2>1, <2>2 DEF Clamp, Smaller
<1>5. Numbers(failed)
  BY <1>2, FS_EmptySet DEF Numbers
<1>6. capacity = [w \in Workloads |-> ReadyCount(cluster, w)]
  BY DEF Init
<1> QED BY <1>2, <1>3, <1>4, <1>5, <1>6 DEF ClusterInv

LEMMA ClusterStep == ClusterInv /\ [Next]_vars => ClusterInv'
<1> SUFFICES ASSUME ClusterInv, [Next]_vars PROVE ClusterInv'
  OBVIOUS
<1>1. CASE PodReady
  BY <1>1, PodReadyKeeps
<1>2. CASE MachineFailure
  BY <1>2, MachineFailureKeeps
<1>3. CASE Evict
  BY <1>3, EvictKeeps
<1>4. CASE MachineRecovery
  BY <1>4, MachineRecoveryKeeps
<1>5. CASE MachineJoined
  BY <1>5, MachineJoinedKeeps
<1>6. CASE TraitTick
  BY <1>6, TraitTickKeeps
<1>7. CASE Tick
  BY <1>7, TickKeeps
<1>8. CASE UNCHANGED vars
  <2>1. /\ plan' = plan /\ now' = now /\ cluster' = cluster /\ failed' = failed
        /\ instances' = instances /\ capacity' = capacity /\ total' = total
    BY <1>8 DEF vars
  <2> QED BY <2>1 DEF ClusterInv, Numbers, Fine, Good, CountsOk, Dated, Served, RoomOk, ClusterType
<1>9. CASE Finished
  BY <1>8, <1>9 DEF Finished
<1> QED BY <1>1, <1>2, <1>3, <1>4, <1>5, <1>6, <1>7, <1>8, <1>9 DEF Next

\* Between any two events the cluster is in order: its books balance, each workload
\* has the pods it should, the areas are up to date, no pod waits beside room, and
\* the capacities are those applied last.
THEOREM ClusterStaysInOrder == Spec => []ClusterInv
<1> QED BY ClusterInit, ClusterStep, PTL DEF Spec

\* What the books of a machine say is what its pods ask for.
LEMMA BooksExact ==
  ASSUME ClusterInv
  PROVE  ResourcesExact
<1>1. cluster \in ClusterType /\ RoomOk(cluster) /\ Dated(cluster, now, total)
  BY DEF ClusterInv, Fine, Good
<1>2. AreasExact
  BY <1>1 DEF AreasExact, Dated
<1>3. ASSUME NEW m \in Places(cluster), NEW r \in Resources
      PROVE  /\ cluster.machines[m].used[r]
                  = SumFunction([id \in Bound(cluster, m) |-> SizeOf(cluster, id)[r]])
             /\ cluster.machines[m].used[r] <= MachineSize[r]
  <2>1. PICK B : B = Bound(cluster, m)
    OBVIOUS
  <2>2. PICK f : f = [id \in B |-> SizeOf(cluster, id)[r]]
    OBVIOUS
  <2>3. /\ IsFiniteSet(B) /\ B \in SUBSET PodIds(cluster)
        /\ \A id \in B : Asks(cluster, r)[id] \in Int
    BY <1>1, <2>1, LoadTyped
  <2>4. \A id \in B : Asks(cluster, r)[id] = f[id]
    BY <2>2, <2>3 DEF Asks
  <2>5. SumFunctionOnSet(Asks(cluster, r), B) = SumFunctionOnSet(f, B)
    BY <2>3, <2>4, SumOfSame
  <2>6. SumFunction(f) = SumFunctionOnSet(f, B)
    <3>1. DOMAIN f = B
      BY <2>2
    <3> QED BY <3>1 DEF SumFunction, FoldFunction, SumFunctionOnSet
  <2>7. /\ cluster.machines[m].used[r] = Load(cluster, m, r)
        /\ cluster.machines[m].used[r] <= MachineSize[r]
    BY <1>1, <1>3 DEF RoomOk, MachineOk
  <2> QED BY <2>1, <2>2, <2>5, <2>6, <2>7 DEF Load
<1>4. ASSUME NEW m \in Places(cluster), NEW id \in Bound(cluster, m)
      PROVE  cluster.pods[id].state
               \in (IF cluster.machines[m].up THEN {"starting", "ready"} ELSE {"lost"})
  <2>1. id \in PodIds(cluster) /\ cluster.pods[id].machine = m
    BY <1>4 DEF Bound
  <2>2. PodOk(cluster, id) /\ cluster.pods[id] \in PodType
    BY <1>1, <2>1, PodsTyped DEF RoomOk
  <2>3. m # NoMachine
    BY <1>1, <1>4, MachinesTyped DEF NoMachine
  <2>4. cluster.pods[id].state # "pending"
    BY <2>1, <2>2, <2>3 DEF PodOk
  <2>5. cluster.machines[m].up <=> cluster.pods[id].state # "lost"
    BY <2>1, <2>2, <2>4 DEF PodOk
  <2> QED BY <2>2, <2>4, <2>5 DEF PodType
<1>5. MachinesExact
  BY <1>3, <1>4 DEF MachinesExact, Resources
<1> QED BY <1>2, <1>5 DEF ResourcesExact

\* Whatever fails, recovers or is scaled, the room a machine says is used is what the
\* pods on it ask for and no more than it has, pods run on machines that are up, and
\* the areas are the integrals they should be (recordPodStarts, unbind, accrue).
THEOREM ResourcesStayExact == Spec => []ResourcesExact
<1> QED BY ClusterStaysInOrder, BooksExact, PTL

\* A workload always has the number of pods desired, and its node is sized to those
\* that are ready (setScheduledReplicas, applyClusterCapacity).
THEOREM CapacityStaysReady == Spec => []CapacityIsReady
<1>1. ClusterInv => CapacityIsReady
  BY DEF ClusterInv, Fine, CountsOk, CapacityIsReady
<1> QED BY <1>1, ClusterStaysInOrder, PTL

\* No pod is left pending beside a machine with room for it, nor for want of a machine
\* that could be booted (schedulePending, maybeProvisionMachines).
THEOREM NoPodIsLeftWaiting == Spec => []NoPodWaitsBesideRoom
<1>1. ClusterInv => NoPodWaitsBesideRoom
  BY DEF ClusterInv, Served, NoPodWaitsBesideRoom
<1> QED BY <1>1, ClusterStaysInOrder, PTL

=============================================================================
