------------------------------ MODULE Induction ------------------------------
(***************************************************************************)
(* Induction on numbers, on finite sets and on the steps of a fold, in a   *)
(* form that needs no operator as a parameter: what an induction is about  *)
(* is a set.                                                               *)
(***************************************************************************)
EXTENDS Integers, Sequences, SequencesExt, FiniteSetTheorems, TLAPS

LEMMA LeastNat ==
    ASSUME NEW T, T \subseteq Nat, T # {}
    PROVE  \E x \in T : \A y \in T : x <= y
  <1>1. IsWellFoundedOn(OpToRel(<, Nat), Nat)
    BY NatLessThanWellFounded
  <1>2. \E x \in T : \A y \in T : ~(<<y, x>> \in OpToRel(<, Nat))
    BY <1>1, WFMin, Zenon
  <1>3. PICK x \in T : \A y \in T : ~(<<y, x>> \in OpToRel(<, Nat))
    BY <1>2
  <1>4. \A y \in T : ~(y < x)
    BY <1>3 DEF OpToRel
  <1> QED
    BY <1>4

(* What holds of 0 and of k + 1 if of k holds up to n.                     *)
LEMMA UpTo ==
    ASSUME NEW n \in Nat, NEW T, 0 \in T,
           \A k \in Nat : k < n /\ k \in T => k + 1 \in T
    PROVE  \A k \in 0..n : k \in T
  <1> DEFINE Bad == {k \in 0..n : k \notin T}
  <1> SUFFICES ASSUME Bad # {} PROVE FALSE
    OBVIOUS
  <1>0. Bad \subseteq Nat
    OBVIOUS
  <1> HIDE DEF Bad
  <1>1. PICK x \in Bad : \A y \in Bad : x <= y
    BY <1>0, LeastNat
  <1> USE DEF Bad
  <1>2. x # 0 /\ x \in 1..n
    BY <1>1
  <1>3. x - 1 \in T
    BY <1>1, <1>2
  <1>4. x - 1 \in Nat /\ x - 1 < n /\ (x - 1) + 1 = x
    BY <1>2
  <1>5. x \in T
    BY <1>3, <1>4
  <1> QED
    BY <1>1, <1>5

LEMMA MaxOfUpTo ==
    ASSUME NEW n \in Nat, NEW s \in SUBSET (1..n), n \in s
    PROVE  Max(s) = n
  <1>1. \A y \in s : y \in Int /\ n >= y
    OBVIOUS
  <1>2. \A x \in s : (\A y \in s : x >= y) => x = n
    BY <1>1
  <1> QED
    BY <1>1, <1>2 DEF Max

LEMMA MaxInside ==
    ASSUME NEW n \in Nat, NEW s \in SUBSET (1..n), s # {}
    PROVE  Max(s) \in s /\ Max(s) \in 1..n /\ \A y \in s : Max(s) >= y
  <1> DEFINE T == {n - x : x \in s}
  <1>1. T \subseteq Nat /\ T # {}
    OBVIOUS
  <1>2. PICK t \in T : \A y \in T : t <= y
    <2> HIDE DEF T
    <2> QED
      BY <1>1, LeastNat
  <1>3. PICK x \in s : t = n - x
    BY <1>2
  <1>4. \A y \in s : x >= y
    <2> SUFFICES ASSUME NEW y \in s PROVE x >= y
      OBVIOUS
    <2>1. n - y \in T
      OBVIOUS
    <2>2. n - x <= n - y
      BY <1>2, <1>3, <2>1
    <2>3. x \in Int /\ y \in Int
      OBVIOUS
    <2> HIDE DEF T
    <2> QED
      BY <2>2, <2>3
  <1>5. Max(s) \in s /\ \A y \in s : Max(s) >= y
    BY <1>4 DEF Max
  <1> QED
    BY <1>5

LEMMA MinInside ==
    ASSUME NEW s \in SUBSET Nat, s # {}
    PROVE  Min(s) \in s /\ \A y \in s : Min(s) <= y
  <1>1. \E x \in s : \A y \in s : x <= y
    BY LeastNat
  <1> QED
    BY <1>1 DEF Min

LEMMA MinMaxOfTwo ==
    ASSUME NEW a \in Int, NEW b \in Int
    PROVE  /\ Min({a, b}) = (IF a <= b THEN a ELSE b)
           /\ Max({a, b}) = (IF a <= b THEN b ELSE a)
  BY DEF Min, Max
------------------------------------------------------------------------------
(* A fold over n steps, as MapThenFoldSet walks it, is well defined: step  *)
(* number k takes a value of X to step[k] of it.                           *)
Walks(g, n, base, step) ==
    g = [s \in SUBSET (1..n) |-> IF s = {} THEN base ELSE step[Max(s)][g[s \ {Max(s)}]]]

LEMMA WalkExists ==
    ASSUME NEW n \in Nat, NEW X, NEW base \in X, NEW step \in [1..n -> [X -> X]]
    PROVE  \E g \in [SUBSET (1..n) -> X] : Walks(g, n, base, step)
  <1> DEFINE At(g, s) == IF s = {} THEN base ELSE step[Max(s)][g[s \ {Max(s)}]]
             T == {k \in 0..n : \E g \in [SUBSET (1..k) -> X] :
                                  \A s \in SUBSET (1..k) : g[s] = At(g, s)}
  <1>1. 0 \in T
    <2> DEFINE g == [s \in SUBSET (1..0) |-> base]
    <2>1. 1..0 = {}
      OBVIOUS
    <2>2. g \in [SUBSET (1..0) -> X]
      OBVIOUS
    <2>3. \A s \in SUBSET (1..0) : g[s] = At(g, s)
      BY <2>1
    <2>4. 0 \in 0..n
      OBVIOUS
    <2> HIDE DEF g
    <2> QED
      BY <2>2, <2>3, <2>4
  <1>2. ASSUME NEW k \in Nat, k < n, k \in T PROVE k + 1 \in T
    <2>1. PICK g \in [SUBSET (1..k) -> X] : \A s \in SUBSET (1..k) : g[s] = At(g, s)
      BY <1>2
    <2> DEFINE h == [s \in SUBSET (1..(k+1)) |->
                       IF k + 1 \in s THEN step[k + 1][g[s \ {k + 1}]] ELSE g[s]]
    <2>2. \A s \in SUBSET (1..(k+1)) : s \ {k + 1} \in SUBSET (1..k)
      OBVIOUS
    <2>3. \A s \in SUBSET (1..(k+1)) : k + 1 \notin s => s \in SUBSET (1..k)
      OBVIOUS
    <2>4. step[k + 1] \in [X -> X]
      BY <1>2
    <2>5. h \in [SUBSET (1..(k+1)) -> X]
      BY <2>2, <2>3, <2>4
    <2>6. ASSUME NEW s \in SUBSET (1..(k+1)) PROVE h[s] = At(h, s)
      <3>1. CASE k + 1 \in s
        <4>1. Max(s) = k + 1
          BY <3>1, MaxOfUpTo
        <4>2. h[s \ {k + 1}] = g[s \ {k + 1}]
          BY <2>2
        <4> QED
          BY <3>1, <4>1, <4>2
      <3>2. CASE k + 1 \notin s /\ s # {}
        <4>1. s \in SUBSET (1..k)
          BY <2>3, <3>2
        <4>2. h[s] = g[s] /\ g[s] = At(g, s)
          BY <2>1, <3>2, <4>1
        <4>3. s \ {Max(s)} \in SUBSET (1..k) /\ k + 1 \notin s \ {Max(s)}
          BY <4>1, <3>2
        <4>4. h[s \ {Max(s)}] = g[s \ {Max(s)}]
          BY <4>3
        <4> QED
          BY <3>2, <4>2, <4>4
      <3>3. CASE s = {}
        <4>1. s \in SUBSET (1..k) /\ k + 1 \notin s
          BY <3>3
        <4> QED
          BY <2>1, <3>3, <4>1
      <3> QED
        BY <3>1, <3>2, <3>3
    <2> HIDE DEF h
    <2>7. k + 1 \in 0..n
      BY <1>2
    <2> QED
      BY <2>5, <2>6, <2>7
  <1> HIDE DEF T
  <1>3. n \in T
    <2>1. \A k \in 0..n : k \in T
      BY <1>1, <1>2, UpTo
    <2> QED
      BY <2>1
  <1> USE DEF T
  <1>4. PICK g \in [SUBSET (1..n) -> X] : \A s \in SUBSET (1..n) : g[s] = At(g, s)
    BY <1>3
  <1>5. g = [s \in SUBSET (1..n) |-> At(g, s)]
    BY <1>4
  <1> QED
    BY <1>5 DEF Walks

(* What the walk has in hand after k steps: a member of I[k], if the base  *)
(* is one of I[0], and every step leads on from I to I.                    *)
LEMMA WalkInvariant ==
    ASSUME NEW n \in Nat, NEW base, NEW step, NEW g, Walks(g, n, base, step),
           NEW I, base \in I[0],
           \A k \in 1..n : \A v \in I[k - 1] : step[k][v] \in I[k]
    PROVE  g[1..n] \in I[n]
  <1> DEFINE T == {k \in 0..n : g[1..k] \in I[k]}
  <1>1. 0 \in T
    <2>1. 1..0 = {} /\ {} \in SUBSET (1..n)
      OBVIOUS
    <2>2. g[{}] = base
      BY <2>1 DEF Walks
    <2> QED
      BY <2>1, <2>2
  <1>2. ASSUME NEW k \in Nat, k < n, k \in T PROVE k + 1 \in T
    <2>1. 1..(k+1) \in SUBSET (1..n) /\ k + 1 \in 1..(k+1) /\ 1..(k+1) # {}
      <3>1. k + 1 \in 1..(k+1)
        OBVIOUS
      <3>2. \A i \in 1..(k+1) : i \in 1..n
        BY <1>2
      <3> QED
        BY <3>1, <3>2
    <2>2. Max(1..(k+1)) = k + 1
      BY <2>1, MaxOfUpTo
    <2>3. (1..(k+1)) \ {k + 1} = 1..k
      OBVIOUS
    <2>4. g[1..(k+1)] = step[k + 1][g[1..k]]
      BY <2>1, <2>2, <2>3, ZenonT(30) DEF Walks
    <2>5. k + 1 \in 1..n /\ (k + 1) - 1 = k
      BY <1>2
    <2>6. step[k + 1][g[1..k]] \in I[k + 1]
      BY <1>2, <2>5
    <2> QED
      BY <2>4, <2>5, <2>6
  <1> HIDE DEF T
  <1>3. n \in T
    BY <1>1, <1>2, UpTo
  <1> QED
    BY <1>3 DEF T
------------------------------------------------------------------------------
(* What holds of a set if of the set without any one of its members holds  *)
(* of every finite set.                                                    *)
LEMMA OneByOne ==
    ASSUME NEW S, IsFiniteSet(S), NEW Good,
           \A T \in SUBSET S : (\A x \in T : T \ {x} \in Good) => T \in Good
    PROVE  \A T \in SUBSET S : T \in Good
  <1> DEFINE Bad == {Cardinality(T) : T \in (SUBSET S) \ Good}
  <1> SUFFICES ASSUME (SUBSET S) \ Good # {} PROVE FALSE
    OBVIOUS
  <1>1. Bad \subseteq Nat /\ Bad # {}
    BY FS_Subset, FS_CardinalityType
  <1>2. PICK n \in Bad : \A m \in Bad : n <= m
    <2> HIDE DEF Bad
    <2> QED
      BY <1>1, LeastNat
  <1>3. PICK T \in (SUBSET S) \ Good : n = Cardinality(T)
    BY <1>2
  <1>4. IsFiniteSet(T) /\ n \in Nat
    BY <1>3, FS_Subset, FS_CardinalityType
  <1>5. ASSUME NEW x \in T, T \ {x} \notin Good PROVE FALSE
    <2>1. Cardinality(T \ {x}) = n - 1
      BY <1>3, <1>4, FS_RemoveElement
    <2>2. T \ {x} \in (SUBSET S) \ Good
      BY <1>3, <1>5
    <2>3. Cardinality(T \ {x}) \in Bad
      BY <2>2
    <2>4. n <= n - 1
      <3> HIDE DEF Bad
      <3> QED
        BY <1>2, <2>1, <2>3
    <2> QED
      BY <1>4, <2>4
  <1> QED
    BY <1>3, <1>5

(* The sum of the values that f has on S.                                  *)
SumOver(f, S) == MapThenSumSet(LAMBDA i : f[i], S)

First(s) == CHOOSE x \in s : TRUE
Adds(g, f, S) ==
    g = [s \in SUBSET S |-> IF s = {} THEN 0 ELSE f[First(s)] + g[s \ {First(s)}]]

Summable(f, S) == IsFiniteSet(S) /\ \A x \in S : f[x] \in Nat
SumsUp(g, f, S) ==
    Adds(g, f, S) /\ g \in [SUBSET S -> Nat] /\ \A T \in SUBSET S : SumOver(f, T) = g[T]

LEMMA FirstIn == ASSUME NEW s, s # {} PROVE First(s) \in s
  BY DEF First

(* What is added up depends on what the values are, and on nothing else.   *)
LEMMA AddsSame ==
    ASSUME NEW S, IsFiniteSet(S), NEW R, NEW Q, S \subseteq R, S \subseteq Q,
           NEW f, NEW e, \A x \in S : f[x] = e[x],
           NEW g, Adds(g, f, R), NEW h, Adds(h, e, Q)
    PROVE  g[S] = h[S]
  <1> DEFINE Good == {T \in SUBSET S : g[T] = h[T]}
  <1>1. ASSUME NEW T \in SUBSET S, \A x \in T : T \ {x} \in Good
        PROVE  T \in Good
    <2>1. /\ g[T] = IF T = {} THEN 0 ELSE f[First(T)] + g[T \ {First(T)}]
          /\ h[T] = IF T = {} THEN 0 ELSE e[First(T)] + h[T \ {First(T)}]
      <3>1. T \in SUBSET R /\ T \in SUBSET Q
        OBVIOUS
      <3>2. g[T] = IF T = {} THEN 0 ELSE f[First(T)] + g[T \ {First(T)}]
        BY <3>1 DEF Adds
      <3>3. h[T] = IF T = {} THEN 0 ELSE e[First(T)] + h[T \ {First(T)}]
        BY <3>1 DEF Adds
      <3> QED
        BY <3>2, <3>3
    <2>2. CASE T = {}
      BY <2>1, <2>2
    <2>3. CASE T # {}
      <3>1. First(T) \in T
        BY <2>3, FirstIn
      <3>2. f[First(T)] = e[First(T)] /\ g[T \ {First(T)}] = h[T \ {First(T)}]
        BY <1>1, <3>1
      <3> QED
        BY <2>1, <3>2
    <2> QED
      BY <2>2, <2>3
  <1> HIDE DEF Good
  <1>2. S \in Good
    <2>1. \A T \in SUBSET S : T \in Good
      BY <1>1, OneByOne
    <2> QED
      BY <2>1
  <1> QED
    BY <1>2 DEF Good

LEMMA AdderExists ==
    ASSUME NEW S, IsFiniteSet(S), NEW f, \A x \in S : f[x] \in Nat
    PROVE  \E g \in [SUBSET S -> Nat] : Adds(g, f, S)
  <1> DEFINE Good == {T \in SUBSET S : \E g \in [SUBSET T -> Nat] : Adds(g, f, T)}
  <1>1. ASSUME NEW T \in SUBSET S, \A x \in T : T \ {x} \in Good
        PROVE  T \in Good
    <2>1. CASE T = {}
      <3> DEFINE g == [s \in SUBSET T |-> 0]
      <3>1. g \in [SUBSET T -> Nat] /\ Adds(g, f, T)
        BY <2>1 DEF Adds
      <3> QED
        BY <3>1
    <2>2. CASE T # {}
      <3> DEFINE h(x) == CHOOSE h \in [SUBSET (T \ {x}) -> Nat] : Adds(h, f, T \ {x})
                 Out(s) == First(T \ s)
                 p == First(T)
                 g == [s \in SUBSET T |->
                         IF s = T THEN f[p] + h(p)[T \ {p}] ELSE h(Out(s))[s]]
      <3>1. \A x \in T : h(x) \in [SUBSET (T \ {x}) -> Nat] /\ Adds(h(x), f, T \ {x})
        BY <1>1
      <3>2. \A s \in SUBSET T : s # T => Out(s) \in T /\ s \in SUBSET (T \ {Out(s)})
        <4> SUFFICES ASSUME NEW s \in SUBSET T, s # T
                     PROVE  Out(s) \in T \ s
          OBVIOUS
        <4>1. T \ s # {}
          OBVIOUS
        <4> QED
          BY <4>1, FirstIn
      <3>3. p \in T /\ f[p] \in Nat
        BY <2>2, FirstIn
      <3> HIDE DEF h, Out, p
      <3>4. g \in [SUBSET T -> Nat]
        <4> SUFFICES ASSUME NEW s \in SUBSET T
                     PROVE  (IF s = T THEN f[p] + h(p)[T \ {p}] ELSE h(Out(s))[s]) \in Nat
          OBVIOUS
        <4>1. CASE s = T
          <5>1. h(p)[T \ {p}] \in Nat
            BY <3>1, <3>3
          <5> QED
            BY <3>3, <4>1, <5>1
        <4>2. CASE s # T
          <5>1. /\ Out(s) \in T /\ s \in SUBSET (T \ {Out(s)})
                /\ h(Out(s)) \in [SUBSET (T \ {Out(s)}) -> Nat]
            BY <3>1, <3>2, <4>2
          <5> QED
            BY <4>2, <5>1
        <4> QED
          BY <4>1, <4>2
      <3>5. ASSUME NEW s \in SUBSET T, NEW x \in T, s \in SUBSET (T \ {x}), s # T
            PROVE  g[s] = h(x)[s]
        <4>1. g[s] = h(Out(s))[s]
          BY <3>5
        <4>2. IsFiniteSet(s)
          <5>1. s \in SUBSET S
            OBVIOUS
          <5> QED
            BY <5>1, FS_Subset
        <4>3. /\ Out(s) \in T /\ s \subseteq T \ {Out(s)} /\ s \subseteq T \ {x}
              /\ Adds(h(Out(s)), f, T \ {Out(s)}) /\ Adds(h(x), f, T \ {x})
          BY <3>1, <3>2, <3>5
        <4>4. h(Out(s))[s] = h(x)[s]
          BY <4>2, <4>3, AddsSame
        <4> QED
          BY <4>1, <4>4
      <3>6. ASSUME NEW s \in SUBSET T
            PROVE  g[s] = IF s = {} THEN 0 ELSE f[First(s)] + g[s \ {First(s)}]
        <4>1. CASE s = T
          <5>1. g[T] = f[p] + h(p)[T \ {p}]
            OBVIOUS
          <5>2. T \ {p} \in SUBSET T /\ T \ {p} \in SUBSET (T \ {p}) /\ T \ {p} # T
            BY <3>3
          <5>3. g[T \ {p}] = h(p)[T \ {p}]
            BY <3>3, <3>5, <5>2
          <5> QED
            BY <2>2, <4>1, <5>1, <5>3 DEF p
        <4>2. CASE s # T
          <5> DEFINE x == Out(s)
          <5>1. x \in T /\ s \in SUBSET (T \ {x}) /\ Adds(h(x), f, T \ {x})
            BY <3>1, <3>2, <4>2
          <5>2. g[s] = h(x)[s]
            BY <3>5, <4>2, <5>1
          <5>3. h(x)[s] = IF s = {} THEN 0 ELSE f[First(s)] + h(x)[s \ {First(s)}]
            BY <5>1 DEF Adds
          <5>4. ASSUME s # {} PROVE g[s \ {First(s)}] = h(x)[s \ {First(s)}]
            <6>1. First(s) \in s
              BY <5>4, FirstIn
            <6>2. s \ {First(s)} \in SUBSET T /\ s \ {First(s)} \in SUBSET (T \ {x}) /\ s \ {First(s)} # T
              BY <5>1, <6>1
            <6> QED
              BY <3>5, <5>1, <6>2
          <5> HIDE DEF x, g
          <5> QED
            BY <5>2, <5>3, <5>4
        <4> QED
          BY <4>1, <4>2
      <3>7. Adds(g, f, T)
        <4>1. g = [s \in SUBSET T |-> g[s]]
          OBVIOUS
        <4> HIDE DEF g
        <4>2. [s \in SUBSET T |-> g[s]] =
                [s \in SUBSET T |-> IF s = {} THEN 0 ELSE f[First(s)] + g[s \ {First(s)}]]
          BY <3>6
        <4> QED
          BY <4>1, <4>2 DEF Adds
      <3> QED
        BY <3>4, <3>7
    <2> QED
      BY <2>1, <2>2
  <1> HIDE DEF Good
  <1>2. S \in Good
    <2>1. \A T \in SUBSET S : T \in Good
      BY <1>1, OneByOne
    <2> QED
      BY <2>1
  <1> QED
    BY <1>2 DEF Good

LEMMA SumIs ==
    ASSUME NEW S, NEW f, Summable(f, S)
    PROVE  \E g : SumsUp(g, f, S)
  <1>0. IsFiniteSet(S) /\ \A x \in S : f[x] \in Nat
    BY DEF Summable
  <1>1. PICK g \in [SUBSET S -> Nat] : Adds(g, f, S)
    BY <1>0, AdderExists
  <1>2. ASSUME NEW T \in SUBSET S PROVE SumOver(f, T) = g[T]
    <2> DEFINE Eq(h) == h = [s \in SUBSET T |->
                               IF s = {} THEN 0
                               ELSE f[CHOOSE x \in s : TRUE] + h[s \ {CHOOSE x \in s : TRUE}]]
               iter == CHOOSE h : Eq(h)
    <2>1. SumOver(f, T) = iter[T]
      BY DEF SumOver, MapThenSumSet, MapThenFoldSet
    <2>2. IsFiniteSet(T) /\ \A x \in T : f[x] \in Nat
      BY <1>0, FS_Subset
    <2>3. PICK h : Adds(h, f, T)
      BY <2>2, AdderExists
    <2>4. Eq(h)
      BY <2>3 DEF Adds, First
    <2>5. Eq(iter)
      BY <2>4
    <2> HIDE DEF iter
    <2>6. Adds(iter, f, T)
      BY <2>5 DEF Adds, First
    <2>7. iter[T] = g[T]
      BY <1>1, <2>2, <2>6, AddsSame
    <2> QED
      BY <2>1, <2>7
  <1> QED
    BY <1>1, <1>2 DEF SumsUp

LEMMA SumType ==
    ASSUME NEW S, NEW f, Summable(f, S)
    PROVE  SumOver(f, S) \in Nat
  <1>1. PICK g : SumsUp(g, f, S)
    BY SumIs
  <1> QED
    BY <1>1 DEF SumsUp

LEMMA SumEmpty == ASSUME NEW f PROVE SumOver(f, {}) = 0
  <1>1. PICK g : SumsUp(g, f, {})
    BY SumIs, FS_EmptySet DEF Summable
  <1> QED
    BY <1>1 DEF SumsUp, Adds

LEMMA SumSame ==
    ASSUME NEW S, NEW f, NEW e, Summable(f, S), \A x \in S : f[x] = e[x]
    PROVE  SumOver(f, S) = SumOver(e, S)
  <1>1. PICK g : SumsUp(g, f, S)
    BY SumIs
  <1>2. PICK h : SumsUp(h, e, S)
    BY SumIs DEF Summable
  <1>3. g[S] = h[S]
    BY <1>1, <1>2, AddsSame DEF Summable, SumsUp
  <1> QED
    BY <1>1, <1>2, <1>3 DEF SumsUp

(* Any of the summands may be taken out first.                             *)
LEMMA SumRemove ==
    ASSUME NEW S, NEW f, Summable(f, S), NEW y \in S
    PROVE  SumOver(f, S) = f[y] + SumOver(f, S \ {y})
  <1>1. PICK g : SumsUp(g, f, S)
    BY SumIs DEF Summable
  <1>0. IsFiniteSet(S) /\ Adds(g, f, S) /\ g \in [SUBSET S -> Nat] /\ \A x \in S : f[x] \in Nat
    BY <1>1 DEF Summable, SumsUp
  <1> DEFINE Good == {T \in SUBSET S : \A x \in T : g[T] = f[x] + g[T \ {x}]}
  <1>2. ASSUME NEW T \in SUBSET S, \A x \in T : T \ {x} \in Good
        PROVE  T \in Good
    <2> SUFFICES ASSUME NEW x \in T PROVE g[T] = f[x] + g[T \ {x}]
      OBVIOUS
    <2> DEFINE p == First(T)
    <2>1. p \in T /\ g[T] = f[p] + g[T \ {p}]
      <3>1. p \in T
        BY FirstIn
      <3> QED
        BY <1>0, <3>1 DEF Adds
    <2> HIDE DEF p
    <2>2. CASE x = p
      BY <2>1, <2>2
    <2>3. CASE x # p
      <3>1. g[T \ {p}] = f[x] + g[(T \ {p}) \ {x}]
        BY <1>2, <2>1, <2>3
      <3>2. g[T \ {x}] = f[p] + g[(T \ {x}) \ {p}]
        BY <1>2, <2>1, <2>3
      <3>3. (T \ {p}) \ {x} = (T \ {x}) \ {p} /\ (T \ {x}) \ {p} \in SUBSET S
        OBVIOUS
      <3>4. f[x] \in Nat /\ f[p] \in Nat /\ g[(T \ {x}) \ {p}] \in Nat
        BY <1>0, <2>1, <3>3
      <3> HIDE DEF Good
      <3>5. \A a, b, c \in Nat : a + (b + c) = b + (a + c)
        OBVIOUS
      <3>6. g[T] = f[p] + (f[x] + g[(T \ {x}) \ {p}])
        BY <2>1, <3>1, <3>3
      <3> QED
        BY <3>2, <3>4, <3>5, <3>6
    <2> QED
      BY <2>2, <2>3
  <1> HIDE DEF Good
  <1>3. S \in Good
    <2>1. \A T \in SUBSET S : T \in Good
      BY <1>0, <1>2, OneByOne
    <2> QED
      BY <2>1
  <1>4. g[S] = f[y] + g[S \ {y}]
    BY <1>3 DEF Good
  <1> QED
    BY <1>1, <1>4 DEF SumsUp

LEMMA SumZero ==
    ASSUME NEW S, NEW f, IsFiniteSet(S), \A x \in S : f[x] = 0
    PROVE  SumOver(f, S) = 0
  <1>1. PICK g : SumsUp(g, f, S)
    BY SumIs DEF Summable
  <1>0. IsFiniteSet(S) /\ Adds(g, f, S)
    BY <1>1 DEF SumsUp
  <1> DEFINE Good == {T \in SUBSET S : g[T] = 0}
  <1>2. ASSUME NEW T \in SUBSET S, \A x \in T : T \ {x} \in Good
        PROVE  T \in Good
    <2>1. g[T] = IF T = {} THEN 0 ELSE f[First(T)] + g[T \ {First(T)}]
      BY <1>0 DEF Adds
    <2>2. T # {} => First(T) \in T
      BY FirstIn
    <2> QED
      BY <1>2, <2>1, <2>2
  <1> HIDE DEF Good
  <1>3. S \in Good
    <2>1. \A T \in SUBSET S : T \in Good
      BY <1>0, <1>2, OneByOne
    <2> QED
      BY <2>1
  <1> QED
    BY <1>1, <1>3 DEF Good, SumsUp
==============================================================================
