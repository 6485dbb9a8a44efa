--------------------------- MODULE ContainerProofs ---------------------------
(***************************************************************************)
(* Facts about the tool chain's parts that are proved once: its loops and   *)
(* the positions they keep, the runtime module of any manifest, and the     *)
(* container of any module, what is read of it and what is made of it again. *)
(***************************************************************************)
EXTENDS ToolChain, FiniteSetTheorems, SequenceTheorems, WellFoundedInduction, TLAPS

-----------------------------------------------------------------------------
(* Numbers, loops and positions.                                            *)

(* A set of natural numbers has a least element.                             *)
LEMMA Least ==
  ASSUME NEW T \in SUBSET Nat, T # {}
  PROVE  \E m \in T : \A x \in T : m <= x
<1> DEFINE S == {0 .. n : n \in T}
<1>1. PICK top \in T : TRUE
  OBVIOUS
<1> DEFINE U == {s \in S : s \subseteq 0 .. top}
<1>2. U \subseteq FiniteSubsetsOf(0 .. top) /\ U # {}
  <2>1. 0 .. top \in U
    OBVIOUS
  <2>2. FiniteSubsetsOf(0 .. top) = SUBSET (0 .. top)
    <3>1. IsFiniteSet(0 .. top)
      BY FS_Interval
    <3>2. QED
      BY <3>1, FS_FiniteSubsetsOfFinite
  <2>3. QED
    BY <2>1, <2>2
<1>3. PICK s \in U : \A y \in U : <<y, s>> \notin StrictSubsetOrdering(0 .. top)
  <2> HIDE DEF U
  <2>1. QED
    BY <1>2, FS_StrictSubsetOrderingWellFounded, WFMin
<1>4. PICK m \in T : s = 0 .. m
  OBVIOUS
<1>5. ASSUME NEW x \in T, x < m PROVE FALSE
  <2>1. 0 .. x \in U
    BY <1>3, <1>4, <1>5
  <2>2. 0 .. x \subseteq 0 .. m /\ 0 .. x # 0 .. m
    <3>1. m \in 0 .. m /\ m \notin 0 .. x
      BY <1>5
    <3>2. QED
      BY <1>5, <3>1
  <2>3. 0 .. x \in SUBSET (0 .. top) /\ 0 .. m \in SUBSET (0 .. top)
    BY <1>3, <1>4, <2>1
  <2>4. <<0 .. x, 0 .. m>> \in StrictSubsetOrdering(0 .. top)
    BY <2>2, <2>3 DEF StrictSubsetOrdering
  <2>5. QED
    BY <1>3, <1>4, <2>1, <2>4
<1>6. QED
  BY <1>5

(* Induction, with a set in the place of the predicate.                      *)
LEMMA Induction ==
  ASSUME NEW S, 0 \in S, \A n \in Nat : n \in S => n + 1 \in S
  PROVE  \A n \in Nat : n \in S
<1> SUFFICES ASSUME NEW k \in Nat, k \notin S PROVE FALSE
  OBVIOUS
<1>1. PICK m \in Nat \ S : \A x \in Nat \ S : m <= x
  BY Least
<1>2. m # 0 /\ m - 1 \in Nat /\ m - 1 \in S
  BY <1>1
<1>3. QED
  BY <1>1, <1>2

(* What a loop computes exists: a function over its turns, given what each    *)
(* turn makes of the state before it.                                        *)
Turns(S, n) == [1 .. n -> [S -> S]]
Loops(S, start, n, step, f) ==
  f \in [0 .. n -> S] /\ f[0] = start /\ \A i \in 1 .. n : f[i] = step[i][f[i - 1]]

(* The turns of a loop can be taken one after the other to the last.         *)
LEMMA Iteration ==
  ASSUME NEW S, NEW start \in S, NEW n \in Nat, NEW step \in Turns(S, n)
  PROVE  \E f : Loops(S, start, n, step, f)
<1> USE DEF Turns
<1> DEFINE Partial(k, f) == f[0] = start /\ \A i \in 1 .. k : f[i] = step[i][f[i - 1]]
           Reached == {k \in Nat : k <= n => \E f \in [0 .. k -> S] : Partial(k, f)}
<1>1. 0 \in Reached
  <2>1. [i \in 0 .. 0 |-> start] \in [0 .. 0 -> S] /\ Partial(0, [i \in 0 .. 0 |-> start])
    OBVIOUS
  <2>2. QED
    BY <2>1
<1>2. ASSUME NEW k \in Nat, k \in Reached PROVE k + 1 \in Reached
  <2> SUFFICES ASSUME k + 1 <= n PROVE \E f \in [0 .. k + 1 -> S] : Partial(k + 1, f)
    OBVIOUS
  <2>1. PICK f \in [0 .. k -> S] : Partial(k, f)
    BY <1>2
  <2> DEFINE g == [i \in 0 .. k + 1 |-> IF i = k + 1 THEN step[k + 1][f[k]] ELSE f[i]]
  <2>2. f[k] \in S /\ step[k + 1] \in [S -> S]
    OBVIOUS
  <2>3. g \in [0 .. k + 1 -> S]
    BY <2>2
  <2>4. \A i \in 1 .. k : g[i] = f[i] /\ g[i - 1] = f[i - 1]
    OBVIOUS
  <2>5. g[0] = f[0] /\ g[k + 1] = step[k + 1][f[k]] /\ g[k] = f[k]
    OBVIOUS
  <2> HIDE DEF g
  <2>6. Partial(k + 1, g)
    <3>1. \A i \in 1 .. k + 1 : i \in 1 .. k \/ i = k + 1
      OBVIOUS
    <3>2. QED
      BY <2>1, <2>4, <2>5, <3>1
  <2>7. QED
    BY <2>3, <2>6
<1>3. n \in Reached
  <2> HIDE DEF Reached
  <2>1. QED
    BY <1>1, <1>2, Induction
<1>4. QED
  BY <1>3 DEF Loops

(* What holds at the start of a loop and is kept by each turn holds after all.  *)
LEMMA Invariance ==
  ASSUME NEW S, NEW n \in Nat, NEW f, f[0] \in S, \A i \in 1 .. n : f[i - 1] \in S => f[i] \in S
  PROVE  \A i \in 0 .. n : f[i] \in S
<1> DEFINE Good == {k \in Nat : k <= n => f[k] \in S}
<1>1. 0 \in Good
  OBVIOUS
<1>2. \A k \in Nat : k \in Good => k + 1 \in Good
  <2>1. SUFFICES ASSUME NEW k \in Nat, k + 1 <= n, f[k] \in S PROVE f[k + 1] \in S
    OBVIOUS
  <2>2. k + 1 \in 1 .. n /\ (k + 1) - 1 = k
    BY <2>1
  <2>3. QED
    BY <2>1, <2>2
<1>3. \A k \in Nat : k \in Good
  <2> HIDE DEF Good
  <2>1. QED
    BY <1>1, <1>2, Induction
<1>4. QED
  BY <1>3

(* A cursor that no turn takes back does not go back.                        *)
LEMMA Monotone ==
  ASSUME NEW n \in Nat, NEW f, \A i \in 0 .. n : f[i] \in Int, \A i \in 1 .. n : f[i - 1] <= f[i]
  PROVE  \A i, j \in 0 .. n : i <= j => f[i] <= f[j]
<1>1. SUFFICES ASSUME NEW i \in 0 .. n PROVE \A j \in 0 .. n : i <= j => f[i] <= f[j]
  OBVIOUS
<1> DEFINE Ahead == {k \in Nat : k <= n /\ i <= k => f[i] <= f[k]}
<1>2. 0 \in Ahead
  BY <1>1
<1>3. ASSUME NEW k \in Nat, k \in Ahead PROVE k + 1 \in Ahead
  <2>1. SUFFICES ASSUME k + 1 <= n, i <= k + 1 PROVE f[i] <= f[k + 1]
    OBVIOUS
  <2>2. CASE i = k + 1
    BY <2>1, <2>2
  <2>3. CASE i <= k
    <3>1. f[i] <= f[k]
      BY <1>3, <2>1, <2>3
    <3>2. f[(k + 1) - 1] <= f[k + 1] /\ (k + 1) - 1 = k
      BY <2>1
    <3>3. f[k] \in Int /\ f[k + 1] \in Int /\ f[i] \in Int
      BY <2>1, <2>3
    <3>4. QED
      BY <3>1, <3>2, <3>3
  <2>4. QED
    BY <2>1, <2>2, <2>3
<1>4. \A k \in Nat : k \in Ahead
  <2> HIDE DEF Ahead
  <2>1. QED
    BY <1>2, <1>3, Induction
<1>5. QED
  BY <1>4

(* Extrema of sets of numbers.                                               *)
LEMMA MinIs ==
  ASSUME NEW T \in SUBSET Nat, T # {}
  PROVE  Min(T) \in T /\ \A x \in T : Min(T) <= x
<1>1. \E m \in T : \A x \in T : m <= x
  BY Least
<1>2. QED
  BY <1>1 DEF Min

(* A bounded set of integers has a maximum.                                  *)
LEMMA MaxIs ==
  ASSUME NEW T \in SUBSET Int, T # {}, NEW b \in Int, \A x \in T : x <= b
  PROVE  Max(T) \in T /\ \A x \in T : x <= Max(T)
<1> DEFINE U == {b - x : x \in T}
<1>1. U \in SUBSET Nat /\ U # {}
  <2>1. PICK y \in T : TRUE
    OBVIOUS
  <2>2. b - y \in U
    BY <2>1
  <2>3. ASSUME NEW x \in T PROVE b - x \in Nat
    <3>1. x \in Int /\ x <= b
      OBVIOUS
    <3>2. QED
      BY <3>1
  <2>4. QED
    BY <2>2, <2>3
<1>2. PICK d \in U : \A y \in U : d <= y
  <2> HIDE DEF U
  <2>1. QED
    BY <1>1, Least
<1>3. PICK m \in T : d = b - m
  OBVIOUS
<1>4. \A x \in T : m >= x
  <2>1. TAKE x \in T
  <2>2. b - m <= b - x
    BY <1>2, <1>3
  <2>3. m \in Int /\ x \in Int
    OBVIOUS
  <2> HIDE DEF U
  <2>4. QED
    BY <2>2, <2>3
<1>5. Max(T) \in T /\ \A x \in T : Max(T) >= x
  BY <1>4 DEF Max
<1>6. QED
  BY <1>5

(* InOrder lists the positions of a set, each once and in their order.       *)
LEMMA InOrderIs ==
  ASSUME NEW n \in Nat, NEW S \in SUBSET (1 .. n)
  PROVE  /\ IsFiniteSet(S) /\ Cardinality(S) \in Nat /\ Cardinality(S) <= n
         /\ InOrder(S) \in [1 .. Cardinality(S) -> S]
         /\ \A k \in 1 .. Cardinality(S) : Cardinality(Before(S, InOrder(S)[k])) = k - 1
         /\ \A i \in S : \E k \in 1 .. Cardinality(S) : InOrder(S)[k] = i
         /\ \A j, k \in 1 .. Cardinality(S) : j < k => InOrder(S)[j] < InOrder(S)[k]
<1> DEFINE rank == [i \in S |-> Cardinality(Before(S, i))]
           N == Cardinality(S)
<1>1. IsFiniteSet(S) /\ N \in Nat /\ N <= n
  <2>1. IsFiniteSet(1 .. n) /\ Cardinality(1 .. n) = n
    BY FS_Interval
  <2>2. QED
    BY <2>1, FS_Subset, FS_CardinalityType
<1>2. \A i \in S : Before(S, i) \in SUBSET S /\ IsFiniteSet(Before(S, i)) /\ Cardinality(Before(S, i)) \in Nat
  BY <1>1, FS_Subset, FS_CardinalityType DEF Before
<1>3. ASSUME NEW i \in S, NEW j \in S, i < j PROVE rank[i] < rank[j]
  <2>1. Before(S, i) \cup {i} \in SUBSET Before(S, j) /\ i \notin Before(S, i)
    <3>1. \A x \in S : x \in Int
      OBVIOUS
    <3>2. \A x \in S : x < i => x < j
      BY <1>3, <3>1
    <3>3. i \in Before(S, j) /\ i \notin Before(S, i)
      BY <1>3, <3>1 DEF Before
    <3>4. Before(S, i) \subseteq Before(S, j)
      BY <3>2 DEF Before
    <3>5. QED
      BY <3>3, <3>4
  <2>2. Cardinality(Before(S, i) \cup {i}) = Cardinality(Before(S, i)) + 1
    BY <1>2, <2>1, FS_AddElement
  <2>3. Cardinality(Before(S, i) \cup {i}) <= Cardinality(Before(S, j))
    BY <1>2, <2>1, FS_Subset
  <2>4. QED
    BY <1>2, <2>2, <2>3
<1>4. rank \in [S -> 0 .. N - 1]
  <2>1. ASSUME NEW i \in S PROVE Cardinality(Before(S, i)) < N
    <3>1. i \notin Before(S, i) /\ Before(S, i) \in SUBSET S
      BY DEF Before
    <3>2. Cardinality(Before(S, i)) <= N /\ Cardinality(Before(S, i)) # N
      BY <1>1, <3>1, FS_Subset
    <3>3. QED
      BY <1>1, <1>2, <3>2
  <2>2. QED
    BY <1>1, <1>2, <2>1
<1>5. \A i, j \in S : rank[i] = rank[j] => i = j
  <2>1. SUFFICES ASSUME NEW i \in S, NEW j \in S, rank[i] = rank[j], i # j PROVE FALSE
    OBVIOUS
  <2>2. i < j \/ j < i
    BY <2>1
  <2>3. rank[i] \in Nat /\ rank[j] \in Nat
    BY <1>2
  <2> HIDE DEF rank
  <2>4. QED
    BY <1>3, <2>1, <2>2, <2>3
<1>6. \A k \in 0 .. N - 1 : \E i \in S : rank[i] = k
  <2>1. rank \in Injection(S, 0 .. N - 1)
    BY <1>4, <1>5 DEF Injection, IsInjective
  <2>2. IsFiniteSet(0 .. N - 1) /\ Cardinality(0 .. N - 1) = N
    <3>1. N - 1 \in Int /\ (0 > N - 1 <=> N = 0)
      BY <1>1
    <3>2. QED
      BY <1>1, <3>1, FS_Interval, SMTT(30)
  <2>3. rank \in Surjection(S, 0 .. N - 1)
    <3> HIDE DEF rank
    <3>1. QED
      BY <1>1, <2>1, <2>2, FS_Injection
  <2>4. QED
    <3> HIDE DEF rank
    <3>1. QED
      BY <2>3 DEF Surjection
<1>7. ASSUME NEW k \in 1 .. N
      PROVE  InOrder(S)[k] \in S /\ rank[InOrder(S)[k]] = k - 1
  <2>1. \E i \in S : Cardinality(Before(S, i)) = k - 1
    BY <1>1, <1>6
  <2>2. InOrder(S)[k] = CHOOSE i \in S : Cardinality(Before(S, i)) = k - 1
    BY DEF InOrder
  <2>3. QED
    BY <2>1, <2>2
<1>8. InOrder(S) \in [1 .. N -> S]
  BY <1>7 DEF InOrder
<1>9. \A i \in S : \E k \in 1 .. N : InOrder(S)[k] = i
  <2>1. TAKE i \in S
  <2>2. rank[i] + 1 \in 1 .. N
    BY <1>1, <1>4
  <2>3. InOrder(S)[rank[i] + 1] \in S /\ rank[InOrder(S)[rank[i] + 1]] = rank[i]
    <3>1. (rank[i] + 1) - 1 = rank[i]
      BY <1>4
    <3> HIDE DEF rank, N
    <3>2. QED
      BY <1>7, <2>2, <3>1
  <2>4. InOrder(S)[rank[i] + 1] = i
    BY <1>5, <2>3
  <2>5. QED
    BY <2>2, <2>4
<1>10. ASSUME NEW j \in 1 .. N, NEW k \in 1 .. N, j < k PROVE InOrder(S)[j] < InOrder(S)[k]
  <2>1. InOrder(S)[j] \in S /\ InOrder(S)[k] \in S
    BY <1>7
  <2>2. rank[InOrder(S)[j]] = j - 1 /\ rank[InOrder(S)[k]] = k - 1
    BY <1>7
  <2>3. InOrder(S)[j] # InOrder(S)[k]
    BY <1>1, <1>10, <2>2
  <2>4. ~(InOrder(S)[k] < InOrder(S)[j])
    <3>1. ~(k - 1 < j - 1)
      BY <1>1, <1>10
    <3> HIDE DEF rank, N
    <3>2. QED
      BY <1>3, <2>1, <2>2, <3>1
  <2>5. InOrder(S)[j] \in Int /\ InOrder(S)[k] \in Int
    <3>1. \A x \in S : x \in Int
      OBVIOUS
    <3>2. QED
      BY <2>1, <3>1
  <2>6. QED
    BY <2>3, <2>4, <2>5
<1>11. QED
  BY <1>1, <1>7, <1>8, <1>9, <1>10

-----------------------------------------------------------------------------
(* The runtime module.                                                      *)

(* The builder's cursor is rounded up to a multiple of eight.                *)
LEMMA AlignedIs ==
  ASSUME NEW c \in Nat
  PROVE  Aligned(c) \in Nat /\ Aligned(c) >= c /\ Aligned(c) % 8 = 0
BY DEF Aligned

(* The storage cursor, as the loop over the exported objects moves it.       *)
LEMMA CursorsAre ==
  ASSUME NEW sizes \in Seq(Nat), NEW start \in Nat
  PROVE  LET c == Cursors(sizes, start)  n == Len(sizes)
         IN  /\ c \in [0 .. n -> Nat] /\ c[0] = start
             /\ \A i \in 1 .. n : c[i] = Aligned(c[i - 1]) + Room(sizes[i])
             /\ \A i, j \in 0 .. n : i <= j => c[i] <= c[j]
<1> DEFINE n == Len(sizes)
           Turn(f) == [i \in 0 .. n |-> IF i = 0 THEN start ELSE Aligned(f[i - 1]) + Room(sizes[i])]
           step == [i \in 1 .. n |-> [x \in Nat |-> Aligned(x) + Room(sizes[i])]]
           c == Cursors(sizes, start)
<1>1. n \in Nat /\ \A i \in 1 .. n : sizes[i] \in Nat /\ Room(sizes[i]) \in Nat
  BY DEF Room
<1>2. step \in Turns(Nat, n)
  <2>1. ASSUME NEW i \in 1 .. n, NEW x \in Nat PROVE Aligned(x) + Room(sizes[i]) \in Nat
    <3>1. Aligned(x) \in Nat /\ Room(sizes[i]) \in Nat
      BY <1>1, AlignedIs
    <3>2. QED
      BY <3>1
  <2> HIDE DEF n
  <2>2. QED
    BY <2>1 DEF Turns
<1>3. PICK f : Loops(Nat, start, n, step, f)
  <2>1. n \in Nat
    BY <1>1
  <2> HIDE DEF step, n
  <2>2. QED
    BY <2>1, <1>2, Iteration
<1>4. f = Turn(f)
  <2>1. \A i \in 0 .. n : f[i] = Turn(f)[i]
    <3>1. SUFFICES ASSUME NEW i \in 0 .. n PROVE f[i] = Turn(f)[i]
      OBVIOUS
    <3>2. CASE i = 0
      BY <1>3, <3>2 DEF Loops
    <3>3. CASE i # 0
      <4>1. i \in 1 .. n /\ i - 1 \in 0 .. n
        BY <1>1, <3>3
      <4>2. f[i - 1] \in Nat
        BY <1>3, <4>1 DEF Loops
      <4>3. f[i] = step[i][f[i - 1]] /\ step[i][f[i - 1]] = Aligned(f[i - 1]) + Room(sizes[i])
        BY <1>3, <4>1, <4>2 DEF Loops
      <4>4. QED
        BY <4>1, <4>3
    <3>4. QED
      BY <3>2, <3>3
  <2>2. f \in [0 .. n -> Nat]
    BY <1>3 DEF Loops
  <2>3. QED
    BY <2>1, <2>2
<1>5. c = Turn(c)
  <2>1. c = CHOOSE g : g = Turn(g)
    BY DEF Cursors
  <2> HIDE DEF Turn, c
  <2>2. QED
    BY <1>4, <2>1
<1>6. c[0] = start /\ \A i \in 1 .. n : c[i] = Aligned(c[i - 1]) + Room(sizes[i])
  <2>1. 0 \in 0 .. n /\ \A i \in 1 .. n : i \in 0 .. n /\ i # 0
    BY <1>1
  <2>2. \A i \in 0 .. n : Turn(c)[i] = IF i = 0 THEN start ELSE Aligned(c[i - 1]) + Room(sizes[i])
    OBVIOUS
  <2> HIDE DEF c, Turn, n
  <2>3. QED
    BY <1>5, <2>1, <2>2
<1>7. \A i \in 0 .. n : c[i] \in Nat
  <2>1. ASSUME NEW i \in 1 .. n, c[i - 1] \in Nat PROVE c[i] \in Nat
    <3>1. Aligned(c[i - 1]) \in Nat /\ Room(sizes[i]) \in Nat
      BY <1>1, <2>1, AlignedIs
    <3>2. c[i] = Aligned(c[i - 1]) + Room(sizes[i])
      BY <1>6
    <3> HIDE DEF c
    <3>3. QED
      BY <3>1, <3>2
  <2> HIDE DEF c, n
  <2>2. QED
    BY <1>1, <1>6, <2>1, Invariance
<1>8. c \in [0 .. n -> Nat]
  <2> HIDE DEF c
  <2>1. QED
    BY <1>5, <1>7
<1>9. \A i, j \in 0 .. n : i <= j => c[i] <= c[j]
  <2>1. ASSUME NEW i \in 1 .. n PROVE c[i - 1] <= c[i]
    <3>1. c[i - 1] \in Nat
      BY <1>1, <1>7
    <3>2. Aligned(c[i - 1]) \in Nat /\ Aligned(c[i - 1]) >= c[i - 1]
      BY <3>1, AlignedIs
    <3> HIDE DEF c
    <3>3. QED
      BY <1>1, <1>6, <3>1, <3>2
  <2>2. \A i \in 0 .. n : c[i] \in Int
    BY <1>7
  <2> HIDE DEF c, n
  <2>3. QED
    BY <1>1, <2>1, <2>2, Monotone
<1>10. QED
  BY <1>6, <1>8, <1>9

(* The words behind one another that a table of eight-byte words takes.      *)
Words(a, n) == {a + 8 * i : i \in 0 .. n - 1}

(* How many words there are, and where they lie.                             *)
LEMMA WordsOf ==
  ASSUME NEW a \in Int, NEW n \in Nat
  PROVE  /\ IsFiniteSet(Words(a, n)) /\ Cardinality(Words(a, n)) = n
         /\ \A x \in Words(a, n) : x \in Int /\ a <= x /\ x <= a + 8 * n - 8 /\ (a % 8 = 0 => x % 8 = 0)
<1> DEFINE f == [i \in 0 .. n - 1 |-> a + 8 * i]
<1>1. IsFiniteSet(0 .. n - 1) /\ Cardinality(0 .. n - 1) = n
  <2>1. 0 \in Int /\ n - 1 \in Int /\ (0 > n - 1 <=> n = 0) /\ (n - 1) - 0 + 1 = n
    OBVIOUS
  <2>2. QED
    BY <2>1, FS_Interval
<1>2. f \in Surjection(0 .. n - 1, Words(a, n))
  BY DEF Surjection, Words
<1>3. f \in Injection(0 .. n - 1, Words(a, n))
  <2>1. ASSUME NEW i \in 0 .. n - 1, NEW j \in 0 .. n - 1, a + 8 * i = a + 8 * j PROVE i = j
    BY <2>1
  <2>2. f \in [0 .. n - 1 -> Words(a, n)]
    BY DEF Words
  <2>3. QED
    BY <2>1, <2>2 DEF Injection, IsInjective
<1>4. IsFiniteSet(Words(a, n)) /\ Cardinality(Words(a, n)) = n
  <2> HIDE DEF f
  <2>1. IsFiniteSet(Words(a, n)) /\ (Cardinality(Words(a, n)) = Cardinality(0 .. n - 1) <=> f \in Injection(0 .. n - 1, Words(a, n)))
    BY <1>1, <1>2, FS_Surjection
  <2>2. QED
    BY <1>1, <1>3, <2>1
<1>5. ASSUME NEW x \in Words(a, n) PROVE x \in Int /\ a <= x /\ x <= a + 8 * n - 8 /\ (a % 8 = 0 => x % 8 = 0)
  <2>1. PICK i \in 0 .. n - 1 : x = a + 8 * i
    BY DEF Words
  <2>2. x \in Int /\ a <= x /\ x <= a + 8 * n - 8
    BY <2>1
  <2>3. (a + 8 * i) % 8 = a % 8
    OBVIOUS
  <2>4. QED
    BY <2>1, <2>2, <2>3
<1>6. QED
  BY <1>4, <1>5

(* The same words by their index, as the relocations count them.             *)
LEMMA WordsCounted ==
  ASSUME NEW a \in Int, NEW n \in Nat
  PROVE  Words(a, n) = {a + 8 * (k - 1) : k \in 1 .. n}
<1>1. ASSUME NEW i \in 0 .. n - 1 PROVE i + 1 \in 1 .. n /\ (i + 1) - 1 = i
  OBVIOUS
<1>2. ASSUME NEW k \in 1 .. n PROVE k - 1 \in 0 .. n - 1
  OBVIOUS
<1>3. QED
  BY <1>1, <1>2, Zenon DEF Words

(* Two sets without a common element count as many as both.                  *)
LEMMA Apart ==
  ASSUME NEW S, NEW T, IsFiniteSet(S), IsFiniteSet(T), \A x \in S : x \notin T
  PROVE  IsFiniteSet(S \cup T) /\ Cardinality(S \cup T) = Cardinality(S) + Cardinality(T)
<1>1. S \cap T = {}
  OBVIOUS
<1>2. Cardinality(S \cap T) = 0
  BY <1>1, FS_EmptySet
<1>3. Cardinality(S) \in Nat /\ Cardinality(T) \in Nat
  BY FS_CardinalityType
<1>4. /\ IsFiniteSet(S \cup T)
      /\ Cardinality(S \cup T) = Cardinality(S) + Cardinality(T) - Cardinality(S \cap T)
  BY FS_Union
<1>5. QED
  BY <1>2, <1>3, <1>4

(* Three different values count three.                                       *)
LEMMA Three ==
  ASSUME NEW a, NEW b, NEW c, a # b, a # c, b # c
  PROVE  IsFiniteSet({a, b, c}) /\ Cardinality({a, b, c}) = 3
<1>1. {a, b, c} = ({a} \cup {b}) \cup {c}
  OBVIOUS
<1>2. IsFiniteSet({a}) /\ Cardinality({a}) = 1 /\ IsFiniteSet({b}) /\ Cardinality({b}) = 1
      /\ IsFiniteSet({c}) /\ Cardinality({c}) = 1
  BY FS_Singleton
<1>3. IsFiniteSet({a} \cup {b}) /\ Cardinality({a} \cup {b}) = 1 + 1
  <2>1. \A x \in {a} : x \notin {b}
    OBVIOUS
  <2>2. QED
    BY <1>2, <2>1, Apart
<1>4. \A x \in {a} \cup {b} : x \notin {c}
  OBVIOUS
<1>5. IsFiniteSet(({a} \cup {b}) \cup {c}) /\ Cardinality(({a} \cup {b}) \cup {c}) = (1 + 1) + 1
  BY <1>2, <1>3, <1>4, Apart
<1>6. QED
  BY <1>1, <1>5

(* The words that the runtime's relocations are for: all different, in the     *)
(* relocatable data, and at multiples of eight.                              *)
Relocatable(word) == Within([at |-> word, size |-> 8], RelroRange) /\ word % 8 = 0
JumpWords == Words(GotAddress + 8 * GotReservedEntries, PltRelocationCount)
ReadWords == {GlobDatTargets[1], GlobDatTargets[2], GlobDatTargets[3]}

(* The words the runtime module relocates: as many as relocations, all       *)
(* relocatable.                                                              *)
LEMMA RuntimeWords ==
  LET words == ((JumpWords \cup ReadWords) \cup TlsWords) \cup RelativeWords
  IN  /\ Cardinality(words) = PltRelocationCount + 3 + 3 + RelativeRelocationCount
      /\ \A word \in words : Relocatable(word)
<1> DEFINE run == Words(\h10C008, 1789)
           words == ((JumpWords \cup ReadWords) \cup TlsWords) \cup RelativeWords
<1>1. IsFiniteSet(JumpWords) /\ Cardinality(JumpWords) = 100
      /\ \A x \in JumpWords : x \in Int /\ \h10F888 <= x /\ x <= \h10FBA0 /\ x % 8 = 0
  <2>1. \h10F888 \in Int /\ \h10F888 % 8 = 0 /\ \h10F888 + 8 * 100 - 8 = \h10FBA0 /\ 100 \in Nat
    BY SMT
  <2>2. JumpWords = Words(\h10F888, 100)
    <3>1. GotAddress + 8 * GotReservedEntries = \h10F888 /\ PltRelocationCount = 100
      BY SMT DEF GotAddress, GotReservedEntries, PltRelocationCount
    <3>2. QED
      BY <3>1, SMT DEF JumpWords
  <2>3. QED
    BY <2>1, <2>2, WordsOf, SMT
<1>2. IsFiniteSet(run) /\ Cardinality(run) = 1789
      /\ \A x \in run : x \in Int /\ \h10C008 <= x /\ x <= \h10F7E8 /\ x % 8 = 0
  <2>1. \h10C008 \in Int /\ \h10C008 % 8 = 0 /\ \h10C008 + 8 * 1789 - 8 = \h10F7E8 /\ 1789 \in Nat
    BY SMT
  <2>2. QED
    BY <2>1, WordsOf, SMT
<1>3. ReadWords = {\h10F800, \h10F848, \h10F850}
  BY SMT DEF ReadWords, GlobDatTargets
<1>4. IsFiniteSet(ReadWords) /\ Cardinality(ReadWords) = 3
  <2> DEFINE a == \h10F800  b == \h10F848  c == \h10F850
  <2>1. a # b /\ a # c /\ b # c /\ ReadWords = {a, b, c}
    BY <1>3, SMT
  <2> HIDE DEF a, b, c
  <2>2. QED
    BY <2>1, Three, Zenon
<1>5. IsFiniteSet(TlsWords) /\ Cardinality(TlsWords) = 3
  <2> DEFINE a == \h10F818  b == \h10F828  c == \h10F838
  <2>1. a # b /\ a # c /\ b # c /\ TlsWords = {a, b, c}
    BY SMT DEF TlsWords
  <2> HIDE DEF a, b, c
  <2>2. QED
    BY <2>1, Three, Zenon
<1> HIDE DEF run
<1>6. RelativeWords = run \cup {\h10FCE0}
  BY SMT DEF RelativeWords, run, Words, RelativeRelocationCount
<1>7. IsFiniteSet(RelativeWords) /\ Cardinality(RelativeWords) = 1790
  <2>1. \A x \in run : x \notin {\h10FCE0}
    BY <1>2, SMT
  <2>2. IsFiniteSet({\h10FCE0}) /\ Cardinality({\h10FCE0}) = 1
    BY FS_Singleton, SMT
  <2>3. QED
    BY <1>2, <1>6, <2>1, <2>2, Apart, SMT
<1>8. IsFiniteSet(JumpWords \cup ReadWords) /\ Cardinality(JumpWords \cup ReadWords) = 103
  <2>1. \A x \in JumpWords : x \notin ReadWords
    BY <1>1, <1>3, SMT
  <2>2. QED
    BY <1>1, <1>4, <2>1, Apart, SMT
<1>9. IsFiniteSet((JumpWords \cup ReadWords) \cup TlsWords) /\ Cardinality((JumpWords \cup ReadWords) \cup TlsWords) = 106
  <2>1. \A x \in JumpWords \cup ReadWords : x \notin TlsWords
    BY <1>1, <1>3, SMT DEF TlsWords
  <2>2. QED
    BY <1>5, <1>8, <2>1, Apart, SMT
<1>10. Cardinality(words) = 1896
  <2>1. \A x \in (JumpWords \cup ReadWords) \cup TlsWords : x \notin RelativeWords
    BY <1>1, <1>2, <1>3, <1>6, SMT DEF TlsWords
  <2>2. QED
    BY <1>7, <1>9, <2>1, Apart, SMT
<1>11. \A word \in words : Relocatable(word)
  <2>1. ASSUME NEW word \in words
        PROVE  word \in JumpWords \/ word \in run \/ word \in {\h10F800, \h10F848, \h10F850} \/ word \in TlsWords \/ word = \h10FCE0
    BY <1>3, <1>6, SMT
  <2> HIDE DEF words
  <2>2. QED
    BY <1>1, <1>2, <2>1, SMT DEF TlsWords, Relocatable, RelroRange, Within, End
<1>12. QED
  BY <1>10, <1>11, SMT DEF PltRelocationCount, RelativeRelocationCount

RuntimeInput == [imports : Seq(RuntimeImport), objects : Seq(Nat), tls : Seq(Nat)]
Built(manifest) == BuildRuntime(manifest.imports, manifest.objects, manifest.tls)

(* What is known of a manifest once a module was built from it.              *)
LEMMA BuiltFrom ==
  ASSUME NEW m \in RuntimeInput, Built(m).error = "none"
  PROVE  LET called == {i \in DOMAIN m.imports : m.imports[i].plt}
         IN  /\ Len(m.imports) = ImportCount /\ DOMAIN m.imports = 1 .. ImportCount
             /\ Cardinality(called) = PltRelocationCount
             /\ ToSet(Called) \cup ToSet(Read) \subseteq NamesOf(m.imports)
             /\ \A access \in InitAccesses(m.imports) : access.slot # 0
             /\ Objects(m.objects).cursor <= DataMemorySize
             /\ \A k \in DOMAIN Read : GlobDat(m.imports)[k].symbol # 0
             /\ Built(m).headers = RuntimeHeaders /\ Built(m).accesses = InitAccesses(m.imports)
             /\ Built(m).jumps = JumpRelocations(m.imports) /\ Built(m).globDat = GlobDat(m.imports)
             /\ Built(m).objects = [i \in DOMAIN m.objects |-> ObjectRange(Objects(m.objects).placed[i])]
             /\ Built(m).size = RuntimeFileSize
<1> DEFINE im == m.imports
           module == [error |-> "none", size |-> RuntimeFileSize, headers |-> RuntimeHeaders,
                      accesses |-> InitAccesses(im), jumps |-> JumpRelocations(im), globDat |-> GlobDat(im),
                      objects |-> [i \in DOMAIN m.objects |-> ObjectRange(Objects(m.objects).placed[i])]]
<1>1. ReadImports(im).error = "none"
  <2>1. SUFFICES ASSUME ReadImports(im).error # "none" PROVE FALSE
    OBVIOUS
  <2>2. Built(m) = ReadImports(im)
    BY <2>1 DEF Built, BuildRuntime
  <2>3. QED
    BY <2>1, <2>2
<1>2. /\ ~(\E access \in InitAccesses(im) : access.slot = 0)
      /\ ~(Objects(m.objects).cursor > DataMemorySize)
      /\ ~(\E k \in DOMAIN Read : GlobDat(im)[k].symbol = 0)
      /\ Built(m) = module
  <2> DEFINE long == InitEnd >= ThreadDtorsAddress
             slotless == \E access \in InitAccesses(im) : access.slot = 0
             large == Objects(m.objects).cursor > DataMemorySize
             threads == Allocate(m.tls, 0).cursor > \h468
             unread == \E k \in DOMAIN Read : GlobDat(im)[k].symbol = 0
  <2> HIDE DEF module
  <2>1. Built(m) = IF ReadImports(im).error # "none" THEN ReadImports(im)
                   ELSE IF long THEN [error |-> "initializer too long"]
                   ELSE IF slotless THEN [error |-> "import has no slot"]
                   ELSE IF large THEN [error |-> "objects do not fit"]
                   ELSE IF threads THEN [error |-> "thread-local storage does not fit"]
                   ELSE IF unread THEN [error |-> "import is not read"]
                   ELSE module
    BY DEF Built, BuildRuntime, module
  <2> HIDE DEF long, slotless, large, threads, unread
  <2>2. /\ Built(m) # [error |-> "initializer too long"] /\ Built(m) # [error |-> "import has no slot"]
        /\ Built(m) # [error |-> "objects do not fit"] /\ Built(m) # [error |-> "thread-local storage does not fit"]
        /\ Built(m) # [error |-> "import is not read"]
    <3>1. ASSUME NEW e, e # "none" PROVE Built(m) # [error |-> e]
      <4>1. [error |-> e].error = e
        OBVIOUS
      <4>2. QED
        BY <3>1, <4>1
    <3>2. QED
      BY <3>1
  <2>3. ~slotless /\ ~large /\ ~unread /\ Built(m) = module
    BY <1>1, <2>1, <2>2, Zenon
  <2>4. QED
    BY <2>3 DEF slotless, large, unread
<1>3. /\ Len(im) = ImportCount
      /\ Cardinality({i \in DOMAIN im : im[i].plt}) = PltRelocationCount
      /\ ToSet(Called) \cup ToSet(Read) \subseteq NamesOf(im)
  BY <1>1 DEF ReadImports
<1>4. DOMAIN im = 1 .. ImportCount
  BY <1>3 DEF RuntimeInput
<1>5. Objects(m.objects).cursor <= DataMemorySize
  <2>1. Objects(m.objects).cursor \in Nat
    <3>1. ObjectStorageOffset \in Nat /\ m.objects \in Seq(Nat) /\ Len(m.objects) \in 0 .. Len(m.objects)
      BY DEF ObjectStorageOffset, RuntimeInput
    <3>2. Cursors(m.objects, ObjectStorageOffset) \in [0 .. Len(m.objects) -> Nat]
      BY <3>1, CursorsAre
    <3>3. Cursors(m.objects, ObjectStorageOffset)[Len(m.objects)] \in Nat
      BY <3>1, <3>2
    <3>4. QED
      BY <3>3 DEF Objects, Allocate
  <2>2. QED
    BY <1>2, <2>1 DEF DataMemorySize
<1>6. QED
  BY <1>2, <1>3, <1>4, <1>5

(* The jump relocations: the k-th word behind the reserved ones for the k-th   *)
(* called import.                                                            *)
LEMMA JumpsAre ==
  ASSUME NEW m \in RuntimeInput, Built(m).error = "none"
  PROVE  LET im == m.imports  called == {i \in DOMAIN im : im[i].plt}  jumps == JumpRelocations(im)
         IN  /\ Len(jumps) = PltRelocationCount /\ DOMAIN jumps = 1 .. PltRelocationCount
             /\ \A k \in 1 .. PltRelocationCount :
                   /\ jumps[k].at = GotAddress + 8 * GotReservedEntries + 8 * (k - 1)
                   /\ jumps[k].symbol = ExportCount + InOrder(called)[k]
                   /\ InOrder(called)[k] \in called
                   /\ Cardinality(Before(called, InOrder(called)[k])) = k - 1
             /\ \A i \in called : \E k \in 1 .. PltRelocationCount : InOrder(called)[k] = i
<1> DEFINE im == m.imports
           called == {i \in DOMAIN im : im[i].plt}
           jumps == JumpRelocations(im)
<1>1. called \in SUBSET (1 .. ImportCount) /\ Cardinality(called) = PltRelocationCount
  BY BuiltFrom
<1>2. /\ InOrder(called) \in [1 .. PltRelocationCount -> called]
      /\ \A k \in 1 .. PltRelocationCount : Cardinality(Before(called, InOrder(called)[k])) = k - 1
      /\ \A i \in called : \E k \in 1 .. PltRelocationCount : InOrder(called)[k] = i
  <2>1. ImportCount \in Nat
    BY DEF ImportCount
  <2> HIDE DEF called
  <2>2. QED
    BY <1>1, <2>1, InOrderIs
<1>3. jumps = [k \in 1 .. PltRelocationCount |-> [at |-> GotAddress + (GotReservedEntries + k - 1) * 8,
                                                  symbol |-> ExportCount + InOrder(called)[k]]]
  <2>1. jumps = [k \in DOMAIN InOrder(called) |-> [at |-> GotAddress + (GotReservedEntries + k - 1) * 8,
                                                  symbol |-> ExportCount + InOrder(called)[k]]]
    BY DEF JumpRelocations
  <2>2. DOMAIN InOrder(called) = 1 .. PltRelocationCount
    <3> HIDE DEF called
    <3>1. QED
      BY <1>2
  <2> HIDE DEF called, jumps
  <2>3. QED
    BY <2>1, <2>2
<1>4. Len(jumps) = PltRelocationCount /\ DOMAIN jumps = 1 .. PltRelocationCount
  <2>1. PltRelocationCount \in Nat
    BY DEF PltRelocationCount
  <2> HIDE DEF called, jumps
  <2>2. QED
    BY <1>3, <2>1
<1>5. ASSUME NEW k \in 1 .. PltRelocationCount
      PROVE  /\ jumps[k].at = GotAddress + 8 * GotReservedEntries + 8 * (k - 1)
             /\ jumps[k].symbol = ExportCount + InOrder(called)[k]
  <2>1. /\ jumps[k].at = GotAddress + (GotReservedEntries + k - 1) * 8
        /\ jumps[k].symbol = ExportCount + InOrder(called)[k]
    <3> HIDE DEF called, jumps
    <3>1. QED
      BY <1>3
  <2>2. k \in Int
    BY DEF PltRelocationCount
  <2>3. QED
    BY <2>1, <2>2 DEF GotAddress, GotReservedEntries
<1>6. QED
  <2> HIDE DEF called, jumps
  <2>1. /\ Len(jumps) = PltRelocationCount /\ DOMAIN jumps = 1 .. PltRelocationCount
        /\ \A k \in 1 .. PltRelocationCount :
              /\ jumps[k].at = GotAddress + 8 * GotReservedEntries + 8 * (k - 1)
              /\ jumps[k].symbol = ExportCount + InOrder(called)[k]
              /\ InOrder(called)[k] \in called
              /\ Cardinality(Before(called, InOrder(called)[k])) = k - 1
        /\ \A i \in called : \E k \in 1 .. PltRelocationCount : InOrder(called)[k] = i
    BY <1>2, <1>4, <1>5
  <2>2. QED
    BY <2>1 DEF called, jumps

(* Every access of the initializer leads to the import it names.             *)
LEMMA AccessesReach ==
  ASSUME NEW m \in RuntimeInput, Built(m).error = "none", NEW access \in InitAccesses(m.imports)
  PROVE  \E k \in 1 .. PltRelocationCount :
            /\ JumpRelocations(m.imports)[k].at = access.slot
            /\ m.imports[JumpRelocations(m.imports)[k].symbol - ExportCount].name = access.name
<1> DEFINE im == m.imports
           called == {i \in DOMAIN im : im[i].plt}
           index == IndexOf(im, access.name)
           jumps == JumpRelocations(im)
<1>1. access.slot = ImportSlot(im, access.name) /\ access.name \in ToSet(Called) /\ access.slot # 0
  <2>1. PICK name \in ToSet(Called) : access = [name |-> name, slot |-> ImportSlot(im, name)]
    BY DEF InitAccesses
  <2>2. access.slot # 0
    BY BuiltFrom
  <2>3. QED
    BY <2>1, <2>2
<1>2. index \in DOMAIN im /\ im[index].name = access.name
  <2>1. access.name \in NamesOf(im)
    BY <1>1, BuiltFrom
  <2>2. QED
    BY <2>1 DEF NamesOf, IndexOf
<1>3. DOMAIN im = 1 .. ImportCount
  BY BuiltFrom
<1>4. /\ index \in called
      /\ access.slot = GotAddress + (GotReservedEntries + Cardinality({i \in 1 .. index - 1 : im[i].plt})) * 8
  BY <1>1, <1>2 DEF ImportSlot
<1>5. {i \in 1 .. index - 1 : im[i].plt} = Before(called, index)
  <2>1. index \in 1 .. ImportCount /\ ImportCount \in Nat
    BY <1>2, <1>3 DEF ImportCount
  <2>2. \A i : i \in 1 .. index - 1 <=> i \in 1 .. ImportCount /\ i < index
    BY <2>1
  <2>3. QED
    BY <1>3, <2>2 DEF Before
<1>6. PICK k \in 1 .. PltRelocationCount : InOrder(called)[k] = index
  BY <1>4, JumpsAre
<1>7. Cardinality(Before(called, index)) = k - 1
  BY <1>6, JumpsAre
<1>8. jumps[k].at = GotAddress + 8 * GotReservedEntries + 8 * (k - 1) /\ jumps[k].symbol = ExportCount + index
  <2>1. /\ jumps[k].at = GotAddress + 8 * GotReservedEntries + 8 * (k - 1)
        /\ jumps[k].symbol = ExportCount + InOrder(called)[k]
    BY JumpsAre, ZenonT(40)
  <2>2. QED
    BY <1>6, <2>1, Zenon
<1>9. index \in Int /\ k \in Int
  BY <1>2, <1>3 DEF ImportCount, PltRelocationCount
<1>10. jumps[k].at = access.slot
  BY <1>4, <1>5, <1>7, <1>8, <1>9 DEF GotAddress, GotReservedEntries
<1>11. im[jumps[k].symbol - ExportCount].name = access.name
  <2>1. jumps[k].symbol - ExportCount = index
    BY <1>8, <1>9 DEF ExportCount
  <2>2. QED
    BY <1>2, <2>1
<1>12. QED
  BY <1>10, <1>11

(* The globDat relocations name the imports that are read.                   *)
LEMMA ReadsReach ==
  ASSUME NEW m \in RuntimeInput, Built(m).error = "none", NEW k \in DOMAIN Read
  PROVE  /\ GlobDat(m.imports)[k].at = GlobDatTargets[k]
         /\ m.imports[GlobDat(m.imports)[k].symbol - ExportCount].name = Read[k]
<1> DEFINE im == m.imports
           found == {i \in DOMAIN im : im[i].name = Read[k] /\ im[i].globDat}
<1>1. GlobDat(im)[k] = [at |-> GlobDatTargets[k], symbol |-> IF found = {} THEN 0 ELSE ExportCount + Max(found)]
  BY DEF GlobDat
<1>2. GlobDat(im)[k].symbol # 0
  BY BuiltFrom
<1>3. found # {}
  BY <1>1, <1>2
<1>4. found \in SUBSET Int /\ \A x \in found : x <= ImportCount
  <2>1. DOMAIN im = 1 .. ImportCount
    BY BuiltFrom
  <2>2. \A x \in 1 .. ImportCount : x \in Int /\ x <= ImportCount
    BY SMT DEF ImportCount
  <2>3. \A x \in found : x \in 1 .. ImportCount
    BY <2>1
  <2> HIDE DEF found
  <2>4. QED
    BY <2>2, <2>3
<1>5. Max(found) \in found
  <2>1. ImportCount \in Int
    BY DEF ImportCount
  <2> HIDE DEF found
  <2>2. QED
    BY <1>3, <1>4, <2>1, MaxIs
<1>6. GlobDat(im)[k].symbol - ExportCount = Max(found)
  <2>1. GlobDat(im)[k].symbol = ExportCount + Max(found)
    BY <1>1, <1>3
  <2>2. Max(found) \in Int
    BY <1>4, <1>5
  <2> HIDE DEF found
  <2>3. QED
    BY <2>1, <2>2, SMT DEF ExportCount
<1>7. im[Max(found)].name = Read[k]
  BY <1>5
<1>8. QED
  <2> HIDE DEF found
  <2>1. QED
    BY <1>1, <1>6, <1>7

(* The relocated words, as the runtime's module has them.                    *)
LEMMA RelocatedWords ==
  ASSUME NEW m \in RuntimeInput, Built(m).error = "none"
  PROVE  LET words == {j.at : j \in ToSet(Built(m).jumps)} \cup {g.at : g \in ToSet(Built(m).globDat)} \cup TlsWords \cup RelativeWords
         IN  /\ Cardinality(words) = Len(Built(m).jumps) + 3 + Len(Built(m).globDat) + RelativeRelocationCount
             /\ \A word \in words : Relocatable(word)
<1> DEFINE jumps == JumpRelocations(m.imports)
           reads == GlobDat(m.imports)
<1>1. Built(m).jumps = jumps /\ Built(m).globDat = reads
  BY BuiltFrom
<1>2. {j.at : j \in ToSet(jumps)} = JumpWords
  <2>1. DOMAIN jumps = 1 .. PltRelocationCount
        /\ \A k \in 1 .. PltRelocationCount : jumps[k].at = GotAddress + 8 * GotReservedEntries + 8 * (k - 1)
    BY JumpsAre
  <2>2. JumpWords = {GotAddress + 8 * GotReservedEntries + 8 * (k - 1) : k \in 1 .. PltRelocationCount}
    <3>1. GotAddress + 8 * GotReservedEntries \in Int /\ PltRelocationCount \in Nat
      BY SMT DEF GotAddress, GotReservedEntries, PltRelocationCount
    <3>2. QED
      BY <3>1, WordsCounted DEF JumpWords
  <2> HIDE DEF jumps
  <2>3. {j.at : j \in ToSet(jumps)} = {jumps[k].at : k \in 1 .. PltRelocationCount}
    BY <2>1 DEF ToSet
  <2>4. QED
    BY <2>1, <2>2, <2>3, Zenon
<1>3. Len(reads) = 3 /\ {g.at : g \in ToSet(reads)} = ReadWords
  <2>1. DOMAIN Read = 1 .. 3
    BY DEF Read
  <2>2. DOMAIN reads = 1 .. 3 /\ \A k \in 1 .. 3 : reads[k].at = GlobDatTargets[k]
    BY <2>1 DEF GlobDat
  <2>3. Len(reads) = 3
    BY <2>1 DEF GlobDat
  <2>4. ToSet(reads) = {reads[1], reads[2], reads[3]}
    <3> HIDE DEF reads
    <3>1. QED
      BY <2>2, SMT DEF ToSet
  <2>5. {g.at : g \in {reads[1], reads[2], reads[3]}} = {reads[1].at, reads[2].at, reads[3].at}
    OBVIOUS
  <2> HIDE DEF reads
  <2>6. QED
    BY <2>2, <2>3, <2>4, <2>5 DEF ReadWords
<1>4. Len(jumps) = PltRelocationCount
  BY JumpsAre
<1> HIDE DEF jumps, reads
<1>5. QED
  BY <1>1, <1>2, <1>3, <1>4, RuntimeWords, Zenon

(* The storage of the exported objects.                                      *)
LEMMA ObjectsApart ==
  ASSUME NEW m \in RuntimeInput, Built(m).error = "none"
  PROVE  LET objects == Built(m).objects
         IN  /\ \A i, j \in DOMAIN objects : i = j \/ Disjoint(objects[i], objects[j])
             /\ \A i \in DOMAIN objects : Disjoint(objects[i], HeapApi) /\ objects[i].at % 8 = 0
                                          /\ Within(objects[i], [at |-> DataAddress, size |-> DataMemorySize])
<1> DEFINE sizes == m.objects
           n == Len(sizes)
           c == Cursors(sizes, ObjectStorageOffset)
           objects == Built(m).objects
<1>1. sizes \in Seq(Nat) /\ ObjectStorageOffset \in Nat /\ n \in Nat /\ DOMAIN sizes = 1 .. n
  BY DEF RuntimeInput, ObjectStorageOffset
<1>2. /\ c \in [0 .. n -> Nat] /\ c[0] = ObjectStorageOffset
      /\ \A i \in 1 .. n : c[i] = Aligned(c[i - 1]) + Room(sizes[i])
      /\ \A i, j \in 0 .. n : i <= j => c[i] <= c[j]
  BY <1>1, CursorsAre
<1>3. c[n] <= DataMemorySize
  <2>1. Objects(sizes).cursor = c[n]
    BY DEF Objects, Allocate
  <2>2. QED
    BY <2>1, BuiltFrom
<1>4. DOMAIN objects = 1 .. n /\ \A i \in 1 .. n : objects[i] = [at |-> DataAddress + Aligned(c[i - 1]), size |-> Room(sizes[i])]
  <2>1. objects = [i \in DOMAIN sizes |-> ObjectRange(Objects(sizes).placed[i])]
    BY BuiltFrom
  <2>2. \A i \in DOMAIN sizes : Objects(sizes).placed[i] = [at |-> Aligned(c[i - 1]), size |-> Room(sizes[i])]
    BY DEF Objects, Allocate
  <2> HIDE DEF c, objects
  <2>3. ASSUME NEW i \in 1 .. n PROVE objects[i] = [at |-> DataAddress + Aligned(c[i - 1]), size |-> Room(sizes[i])]
    <3>1. objects[i] = ObjectRange(Objects(sizes).placed[i])
      BY <1>1, <2>1
    <3>2. Objects(sizes).placed[i] = [at |-> Aligned(c[i - 1]), size |-> Room(sizes[i])]
      BY <1>1, <2>2
    <3>3. QED
      BY <3>1, <3>2 DEF ObjectRange
  <2>4. QED
    BY <1>1, <2>1, <2>3
<1> HIDE DEF c, objects, n
<1>5. ASSUME NEW i \in 1 .. n
      PROVE  /\ i - 1 \in 0 .. n /\ i \in 0 .. n /\ Aligned(c[i - 1]) \in Nat /\ Room(sizes[i]) \in Nat
             /\ c[i - 1] \in Nat /\ c[i] \in Nat
             /\ c[i - 1] <= Aligned(c[i - 1]) /\ Aligned(c[i - 1]) % 8 = 0
             /\ c[i] = Aligned(c[i - 1]) + Room(sizes[i])
             /\ ObjectStorageOffset <= c[i - 1] /\ c[i] <= DataMemorySize
  <2>1. i - 1 \in 0 .. n /\ i \in 0 .. n /\ 0 \in 0 .. n /\ n \in 0 .. n /\ 0 <= i - 1 /\ i <= n
    BY <1>1
  <2>2. c[i - 1] \in Nat /\ c[i] \in Nat /\ c[n] \in Nat
    BY <1>2, <2>1
  <2>3. Aligned(c[i - 1]) \in Nat /\ c[i - 1] <= Aligned(c[i - 1]) /\ Aligned(c[i - 1]) % 8 = 0
    BY <2>2, AlignedIs
  <2>4. Room(sizes[i]) \in Nat
    BY <1>1 DEF Room
  <2>5. c[0] <= c[i - 1] /\ c[i] <= c[n]
    BY <1>2, <2>1
  <2>6. c[i] <= DataMemorySize
    BY <1>3, <2>2, <2>5, SMT DEF DataMemorySize
  <2>7. QED
    BY <1>2, <2>1, <2>2, <2>3, <2>4, <2>5, <2>6
<1>6. ASSUME NEW i \in 1 .. n, NEW j \in 1 .. n, i < j PROVE End(objects[i]) <= objects[j].at
  <2>1. i <= j - 1 /\ j - 1 \in 0 .. n /\ i \in 0 .. n
    BY <1>1, <1>6
  <2>2. c[i] <= c[j - 1]
    BY <1>2, <2>1
  <2>3. objects[i].at = DataAddress + Aligned(c[i - 1]) /\ objects[i].size = Room(sizes[i])
        /\ objects[j].at = DataAddress + Aligned(c[j - 1])
    BY <1>4
  <2>4. QED
    BY <1>5, <2>2, <2>3, SMT DEF End, DataAddress
<1>7. \A i, j \in 1 .. n : i = j \/ Disjoint(objects[i], objects[j])
  <2>1. TAKE i, j \in 1 .. n
  <2>2. i < j \/ i = j \/ j < i
    BY <1>1
  <2>3. QED
    BY <1>6, <2>2 DEF Disjoint
<1>8. ASSUME NEW i \in 1 .. n
      PROVE  Disjoint(objects[i], HeapApi) /\ objects[i].at % 8 = 0
             /\ Within(objects[i], [at |-> DataAddress, size |-> DataMemorySize])
  <2>1. objects[i].at = DataAddress + Aligned(c[i - 1]) /\ objects[i].size = Room(sizes[i])
    BY <1>4
  <2>2. Aligned(c[i - 1]) \in Nat /\ Room(sizes[i]) \in Nat /\ Aligned(c[i - 1]) >= ObjectStorageOffset
        /\ Aligned(c[i - 1]) + Room(sizes[i]) <= DataMemorySize /\ Aligned(c[i - 1]) % 8 = 0
    BY <1>5, SMT DEF ObjectStorageOffset, DataMemorySize
  <2>3. Disjoint(objects[i], HeapApi)
    BY <2>1, <2>2, SMT DEF Disjoint, HeapApi, End, ObjectStorageOffset, DataAddress
  <2>4. objects[i].at % 8 = 0
    BY <2>1, <2>2, SMT DEF DataAddress
  <2>5. Within(objects[i], [at |-> DataAddress, size |-> DataMemorySize])
    BY <2>1, <2>2, SMT DEF Within, End, ObjectStorageOffset, DataAddress, DataMemorySize
  <2>6. QED
    BY <2>3, <2>4, <2>5
<1>9. QED
  <2>1. QED
    BY <1>4, <1>7, <1>8 DEF objects

(* The tables of the metadata segment, one behind the other to its end.      *)
LEMMA TablesApart ==
  /\ \A i \in DOMAIN MetadataTables \ {1} : End(MetadataTables[i - 1]) <= MetadataTables[i].at
  /\ End(Last(MetadataTables)) = MetadataFileSize
<1> USE DEF End, ExportCount, ImportCount, PltRelocationCount, RelativeRelocationCount, GlobDatRelocationCount
<1> DEFINE t(i) == MetadataTables[i]
<1>1. /\ t(1) = [at |-> 0, size |-> \hA7A3] /\ t(2) = [at |-> \hA7A8, size |-> 64056]
      /\ t(3) = [at |-> \h1A1E0, size |-> 2400] /\ t(4) = [at |-> \h1AB40, size |-> 43104]
      /\ t(5) = [at |-> \h253A0, size |-> 21360] /\ t(6) = [at |-> \h2A710, size |-> \h24]
      /\ t(7) = [at |-> \h2A738, size |-> 704]
  BY SMT DEF MetadataTables
<1>2. Len(MetadataTables) = 7 /\ DOMAIN MetadataTables = 1 .. 7
  BY SMT DEF MetadataTables
<1>3. /\ End(t(1)) <= t(2).at /\ End(t(2)) <= t(3).at /\ End(t(3)) <= t(4).at /\ End(t(4)) <= t(5).at
      /\ End(t(5)) <= t(6).at /\ End(t(6)) <= t(7).at
  <2>1. /\ 0 + \hA7A3 <= \hA7A8 /\ \hA7A8 + 64056 <= \h1A1E0 /\ \h1A1E0 + 2400 <= \h1AB40 /\ \h1AB40 + 43104 <= \h253A0
        /\ \h253A0 + 21360 <= \h2A710 /\ \h2A710 + \h24 <= \h2A738 /\ \h2A738 + 704 = \h2A9F8
    BY SMT
  <2> HIDE DEF t
  <2>2. QED
    BY <1>1, <2>1, SMT
<1>8. End(t(7)) = MetadataFileSize
  BY <1>1, SMT DEF MetadataFileSize
<1> DEFINE ordered(i) == End(MetadataTables[i - 1]) <= MetadataTables[i].at
<1>4. ordered(2) /\ ordered(3) /\ ordered(4) /\ ordered(5) /\ ordered(6) /\ ordered(7)
  <2>1. 2 - 1 = 1 /\ 3 - 1 = 2 /\ 4 - 1 = 3 /\ 5 - 1 = 4 /\ 6 - 1 = 5 /\ 7 - 1 = 6
    BY SMT
  <2> HIDE DEF End
  <2>2. QED
    BY <1>3, <2>1, Zenon
<1>5. Last(MetadataTables) = t(7)
  BY <1>2, Zenon DEF Last
<1>6. \A i \in DOMAIN MetadataTables \ {1} : i \in {2, 3, 4, 5, 6, 7}
  BY <1>2, SMT
<1>7. \A i \in DOMAIN MetadataTables \ {1} : ordered(i)
  <2> HIDE DEF ordered
  <2>1. QED
    BY <1>4, <1>6
<1>9. QED
  BY <1>5, <1>7, <1>8, SMT

(* The segments of the runtime's module that are loaded.                     *)
LEMMA RuntimeSegments ==
  LET loads == {h \in ToSet(RuntimeHeaders) : h.type = "LOAD"}
  IN  /\ \A a, b \in loads : a = b \/ Disjoint(InMemory(a), InMemory(b))
      /\ \A h \in loads : Congruent(h)
<1> DEFINE loads == {h \in ToSet(RuntimeHeaders) : h.type = "LOAD"}
           h(i) == RuntimeHeaders[i]
           rows == {1, 2, 3, 5, 10}
<1>1. \A a \in loads : \E i \in rows : a = h(i)
  <2>1. DOMAIN RuntimeHeaders = 1 .. 14
    BY SMT DEF RuntimeHeaders
  <2>2. \A i \in {4, 6, 7, 8, 9, 11, 12, 13, 14} : h(i).type # "LOAD"
    BY SMT DEF RuntimeHeaders, Row
  <2>3. \A i \in 1 .. 14 : i \in rows \/ i \in {4, 6, 7, 8, 9, 11, 12, 13, 14}
    BY SMT
  <2>4. QED
    BY <2>1, <2>2, <2>3, Zenon DEF ToSet
<1>2. /\ InMemory(h(1)) = [at |-> 0, size |-> \hC8092] /\ InMemory(h(2)) = [at |-> \hCC000, size |-> \h3DF80]
      /\ InMemory(h(3)) = [at |-> \h10C000, size |-> \h3EA0] /\ InMemory(h(5)) = [at |-> \h110000, size |-> \h7808]
      /\ InMemory(h(10)) = [at |-> \h117810, size |-> \h2A9F8]
  BY SMT DEF RuntimeHeaders, Row, InMemory, DataMemorySize, MetadataAddress, MetadataFileSize
<1>3. \A i, j \in rows : i = j \/ Disjoint(InMemory(h(i)), InMemory(h(j)))
  <2> HIDE DEF h
  <2>1. QED
    BY <1>2, SMT DEF Disjoint, End
<1>4. \A i \in rows : Congruent(h(i))
  BY SMT DEF RuntimeHeaders, Row, Congruent, Page, MetadataAddress, MetadataFileOffset
<1>5. QED
  <2> HIDE DEF h, rows
  <2>1. QED
    BY <1>1, <1>3, <1>4, Zenon

(* What a runtime module holds is bound as it should be, whatever manifest it   *)
(* was built from.                                                           *)
LEMMA RuntimeSound ==
  ASSUME NEW m \in RuntimeInput, Built(m).error = "none", elf = Built(m), input = [kind |-> "runtime", manifest |-> m]
  PROVE  RuntimeBound
<1> DEFINE im == m.imports
           words == {j.at : j \in ToSet(elf.jumps)} \cup {g.at : g \in ToSet(elf.globDat)} \cup TlsWords \cup RelativeWords
<1>1. /\ elf.jumps = JumpRelocations(im) /\ elf.globDat = GlobDat(im) /\ elf.accesses = InitAccesses(im)
      /\ elf.headers = RuntimeHeaders /\ input.manifest.imports = im
  BY BuiltFrom
<1>2. \A access \in elf.accesses : \E j \in ToSet(elf.jumps) :
         j.at = access.slot /\ input.manifest.imports[j.symbol - ExportCount].name = access.name
  <2>1. TAKE access \in elf.accesses
  <2>2. PICK k \in 1 .. PltRelocationCount :
            /\ JumpRelocations(im)[k].at = access.slot
            /\ im[JumpRelocations(im)[k].symbol - ExportCount].name = access.name
    BY <1>1, AccessesReach
  <2>3. DOMAIN JumpRelocations(im) = 1 .. PltRelocationCount
    BY JumpsAre
  <2>4. JumpRelocations(im)[k] \in ToSet(elf.jumps)
    BY <1>1, <2>3 DEF ToSet
  <2>5. QED
    BY <1>1, <2>2, <2>4
<1>3. \A k \in DOMAIN Read : input.manifest.imports[elf.globDat[k].symbol - ExportCount].name = Read[k]
  BY <1>1, ReadsReach
<1>4. /\ Cardinality(words) = Len(elf.jumps) + 3 + Len(elf.globDat) + RelativeRelocationCount
      /\ \A word \in words : Relocatable(word)
  BY RelocatedWords
<1>5. /\ \A i, j \in DOMAIN elf.objects : i = j \/ Disjoint(elf.objects[i], elf.objects[j])
      /\ \A i \in DOMAIN elf.objects : Disjoint(elf.objects[i], HeapApi) /\ elf.objects[i].at % 8 = 0
                                       /\ Within(elf.objects[i], [at |-> DataAddress, size |-> DataMemorySize])
  BY ObjectsApart
<1>6. (\A a, b \in Loads : a = b \/ Disjoint(InMemory(a), InMemory(b))) /\ \A h \in Loads : Congruent(h)
  BY <1>1, RuntimeSegments DEF Loads
<1> HIDE DEF words
<1>7. QED
  BY <1>2, <1>3, <1>4, <1>5, <1>6, TablesApart, Zenon DEF RuntimeBound, words, Relocatable

-----------------------------------------------------------------------------
(* The container.                                                           *)

(* An ordered list is as long as its set.                                    *)
LEMMA InOrderLength ==
  ASSUME NEW n \in Nat, NEW S \in SUBSET (1 .. n)
  PROVE  Len(InOrder(S)) = Cardinality(S) /\ DOMAIN InOrder(S) = 1 .. Cardinality(S)
<1>1. Cardinality(S) \in Nat
  BY InOrderIs
<1>2. QED
  BY <1>1 DEF InOrder

(* Rounding up to sixteen moves by at most fifteen.                          *)
LEMMA RoundupIs ==
  ASSUME NEW v \in Nat
  PROVE  Roundup(v, 16) \in Nat /\ Roundup(v, 16) >= v /\ Roundup(v, 16) <= v + 15
BY DEF Roundup

(* The digests of a segment have a size.                                     *)
LEMMA DigestSizeIs ==
  ASSUME NEW v \in Nat
  PROVE  DigestSize(v) \in Nat
BY SMT DEF DigestSize, SegmentBlock, DigestSlot

(* What an ELF must be like to go into a container and come out of it again.   *)
HeaderTypes == {"LOAD", "GNU_RELRO", "PROCPARAM", "MODULEPARAM", "DYNAMIC", "TLS", "EH_FRAME", "COMMENT", "VERSION", "NOTE"}
HeaderFlags == {"x", "r", "rw", "none"}
HeaderRecord == [type : HeaderTypes, flags : HeaderFlags, offset : Nat, at : Nat, size : Nat, memory : Nat]
HeaderCount == 14

Signable(e) ==
  /\ e.size \in Nat /\ e.headers \in Seq(HeaderRecord) /\ Len(e.headers) = HeaderCount
  /\ \A i \in 1 .. HeaderCount : e.headers[i].offset + e.headers[i].size <= e.size
  /\ \A i \in 1 .. HeaderCount : e.headers[i].type = "LOAD" => e.headers[i].size # 0
  /\ \E i \in 1 .. HeaderCount : e.headers[i].type = "LOAD"
  /\ \E i \in 1 .. HeaderCount : e.headers[i].type = "DYNAMIC"
  /\ \E i \in 1 .. HeaderCount : \A j \in 1 .. HeaderCount : e.headers[j].type = "VERSION" <=> j = i

(* The headers of an ELF that can be signed are records with natural         *)
(* numbers.                                                                  *)
LEMMA HeaderIs ==
  ASSUME NEW e, Signable(e)
  PROVE  /\ DOMAIN e.headers = 1 .. HeaderCount /\ HeaderCount \in Nat
         /\ \A i \in 1 .. HeaderCount : /\ e.headers[i] \in HeaderRecord
                                        /\ e.headers[i].offset \in Nat /\ e.headers[i].size \in Nat
<1>1. e.headers \in Seq(HeaderRecord) /\ Len(e.headers) = HeaderCount
  BY DEF Signable
<1>2. DOMAIN e.headers = 1 .. HeaderCount /\ HeaderCount \in Nat
  BY <1>1 DEF HeaderCount
<1>3. \A i \in 1 .. HeaderCount : e.headers[i] \in HeaderRecord
  BY <1>1
<1>4. \A h \in HeaderRecord : h.offset \in Nat /\ h.size \in Nat
  BY DEF HeaderRecord
<1>5. QED
  BY <1>2, <1>3, <1>4

(* The segments that go into the container, by the numbers of their headers.   *)
Chosen(e, o, i) == e.headers[i].size # 0 /\ e.headers[i].type \in SelectedTypes(o)

(* The segments chosen for a container: the ones of a chosen kind, all of    *)
(* them, one at least.                                                       *)
LEMMA SelectedAre ==
  ASSUME NEW e, Signable(e), NEW o
  PROVE  LET selected == Selected(e, o)  n == Len(selected)
         IN  /\ n \in Nat /\ 1 <= n /\ n <= HeaderCount /\ DOMAIN selected = 1 .. n
             /\ \A k \in 1 .. n : selected[k] \in 1 .. HeaderCount /\ Chosen(e, o, selected[k])
             /\ \A i \in 1 .. HeaderCount : Chosen(e, o, i) => \E k \in 1 .. n : selected[k] = i
<1> DEFINE S == {i \in 1 .. HeaderCount : Chosen(e, o, i)}
           selected == Selected(e, o)
<1>1. DOMAIN e.headers = 1 .. HeaderCount /\ HeaderCount \in Nat
  BY HeaderIs
<1>2. selected = InOrder(S)
  BY <1>1, Zenon DEF Selected, Chosen
<1>3. S \in SUBSET (1 .. HeaderCount)
  OBVIOUS
<1>4. S # {}
  <2>1. PICK i \in 1 .. HeaderCount : e.headers[i].type = "LOAD"
    BY DEF Signable
  <2>2. e.headers[i].size # 0
    BY <2>1 DEF Signable
  <2>3. "LOAD" \in SelectedTypes(o)
    BY DEF SelectedTypes
  <2>4. Chosen(e, o, i)
    BY <2>1, <2>2, <2>3 DEF Chosen
  <2>5. QED
    BY <2>4
<1>5. \A i \in S : i \in 1 .. HeaderCount /\ Chosen(e, o, i)
  OBVIOUS
<1>6. \A i \in 1 .. HeaderCount : Chosen(e, o, i) => i \in S
  OBVIOUS
<1> HIDE DEF S, selected
<1>7. /\ Len(selected) = Cardinality(S) /\ DOMAIN selected = 1 .. Cardinality(S)
      /\ Cardinality(S) \in Nat /\ Cardinality(S) <= HeaderCount /\ IsFiniteSet(S)
  BY <1>1, <1>2, <1>3, InOrderIs, InOrderLength
<1>8. Cardinality(S) # 0
  BY <1>4, <1>7, FS_EmptySet
<1>9. selected \in [1 .. Cardinality(S) -> S] /\ \A i \in S : \E k \in 1 .. Cardinality(S) : selected[k] = i
  BY <1>1, <1>2, <1>3, InOrderIs
<1>10. \A k \in 1 .. Len(selected) : selected[k] \in 1 .. HeaderCount /\ Chosen(e, o, selected[k])
  BY <1>5, <1>7, <1>9
<1>11. \A i \in 1 .. HeaderCount : Chosen(e, o, i) => \E k \in 1 .. Len(selected) : selected[k] = i
  BY <1>6, <1>7, <1>9
<1>12. QED
  BY <1>7, <1>8, <1>10, <1>11 DEF selected

(* Where the container's cursor stands after each segment.                   *)
SizeOf(e, o, k) == e.headers[Selected(e, o)[k]].size
Cursor(e, o, start) == SegmentCursor(e, Selected(e, o), start)
DataAt(e, o, start, k) == Cursor(e, o, start)[k - 1] + DigestSize(SizeOf(e, o, k))

(* The cursor in sign() after each segment; it never goes back.              *)
LEMMA SegmentCursorsAre ==
  ASSUME NEW e, Signable(e), NEW o, NEW start \in Nat
  PROVE  LET c == Cursor(e, o, start)  n == Len(Selected(e, o))
         IN  /\ c \in [0 .. n -> Nat] /\ c[0] = start
             /\ \A k \in 1 .. n : c[k] = Roundup(DataAt(e, o, start, k) + SizeOf(e, o, k), 16)
             /\ \A j, k \in 0 .. n : j <= k => c[j] <= c[k]
<1> DEFINE selected == Selected(e, o)
           n == Len(selected)
           next(k, x) == Roundup(x + DigestSize(SizeOf(e, o, k)) + SizeOf(e, o, k), 16)
           Turn(f) == [k \in 0 .. n |-> IF k = 0 THEN start ELSE next(k, f[k - 1])]
           step == [k \in 1 .. n |-> [x \in Nat |-> next(k, x)]]
           c == Cursor(e, o, start)
<1>1. n \in Nat /\ \A k \in 1 .. n : SizeOf(e, o, k) \in Nat
  <2>1. n \in Nat /\ \A k \in 1 .. n : selected[k] \in 1 .. HeaderCount
    BY SelectedAre
  <2>2. QED
    BY <2>1, HeaderIs DEF SizeOf
<1>2. ASSUME NEW k \in 1 .. n, NEW x \in Nat PROVE next(k, x) \in Nat /\ x <= next(k, x)
  <2>1. SizeOf(e, o, k) \in Nat /\ DigestSize(SizeOf(e, o, k)) \in Nat
    BY <1>1, DigestSizeIs
  <2> DEFINE v == x + DigestSize(SizeOf(e, o, k)) + SizeOf(e, o, k)
  <2>2. v \in Nat /\ x <= v
    BY <2>1
  <2> HIDE DEF v
  <2>3. Roundup(v, 16) \in Nat /\ Roundup(v, 16) >= v
    BY <2>2, RoundupIs
  <2>4. x <= Roundup(v, 16)
    BY <2>2, <2>3
  <2>5. QED
    BY <2>3, <2>4 DEF v
<1>3. step \in Turns(Nat, n)
  <2> HIDE DEF n, next
  <2>1. QED
    BY <1>2 DEF Turns
<1>4. PICK f : Loops(Nat, start, n, step, f)
  <2>1. n \in Nat
    BY <1>1
  <2> HIDE DEF step, n
  <2>2. QED
    BY <2>1, <1>3, Iteration
<1>5. f = Turn(f)
  <2>1. \A k \in 0 .. n : f[k] = Turn(f)[k]
    <3>1. SUFFICES ASSUME NEW k \in 0 .. n PROVE f[k] = Turn(f)[k]
      OBVIOUS
    <3>2. CASE k = 0
      BY <1>4, <3>2 DEF Loops
    <3>3. CASE k # 0
      <4>1. k \in 1 .. n /\ k - 1 \in 0 .. n
        BY <1>1, <3>3
      <4>2. f[k - 1] \in Nat
        BY <1>4, <4>1 DEF Loops
      <4>3. f[k] = step[k][f[k - 1]]
        BY <1>4, <4>1 DEF Loops
      <4>4. step[k][f[k - 1]] = next(k, f[k - 1])
        <5> HIDE DEF next
        <5>1. QED
          BY <4>1, <4>2
      <4> HIDE DEF next, step
      <4>5. QED
        BY <3>1, <3>3, <4>3, <4>4
    <3>4. QED
      BY <3>2, <3>3
  <2>2. f \in [0 .. n -> Nat]
    BY <1>4 DEF Loops
  <2> HIDE DEF next
  <2>3. QED
    BY <2>1, <2>2
<1>6. c = Turn(c)
  <2>1. c = CHOOSE g : g = Turn(g)
    BY DEF Cursor, SegmentCursor, SizeOf
  <2> HIDE DEF Turn, c
  <2>2. QED
    BY <1>5, <2>1
<1>7. c[0] = start /\ \A k \in 1 .. n : c[k] = next(k, c[k - 1])
  <2>1. 0 \in 0 .. n /\ \A k \in 1 .. n : k \in 0 .. n /\ k # 0
    BY <1>1
  <2>2. \A k \in 0 .. n : Turn(c)[k] = IF k = 0 THEN start ELSE next(k, c[k - 1])
    OBVIOUS
  <2> HIDE DEF c, Turn, n, next
  <2>3. QED
    BY <1>6, <2>1, <2>2
<1>8. \A k \in 0 .. n : c[k] \in Nat
  <2>1. ASSUME NEW k \in 1 .. n, c[k - 1] \in Nat PROVE c[k] \in Nat
    <3> HIDE DEF c, next
    <3>1. QED
      BY <1>2, <1>7, <2>1
  <2> HIDE DEF c, n
  <2>2. QED
    BY <1>1, <1>7, <2>1, Invariance
<1>9. c \in [0 .. n -> Nat]
  <2> HIDE DEF c, next
  <2>1. QED
    BY <1>6, <1>8
<1>10. \A j, k \in 0 .. n : j <= k => c[j] <= c[k]
  <2>1. ASSUME NEW k \in 1 .. n PROVE c[k - 1] <= c[k]
    <3>1. c[k - 1] \in Nat
      BY <1>1, <1>8
    <3> HIDE DEF c, next
    <3>2. QED
      BY <1>2, <1>7, <3>1
  <2>2. \A k \in 0 .. n : c[k] \in Int
    BY <1>8
  <2> HIDE DEF c, n
  <2>3. QED
    BY <1>1, <2>1, <2>2, Monotone
<1>11. \A k \in 1 .. n : c[k] = Roundup(DataAt(e, o, start, k) + SizeOf(e, o, k), 16)
  BY <1>7 DEF DataAt
<1>12. QED
  BY <1>7, <1>9, <1>10, <1>11

(* The container that sign() builds, before its digest is taken.             *)
Count(e, o) == Len(Selected(e, o))
HeadersAt(e, o) == HeaderSize + 2 * Count(e, o) * EntrySize
HeaderEnd(e, o) == Roundup(HeadersAt(e, o) + HeadersSize(e.headers), 16) + ExtendedSize + ControlSize
StartOf(e, o) == HeaderEnd(e, o) + MetadataSize(2 * Count(e, o), o.magic)
At(e, o, k) == DataAt(e, o, StartOf(e, o), k)
Cursed(e, o) == Cursor(e, o, StartOf(e, o))
VersionStart(e, o) == At(e, o, Count(e, o)) + SizeOf(e, o, Count(e, o))
Version(e) == VersionRecords(e.headers, e.size)
RowsOf(e, o) == [k \in 1 .. Count(e, o) |->
                   [id |-> Selected(e, o)[k], digest |-> Cursed(e, o)[k - 1], data |-> At(e, o, k), size |-> SizeOf(e, o, k)]]
BytesOf(e, o) == [k \in 1 .. Count(e, o) |-> Copy(At(e, o, k), SizeOf(e, o, k), e.headers[Selected(e, o)[k]].offset)]
CopiesOf(e, o) ==
  <<Copy(HeadersAt(e, o), HeadersSize(e.headers), 0)>> \o BytesOf(e, o)
     \o IF Version(e).size = 0 THEN <<>> ELSE <<Copy(VersionStart(e, o), Version(e).size, Version(e).offset)>>
Boxed(e, o) ==
  [error |-> "none", headers |-> e.headers, headersAt |-> HeadersAt(e, o), segments |-> SegmentTable(RowsOf(e, o)),
   declared |-> Cursed(e, o)[Count(e, o)], size |-> Max({Cursed(e, o)[Count(e, o)], VersionStart(e, o) + Version(e).size}),
   digests |-> StartOf(e, o), digest |-> <<>>, copies |-> CopiesOf(e, o)]

(* The numbers a container is built from.                                   *)
LEMMA BoxNumbers ==
  ASSUME NEW e, Signable(e), NEW o
  PROVE  /\ Count(e, o) \in Nat /\ 1 <= Count(e, o) /\ Count(e, o) <= HeaderCount
         /\ HeadersSize(e.headers) \in Nat /\ HeadersAt(e, o) \in Nat /\ HeaderEnd(e, o) \in Nat /\ StartOf(e, o) \in Nat
         /\ HeadersAt(e, o) + HeadersSize(e.headers) <= StartOf(e, o)
         /\ HeaderEnd(e, o) < SizeLimit /\ MetadataSize(2 * Count(e, o), o.magic) < SizeLimit
<1>1. Count(e, o) \in Nat /\ 1 <= Count(e, o) /\ Count(e, o) <= 14
  BY SelectedAre, SMT DEF Count, HeaderCount
<1>2. HeadersSize(e.headers) = 848
  BY SMT DEF HeadersSize, Signable, HeaderCount, ElfHeaderSize, ProgramHeaderSize
<1>3. HeadersAt(e, o) \in Nat /\ HeadersAt(e, o) <= 928
  BY <1>1, SMT DEF HeadersAt, HeaderSize, EntrySize
<1> DEFINE v == HeadersAt(e, o) + HeadersSize(e.headers)
<1>4. v \in Nat /\ v <= 1776
  BY <1>2, <1>3, SMT
<1>5. Roundup(v, 16) \in Nat /\ Roundup(v, 16) >= v /\ Roundup(v, 16) <= v + 15
  <2> HIDE DEF v
  <2>1. QED
    BY <1>4, RoundupIs
<1>6. HeaderEnd(e, o) \in Nat /\ v <= HeaderEnd(e, o) /\ HeaderEnd(e, o) <= 2000
  <2>1. HeaderEnd(e, o) = Roundup(v, 16) + 64 + 48
    BY SMT DEF HeaderEnd, ExtendedSize, ControlSize
  <2> HIDE DEF v
  <2>2. QED
    BY <1>4, <1>5, <2>1, SMT
<1>7. MetadataSize(2 * Count(e, o), o.magic) \in Nat /\ MetadataSize(2 * Count(e, o), o.magic) < SizeLimit
  BY <1>1, SMT DEF MetadataSize, BlockSize, FooterSize, SizeLimit
<1>8. StartOf(e, o) \in Nat /\ v <= StartOf(e, o)
  <2> HIDE DEF v
  <2>1. QED
    BY <1>4, <1>6, <1>7, SMT DEF StartOf
<1>9. QED
  BY <1>1, <1>2, <1>3, <1>6, <1>7, <1>8, SMT DEF HeaderCount, SizeLimit

(* Where the bytes of each segment lie.                                      *)
LEMMA RoomOf ==
  ASSUME NEW e, Signable(e), NEW o, NEW k \in 1 .. Count(e, o)
  PROVE  LET c == Cursed(e, o)  size == SizeOf(e, o, k)
         IN  /\ k - 1 \in 0 .. Count(e, o) /\ k \in 0 .. Count(e, o)
             /\ c[k - 1] \in Nat /\ c[k] \in Nat /\ DigestSize(size) \in Nat /\ size \in Nat /\ At(e, o, k) \in Nat
             /\ size # 0 /\ Selected(e, o)[k] \in 1 .. HeaderCount
             /\ At(e, o, k) = c[k - 1] + DigestSize(size) /\ At(e, o, k) + size <= c[k] /\ StartOf(e, o) <= c[k - 1]
             /\ c[Count(e, o)] \in Nat /\ c[k] <= c[Count(e, o)]
<1> DEFINE c == Cursed(e, o)
           n == Count(e, o)
           size == SizeOf(e, o, k)
<1>1. n \in Nat /\ StartOf(e, o) \in Nat
  BY BoxNumbers
<1>2. c \in [0 .. n -> Nat] /\ c[0] = StartOf(e, o)
      /\ c[k] = Roundup(At(e, o, k) + SizeOf(e, o, k), 16)
      /\ \A i, j \in 0 .. n : i <= j => c[i] <= c[j]
  BY <1>1, SegmentCursorsAre DEF Count, Cursed, At
<1>3. k - 1 \in 0 .. n /\ k \in 0 .. n /\ 0 \in 0 .. n /\ n \in 0 .. n /\ 0 <= k - 1 /\ k <= n
  BY <1>1
<1>4. Selected(e, o)[k] \in 1 .. HeaderCount /\ Chosen(e, o, Selected(e, o)[k])
  BY SelectedAre DEF Count
<1>5. size \in Nat /\ size # 0
  BY <1>4, HeaderIs DEF SizeOf, Chosen
<1>6. DigestSize(size) \in Nat
  BY <1>5, DigestSizeIs
<1>7. At(e, o, k) = c[k - 1] + DigestSize(size)
  BY DEF At, DataAt, Cursed
<1> HIDE DEF c, n, size
<1>8. c[k - 1] \in Nat /\ c[k] \in Nat /\ c[n] \in Nat
  BY <1>2, <1>3
<1>9. At(e, o, k) \in Nat /\ At(e, o, k) + size \in Nat
  BY <1>5, <1>6, <1>7, <1>8
<1>10. At(e, o, k) + size <= c[k]
  BY <1>2, <1>9, RoundupIs DEF size
<1>11. StartOf(e, o) <= c[k - 1] /\ c[k] <= c[n]
  BY <1>2, <1>3
<1>12. QED
  BY <1>3, <1>4, <1>5, <1>6, <1>7, <1>8, <1>9, <1>10, <1>11 DEF c, n, size

(* The version records are those of the one header of their type.            *)
LEMMA VersionIs ==
  ASSUME NEW e, Signable(e), NEW limit \in Nat, \A i \in 1 .. HeaderCount : e.headers[i].offset + e.headers[i].size <= limit,
         NEW j \in 1 .. HeaderCount, e.headers[j].type = "VERSION"
  PROVE  /\ VersionRecords(e.headers, limit) =
              IF e.headers[j].size = 0 THEN NoRegion ELSE [offset |-> e.headers[j].offset, size |-> e.headers[j].size]
         /\ VersionRecords(e.headers, limit).size = e.headers[j].size
<1> DEFINE found == {i \in DOMAIN e.headers : e.headers[i].type = "VERSION"}
           h == e.headers[j]
<1>1. DOMAIN e.headers = 1 .. HeaderCount /\ HeaderCount \in Nat /\ h.offset \in Nat /\ h.size \in Nat
  BY HeaderIs
<1>2. PICK v \in 1 .. HeaderCount : \A i \in 1 .. HeaderCount : e.headers[i].type = "VERSION" <=> i = v
  BY DEF Signable
<1>3. found = {j}
  BY <1>1, <1>2
<1>4. Min(found) = j
  <2>1. j \in Nat
    BY <1>1
  <2> HIDE DEF found
  <2>2. found \in SUBSET Nat /\ found # {}
    BY <1>3, <2>1
  <2>3. Min(found) \in found
    BY <2>2, MinIs
  <2>4. QED
    BY <1>3, <2>3
<1>5. Fits(h.offset, h.size, limit)
  <2>1. h.offset + h.size <= limit
    OBVIOUS
  <2> HIDE DEF h
  <2>2. QED
    BY <1>1, <2>1 DEF Fits
<1>6. VersionRecords(e.headers, limit) = IF h.size = 0 THEN NoRegion ELSE [offset |-> h.offset, size |-> h.size]
  <2> HIDE DEF found
  <2>1. VersionRecords(e.headers, limit) = IF found = {} THEN NoRegion
                                           ELSE IF e.headers[Min(found)].size = 0 \/ ~Fits(e.headers[Min(found)].offset, e.headers[Min(found)].size, limit) THEN NoRegion
                                           ELSE [offset |-> e.headers[Min(found)].offset, size |-> e.headers[Min(found)].size]
    BY Zenon DEF VersionRecords, found
  <2>2. QED
    BY <1>3, <1>4, <1>5, <2>1
<1>7. QED
  BY <1>6 DEF NoRegion

(* The entries of the segment table, two for each segment.                   *)
TableOf(e, o) == SegmentTable(RowsOf(e, o))

(* The table in pairs: digests at the odd entries, segments at the even      *)
(* ones.                                                                     *)
LEMMA TableIs ==
  ASSUME NEW e, Signable(e), NEW o
  PROVE  /\ DOMAIN TableOf(e, o) = 1 .. 2 * Count(e, o) /\ Len(TableOf(e, o)) = 2 * Count(e, o)
         /\ \A k \in 1 .. Count(e, o) :
               /\ 2 * k - 1 \in 1 .. 2 * Count(e, o) /\ 2 * k \in 1 .. 2 * Count(e, o)
               /\ TableOf(e, o)[2 * k - 1] = [id |-> 2 * k - 1, blocked |-> FALSE, offset |-> Cursed(e, o)[k - 1], size |-> DigestSize(SizeOf(e, o, k))]
               /\ TableOf(e, o)[2 * k] = [id |-> Selected(e, o)[k], blocked |-> TRUE, offset |-> At(e, o, k), size |-> SizeOf(e, o, k)]
         /\ \A j \in 1 .. 2 * Count(e, o) : \E k \in 1 .. Count(e, o) : j = 2 * k - 1 \/ j = 2 * k
<1> DEFINE n == Count(e, o)
           rows == RowsOf(e, o)
           entry(j) == LET row == rows[(j + 1) \div 2]
                       IN  IF j % 2 = 1 THEN [id |-> j, blocked |-> FALSE, offset |-> row.digest, size |-> DigestSize(row.size)]
                           ELSE [id |-> row.id, blocked |-> TRUE, offset |-> row.data, size |-> row.size]
<1>1. n \in Nat /\ Len(rows) = n
  BY BoxNumbers DEF RowsOf
<1>2. TableOf(e, o) = [j \in 1 .. 2 * n |-> entry(j)]
  BY <1>1, Zenon DEF TableOf, SegmentTable
<1>3. DOMAIN TableOf(e, o) = 1 .. 2 * n /\ Len(TableOf(e, o)) = 2 * n
  <2> HIDE DEF entry, n
  <2>1. QED
    BY <1>1, <1>2
<1>4. ASSUME NEW k \in 1 .. n
      PROVE  /\ 2 * k - 1 \in 1 .. 2 * n /\ 2 * k \in 1 .. 2 * n
             /\ TableOf(e, o)[2 * k - 1] = [id |-> 2 * k - 1, blocked |-> FALSE, offset |-> Cursed(e, o)[k - 1], size |-> DigestSize(SizeOf(e, o, k))]
             /\ TableOf(e, o)[2 * k] = [id |-> Selected(e, o)[k], blocked |-> TRUE, offset |-> At(e, o, k), size |-> SizeOf(e, o, k)]
  <2>1. k \in Int /\ 2 * k - 1 \in 1 .. 2 * n /\ 2 * k \in 1 .. 2 * n
    BY <1>1
  <2>2. ((2 * k - 1) + 1) \div 2 = k /\ (2 * k + 1) \div 2 = k /\ (2 * k - 1) % 2 = 1 /\ (2 * k) % 2 # 1
    BY <2>1
  <2>3. rows[k] = [id |-> Selected(e, o)[k], digest |-> Cursed(e, o)[k - 1], data |-> At(e, o, k), size |-> SizeOf(e, o, k)]
    BY DEF RowsOf
  <2> HIDE DEF rows
  <2>4. entry(2 * k - 1) = [id |-> 2 * k - 1, blocked |-> FALSE, offset |-> Cursed(e, o)[k - 1], size |-> DigestSize(SizeOf(e, o, k))]
    <3>1. entry(2 * k - 1) = [id |-> 2 * k - 1, blocked |-> FALSE, offset |-> rows[k].digest, size |-> DigestSize(rows[k].size)]
      BY <2>2, Zenon
    <3>2. QED
      BY <2>3, <3>1
  <2>5. entry(2 * k) = [id |-> Selected(e, o)[k], blocked |-> TRUE, offset |-> At(e, o, k), size |-> SizeOf(e, o, k)]
    <3>1. entry(2 * k) = [id |-> rows[k].id, blocked |-> TRUE, offset |-> rows[k].data, size |-> rows[k].size]
      BY <2>2, Zenon
    <3>2. QED
      BY <2>3, <3>1
  <2> HIDE DEF entry, n
  <2>6. TableOf(e, o)[2 * k - 1] = entry(2 * k - 1) /\ TableOf(e, o)[2 * k] = entry(2 * k)
    BY <1>2, <2>1
  <2>7. QED
    BY <2>1, <2>4, <2>5, <2>6
<1>5. ASSUME NEW j \in 1 .. 2 * n PROVE \E k \in 1 .. n : j = 2 * k - 1 \/ j = 2 * k
  <2>1. (j + 1) \div 2 \in 1 .. n /\ (j = 2 * ((j + 1) \div 2) - 1 \/ j = 2 * ((j + 1) \div 2))
    <3> HIDE DEF n
    <3>1. QED
      BY <1>1, SMT
  <2>2. QED
    BY <2>1
<1>6. QED
  BY <1>3, <1>4, <1>5

(* What is known of every segment of the table.                              *)
LEMMA SegmentIs ==
  ASSUME NEW e, Signable(e), NEW o, NEW j \in 1 .. 2 * Count(e, o)
  PROVE  LET s == TableOf(e, o)[j]
         IN  /\ s.offset \in Nat /\ s.size \in Nat /\ StartOf(e, o) <= s.offset
             /\ s.offset + s.size <= VersionStart(e, o) /\ VersionStart(e, o) <= Cursed(e, o)[Count(e, o)]
             /\ VersionStart(e, o) \in Nat /\ Cursed(e, o)[Count(e, o)] \in Nat
             /\ s.blocked => \E k \in 1 .. Count(e, o) : j = 2 * k
             /\ \E k \in 1 .. Count(e, o) : /\ Cursed(e, o)[k - 1] <= s.offset /\ s.offset + s.size <= Cursed(e, o)[k]
                                            /\ \/ j = 2 * k - 1 /\ s.offset + s.size = At(e, o, k)
                                               \/ j = 2 * k /\ s.offset = At(e, o, k)
<1> DEFINE n == Count(e, o)
           s == TableOf(e, o)[j]
           c == Cursed(e, o)
<1>1. PICK k \in 1 .. n : j = 2 * k - 1 \/ j = 2 * k
  BY TableIs, ZenonT(40)
<1>2. n \in Nat /\ 1 <= n /\ n \in 1 .. n /\ StartOf(e, o) \in Nat
  BY BoxNumbers
<1>3. /\ c[k - 1] \in Nat /\ c[k] \in Nat /\ DigestSize(SizeOf(e, o, k)) \in Nat /\ SizeOf(e, o, k) \in Nat /\ At(e, o, k) \in Nat
      /\ At(e, o, k) = c[k - 1] + DigestSize(SizeOf(e, o, k)) /\ At(e, o, k) + SizeOf(e, o, k) <= c[k] /\ StartOf(e, o) <= c[k - 1]
  BY RoomOf
<1>4. /\ c[n - 1] \in Nat /\ c[n] \in Nat /\ DigestSize(SizeOf(e, o, n)) \in Nat /\ SizeOf(e, o, n) \in Nat /\ At(e, o, n) \in Nat
      /\ At(e, o, n) = c[n - 1] + DigestSize(SizeOf(e, o, n)) /\ At(e, o, n) + SizeOf(e, o, n) <= c[n]
  BY <1>2, RoomOf
<1>5. VersionStart(e, o) = At(e, o, n) + SizeOf(e, o, n)
  BY DEF VersionStart
<1>6. k = n \/ c[k] <= c[n - 1]
  <2>1. c \in [0 .. n -> Nat] /\ \A i, l \in 0 .. n : i <= l => c[i] <= c[l]
    BY <1>2, SegmentCursorsAre DEF Count, Cursed
  <2> HIDE DEF c, n
  <2>2. k = n \/ (k \in 0 .. n /\ n - 1 \in 0 .. n /\ k <= n - 1)
    <3>1. n \in Nat /\ 1 <= n
      BY <1>2 DEF n
    <3>2. k \in 1 .. n
      BY DEF n
    <3>3. QED
      BY <3>1, <3>2
  <2>3. QED
    BY <2>1, <2>2
<1>7. \/ j = 2 * k - 1 /\ s = [id |-> 2 * k - 1, blocked |-> FALSE, offset |-> c[k - 1], size |-> DigestSize(SizeOf(e, o, k))]
      \/ j = 2 * k /\ s = [id |-> Selected(e, o)[k], blocked |-> TRUE, offset |-> At(e, o, k), size |-> SizeOf(e, o, k)]
  BY <1>1, TableIs
<1> HIDE DEF c, n, s
<1>8. /\ s.offset \in Nat /\ s.size \in Nat /\ StartOf(e, o) <= s.offset /\ c[k - 1] <= s.offset /\ s.offset + s.size <= c[k]
      /\ \/ j = 2 * k - 1 /\ s.offset + s.size = At(e, o, k)
         \/ j = 2 * k /\ s.offset = At(e, o, k)
      /\ s.blocked => j = 2 * k
      /\ s.offset + s.size <= At(e, o, k) + SizeOf(e, o, k)
  <2>1. CASE j = 2 * k - 1 /\ s = [id |-> 2 * k - 1, blocked |-> FALSE, offset |-> c[k - 1], size |-> DigestSize(SizeOf(e, o, k))]
    <3>1. s.offset = c[k - 1] /\ s.size = DigestSize(SizeOf(e, o, k)) /\ s.blocked = FALSE
      BY <2>1
    <3>2. QED
      BY <1>2, <1>3, <2>1, <3>1
  <2>2. CASE j = 2 * k /\ s = [id |-> Selected(e, o)[k], blocked |-> TRUE, offset |-> At(e, o, k), size |-> SizeOf(e, o, k)]
    <3>1. s.offset = At(e, o, k) /\ s.size = SizeOf(e, o, k)
      BY <2>2
    <3>2. QED
      BY <1>2, <1>3, <2>2, <3>1
  <2>3. QED
    BY <1>7, <2>1, <2>2
<1>9. s.offset + s.size <= VersionStart(e, o) /\ VersionStart(e, o) \in Nat /\ VersionStart(e, o) <= c[n]
  <2>1. CASE k = n
    BY <1>3, <1>4, <1>5, <1>8, <2>1
  <2>2. CASE c[k] <= c[n - 1]
    BY <1>3, <1>4, <1>5, <1>8, <2>2
  <2>3. QED
    BY <1>6, <2>1, <2>2
<1>10. QED
  BY <1>4, <1>8, <1>9 DEF c, n, s

(* Segments do not overlap.                                                 *)
LEMMA SegmentsApart ==
  ASSUME NEW e, Signable(e), NEW o, NEW i \in 1 .. 2 * Count(e, o), NEW j \in 1 .. 2 * Count(e, o), i < j
  PROVE  TableOf(e, o)[i].offset + TableOf(e, o)[i].size <= TableOf(e, o)[j].offset
<1> DEFINE n == Count(e, o)
           s == TableOf(e, o)[i]
           t == TableOf(e, o)[j]
           c == Cursed(e, o)
<1>1. PICK k \in 1 .. n : /\ c[k - 1] <= s.offset /\ s.offset + s.size <= c[k]
                          /\ \/ i = 2 * k - 1 /\ s.offset + s.size = At(e, o, k)
                             \/ i = 2 * k /\ s.offset = At(e, o, k)
  BY SegmentIs
<1>2. PICK l \in 1 .. n : /\ c[l - 1] <= t.offset /\ t.offset + t.size <= c[l]
                          /\ \/ j = 2 * l - 1 /\ t.offset + t.size = At(e, o, l)
                             \/ j = 2 * l /\ t.offset = At(e, o, l)
  BY SegmentIs
<1>3. s.offset \in Nat /\ s.size \in Nat /\ t.offset \in Nat /\ t.size \in Nat /\ n \in Nat
  BY SegmentIs, BoxNumbers
<1>4. c \in [0 .. n -> Nat] /\ \A x, y \in 0 .. n : x <= y => c[x] <= c[y]
  <2>1. StartOf(e, o) \in Nat
    BY BoxNumbers
  <2>2. QED
    BY <2>1, SegmentCursorsAre DEF Count, Cursed
<1> HIDE DEF c, n, s, t
<1>5. k \in 0 .. n /\ l - 1 \in 0 .. n /\ k \in Int /\ l \in Int /\ (k < l => k <= l - 1) /\ k <= l /\ (k = l => i = 2 * k - 1 /\ j = 2 * k)
  BY <1>1, <1>2, <1>3
<1>6. CASE k = l
  <2>1. i = 2 * k - 1 /\ j = 2 * k /\ 2 * k - 1 # 2 * k
    BY <1>5, <1>6
  <2>2. s.offset + s.size = At(e, o, k)
    BY <1>1, <2>1, Zenon
  <2>3. t.offset = At(e, o, k)
    BY <1>2, <1>6, <2>1, Zenon
  <2>4. s.offset + s.size <= t.offset
    BY <1>3, <2>2, <2>3
  <2>5. QED
    BY <2>4 DEF s, t
<1>7. CASE k < l
  <2>1. c[k] <= c[l - 1] /\ c[k] \in Nat /\ c[l - 1] \in Nat
    BY <1>4, <1>5, <1>7
  <2>2. s.offset + s.size <= t.offset
    BY <1>1, <1>2, <1>3, <2>1
  <2>3. QED
    BY <2>2 DEF s, t
<1>8. s.offset + s.size <= t.offset
  BY <1>5, <1>6, <1>7 DEF s, t
<1>9. QED
  BY <1>8 DEF s, t

(* The larger of two numbers.                                                *)
LEMMA LargerOf ==
  ASSUME NEW x \in Nat, NEW y \in Nat
  PROVE  Max({x, y}) \in Nat /\ x <= Max({x, y}) /\ y <= Max({x, y})
<1>1. {x, y} \in SUBSET Int /\ {x, y} # {} /\ x + y \in Int /\ \A z \in {x, y} : z <= x + y
  OBVIOUS
<1>2. Max({x, y}) \in {x, y} /\ \A z \in {x, y} : z <= Max({x, y})
  BY <1>1, MaxIs
<1>3. QED
  BY <1>2

(* The bound that a set attains is its maximum.                              *)
LEMMA LargestIs ==
  ASSUME NEW T \in SUBSET Int, NEW b \in T, \A x \in T : x <= b
  PROVE  Max(T) = b
<1>1. b \in Int /\ T # {}
  OBVIOUS
<1>2. Max(T) \in T /\ b <= Max(T)
  BY <1>1, MaxIs
<1>3. Max(T) \in Int /\ Max(T) <= b
  BY <1>2
<1>4. QED
  BY <1>1, <1>2, <1>3

(* The fields of the container before its digest.                            *)
LEMMA BoxIs ==
  ASSUME NEW e, Signable(e), NEW o
  PROVE  /\ Boxed(e, o).error = "none" /\ Boxed(e, o).headers = e.headers /\ Boxed(e, o).headersAt = HeadersAt(e, o)
         /\ Boxed(e, o).segments = TableOf(e, o) /\ Boxed(e, o).declared = Cursed(e, o)[Count(e, o)]
         /\ Boxed(e, o).size = Max({Cursed(e, o)[Count(e, o)], VersionStart(e, o) + Version(e).size})
         /\ Boxed(e, o).digests = StartOf(e, o) /\ Boxed(e, o).copies = CopiesOf(e, o)
BY DEF Boxed, TableOf

(* The records follow the last segment, and that is where they are looked for.  *)
LEMMA ContentEnds ==
  ASSUME NEW e, Signable(e), NEW o, Version(e).size \in Nat
  PROVE  /\ ContentEnd(Boxed(e, o)) = VersionStart(e, o)
         /\ Boxed(e, o).size \in Nat /\ VersionStart(e, o) + Version(e).size <= Boxed(e, o).size
         /\ \A j \in 1 .. 2 * Count(e, o) : Fits(TableOf(e, o)[j].offset, TableOf(e, o)[j].size, Boxed(e, o).size)
<1> DEFINE n == Count(e, o)
           box == Boxed(e, o)
           fitting == {s \in ToSet(box.segments) : Fits(s.offset, s.size, box.size)}
           ends == {0} \cup {s.offset + s.size : s \in fitting}
           start == VersionStart(e, o)
<1>1. n \in Nat /\ 1 <= n /\ DOMAIN TableOf(e, o) = 1 .. 2 * n /\ box.segments = TableOf(e, o)
      /\ n \in 1 .. n /\ 2 * n \in 1 .. 2 * n
  <2>1. n \in Nat /\ 1 <= n
    BY BoxNumbers
  <2>2. DOMAIN TableOf(e, o) = 1 .. 2 * n /\ box.segments = TableOf(e, o)
    BY TableIs, BoxIs
  <2> HIDE DEF n, box
  <2>3. QED
    BY <2>1, <2>2
<1>2. start \in Nat /\ Cursed(e, o)[n] \in Nat /\ start <= Cursed(e, o)[n]
  BY <1>1, SegmentIs
<1>3. box.size \in Nat /\ start <= box.size /\ start + Version(e).size <= box.size
  <2>1. box.size = Max({Cursed(e, o)[n], start + Version(e).size})
    BY BoxIs
  <2>2. start + Version(e).size \in Nat
    BY <1>2
  <2> HIDE DEF box, start, n
  <2>3. box.size \in Nat /\ Cursed(e, o)[n] <= box.size /\ start + Version(e).size <= box.size
    BY <1>2, <2>1, <2>2, LargerOf
  <2>4. QED
    BY <1>2, <2>3
<1>4. ASSUME NEW j \in 1 .. 2 * n
      PROVE  LET s == TableOf(e, o)[j] IN Fits(s.offset, s.size, box.size) /\ s.offset + s.size <= start /\ s.offset + s.size \in Nat
  <2> DEFINE s == TableOf(e, o)[j]
  <2>1. s.offset \in Nat /\ s.size \in Nat /\ s.offset + s.size <= start
    BY SegmentIs
  <2> HIDE DEF s, box, start
  <2>2. Fits(s.offset, s.size, box.size) /\ s.offset + s.size \in Nat
    BY <1>2, <1>3, <2>1 DEF Fits
  <2>3. QED
    BY <2>1, <2>2 DEF s
<1>5. TableOf(e, o)[2 * n].offset + TableOf(e, o)[2 * n].size = start
  <2>1. TableOf(e, o)[2 * n] = [id |-> Selected(e, o)[n], blocked |-> TRUE, offset |-> At(e, o, n), size |-> SizeOf(e, o, n)]
    BY <1>1, TableIs, Zenon
  <2>2. QED
    BY <2>1 DEF VersionStart
<1> HIDE DEF box, n, start
<1>6. ToSet(box.segments) = {TableOf(e, o)[j] : j \in 1 .. 2 * n}
  BY <1>1 DEF ToSet
<1>7. \A x \in ends : x \in Nat /\ x <= start
  <2>1. TAKE x \in ends
  <2>2. CASE x = 0
    BY <1>2, <2>2
  <2>3. CASE \E s \in fitting : x = s.offset + s.size
    <3>1. PICK j \in 1 .. 2 * n : x = TableOf(e, o)[j].offset + TableOf(e, o)[j].size
      BY <1>6, <2>3
    <3>2. QED
      BY <1>4, <3>1
  <2>4. QED
    BY <2>2, <2>3
<1>8. start \in ends
  <2>1. TableOf(e, o)[2 * n] \in fitting
    BY <1>1, <1>4, <1>6
  <2>2. QED
    BY <1>5, <2>1
<1>9. ContentEnd(box) = Max(ends)
  BY DEF ContentEnd
<1>10. Max(ends) = start
  <2> HIDE DEF ends
  <2>1. ends \in SUBSET Int
    BY <1>7
  <2>2. QED
    BY <1>7, <1>8, <2>1, LargestIs
<1>11. QED
  BY <1>3, <1>4, <1>9, <1>10 DEF box, n, start

(* The copies of segments that --extract makes: one for each segment.        *)
CopyBack(e, o, k) == Copy(e.headers[Selected(e, o)[k]].offset, SizeOf(e, o, k), At(e, o, k))

(* Extraction copies back each segment and nothing else.                     *)
LEMMA SegmentCopiesAre ==
  ASSUME NEW e, Signable(e), NEW o
  PROVE  LET copies == SegmentCopies(Boxed(e, o))
         IN  /\ Len(copies) \in Nat /\ DOMAIN copies = 1 .. Len(copies) /\ copies \in Seq(Range(copies))
             /\ \A i \in 1 .. Len(copies) : \E k \in 1 .. Count(e, o) : copies[i] = CopyBack(e, o, k)
             /\ \A k \in 1 .. Count(e, o) : \E i \in 1 .. Len(copies) : copies[i] = CopyBack(e, o, k)
<1> DEFINE n == Count(e, o)
           S == {j \in 1 .. 2 * n : TableOf(e, o)[j].blocked /\ TableOf(e, o)[j].id <= Len(e.headers)}
           stored == InOrder(S)
           piece(s) == Copy(e.headers[s.id].offset, Min({s.size, e.headers[s.id].size}), s.offset)
           copies == SegmentCopies(Boxed(e, o))
<1>1. n \in Nat /\ 2 * n \in Nat /\ DOMAIN TableOf(e, o) = 1 .. 2 * n
  BY BoxNumbers, TableIs
<1>2. copies = [i \in DOMAIN stored |-> piece(TableOf(e, o)[stored[i]])]
  <2>1. copies = LET from == InOrder({j \in DOMAIN Boxed(e, o).segments : Boxed(e, o).segments[j].blocked
                                                        /\ Boxed(e, o).segments[j].id <= Len(Boxed(e, o).headers)})
                 IN  [i \in DOMAIN from |->
                        LET segment == Boxed(e, o).segments[from[i]]
                            header == Boxed(e, o).headers[segment.id]
                        IN  Copy(header.offset, Min({segment.size, header.size}), segment.offset)]
    BY Zenon DEF SegmentCopies
  <2>2. Boxed(e, o).segments = TableOf(e, o) /\ Boxed(e, o).headers = e.headers
    BY BoxIs
  <2>3. {j \in DOMAIN Boxed(e, o).segments : Boxed(e, o).segments[j].blocked
                                           /\ Boxed(e, o).segments[j].id <= Len(Boxed(e, o).headers)} = S
    BY <1>1, <2>2, Zenon
  <2> HIDE DEF S, copies, n
  <2>4. QED
    BY <2>1, <2>2, <2>3, Zenon
<1>3. \A k \in 1 .. n : 2 * k \in S /\ piece(TableOf(e, o)[2 * k]) = CopyBack(e, o, k)
  <2> TAKE k \in 1 .. n
  <2> DEFINE s == TableOf(e, o)[2 * k]
             h == e.headers[Selected(e, o)[k]]
  <2>1. 2 * k \in 1 .. 2 * n /\ s = [id |-> Selected(e, o)[k], blocked |-> TRUE, offset |-> At(e, o, k), size |-> SizeOf(e, o, k)]
    BY TableIs
  <2>2. s.id = Selected(e, o)[k] /\ s.blocked = TRUE /\ s.offset = At(e, o, k) /\ s.size = SizeOf(e, o, k)
    <3> HIDE DEF s
    <3>1. QED
      BY <2>1
  <2>3. Selected(e, o)[k] \in 1 .. HeaderCount /\ HeaderCount \in Nat /\ Len(e.headers) = HeaderCount
    BY RoomOf, HeaderIs DEF Signable
  <2>4. Selected(e, o)[k] <= Len(e.headers)
    BY <2>3
  <2>5. SizeOf(e, o, k) = h.size /\ SizeOf(e, o, k) \in Nat
    BY RoomOf DEF SizeOf
  <2>6. Min({SizeOf(e, o, k), SizeOf(e, o, k)}) = SizeOf(e, o, k)
    <3>1. {SizeOf(e, o, k), SizeOf(e, o, k)} \in SUBSET Nat /\ {SizeOf(e, o, k), SizeOf(e, o, k)} # {}
      BY <2>5
    <3>2. Min({SizeOf(e, o, k), SizeOf(e, o, k)}) \in {SizeOf(e, o, k), SizeOf(e, o, k)}
      BY <3>1, MinIs
    <3>3. QED
      BY <3>2
  <2> HIDE DEF n, s
  <2>7. 2 * k \in S
    BY <2>1, <2>2, <2>4 DEF s
  <2>8. piece(s) = CopyBack(e, o, k)
    BY <2>2, <2>5, <2>6, Zenon DEF CopyBack
  <2>9. QED
    BY <2>7, <2>8 DEF s
<1>4. \A j \in S : \E k \in 1 .. n : j = 2 * k
  BY SegmentIs
<1>5. S \in SUBSET (1 .. 2 * n)
  OBVIOUS
<1> HIDE DEF S, n
<1>6. /\ Cardinality(S) \in Nat /\ stored \in [1 .. Cardinality(S) -> S] /\ DOMAIN stored = 1 .. Cardinality(S)
      /\ \A i \in S : \E k \in 1 .. Cardinality(S) : stored[k] = i
  BY <1>1, <1>5, InOrderIs, InOrderLength
<1> HIDE DEF stored, piece
<1>7. Len(copies) = Cardinality(S) /\ DOMAIN copies = 1 .. Cardinality(S) /\ copies \in Seq(Range(copies))
  <2> HIDE DEF copies
  <2>1. copies = [i \in 1 .. Cardinality(S) |-> piece(TableOf(e, o)[stored[i]])]
    BY <1>2, <1>6
  <2>2. Len(copies) = Cardinality(S) /\ DOMAIN copies = 1 .. Cardinality(S)
    BY <1>6, <2>1
  <2>3. \A i \in 1 .. Cardinality(S) : copies[i] \in Range(copies)
    BY <2>2 DEF Range
  <2>4. QED
    BY <1>6, <2>1, <2>2, <2>3
<1>8. ASSUME NEW i \in 1 .. Cardinality(S) PROVE \E k \in 1 .. n : copies[i] = CopyBack(e, o, k)
  <2>1. stored[i] \in S
    BY <1>6
  <2>2. PICK k \in 1 .. n : stored[i] = 2 * k
    BY <1>4, <2>1
  <2>3. copies[i] = piece(TableOf(e, o)[2 * k])
    BY <1>2, <1>6, <2>2
  <2>4. QED
    BY <1>3, <2>3
<1>9. ASSUME NEW k \in 1 .. n PROVE \E i \in 1 .. Cardinality(S) : copies[i] = CopyBack(e, o, k)
  <2>1. PICK i \in 1 .. Cardinality(S) : stored[i] = 2 * k
    BY <1>3, <1>6
  <2>2. copies[i] = piece(TableOf(e, o)[2 * k])
    BY <1>2, <1>6, <2>1
  <2>3. QED
    BY <1>3, <2>2
<1>10. QED
  BY <1>6, <1>7, <1>8, <1>9 DEF n

(* Bytes of files that are put together from copies.                         *)
LEMMA Joined ==
  ASSUME NEW A, NEW s \in Seq(A), NEW t \in Seq(A)
  PROVE  s \o t \in Seq(A) /\ Range(s \o t) = Range(s) \cup Range(t)
<1>1. s \o t \in Seq(A) /\ Len(s \o t) = Len(s) + Len(t) /\ Len(s) \in Nat /\ Len(t) \in Nat
      /\ DOMAIN s = 1 .. Len(s) /\ DOMAIN t = 1 .. Len(t) /\ DOMAIN (s \o t) = 1 .. Len(s) + Len(t)
  OBVIOUS
<1>2. \A i \in 1 .. Len(s) : (s \o t)[i] = s[i]
  OBVIOUS
<1>3. \A i \in 1 .. Len(t) : (s \o t)[Len(s) + i] = t[i]
  OBVIOUS
<1>4. ASSUME NEW i \in 1 .. Len(s) + Len(t) PROVE (s \o t)[i] \in Range(s) \cup Range(t)
  <2>1. CASE i <= Len(s)
    <3>1. i \in 1 .. Len(s)
      BY <1>1, <2>1
    <3>2. QED
      BY <1>1, <1>2, <3>1 DEF Range
  <2>2. CASE i > Len(s)
    <3>1. i - Len(s) \in 1 .. Len(t) /\ Len(s) + (i - Len(s)) = i
      BY <1>1, <2>2
    <3>2. (s \o t)[i] = t[i - Len(s)]
      BY <1>3, <3>1
    <3>3. QED
      BY <1>1, <3>1, <3>2 DEF Range
  <2>3. QED
    BY <1>1, <2>1, <2>2
<1>5. ASSUME NEW i \in 1 .. Len(s) PROVE s[i] \in Range(s \o t)
  <2>1. i \in 1 .. Len(s) + Len(t)
    BY <1>1
  <2>2. QED
    BY <1>1, <1>2, <2>1 DEF Range
<1>6. ASSUME NEW i \in 1 .. Len(t) PROVE t[i] \in Range(s \o t)
  <2>1. Len(s) + i \in 1 .. Len(s) + Len(t)
    BY <1>1
  <2>2. QED
    BY <1>1, <1>3, <2>1 DEF Range
<1>7. QED
  BY <1>1, <1>4, <1>5, <1>6, Zenon DEF Range

(* A list of one.                                                            *)
LEMMA Single ==
  ASSUME NEW A, NEW x \in A
  PROVE  <<x>> \in Seq(A) /\ Range(<<x>>) = {x}
<1>1. <<x>> \in Seq(A) /\ DOMAIN <<x>> = {1} /\ <<x>>[1] = x
  OBVIOUS
<1>2. QED
  BY <1>1, Zenon DEF Range

(* The list of none.                                                         *)
LEMMA Empty ==
  ASSUME NEW A
  PROVE  <<>> \in Seq(A) /\ Range(<<>>) = {}
<1>1. <<>> \in Seq(A) /\ DOMAIN <<>> = {}
  OBVIOUS
<1>2. QED
  BY <1>1, Zenon DEF Range

Offered(copy, q) == copy.from + (q - copy.at)

(* A covered byte comes from a copy that covers it.                          *)
LEMMA ByteAtSome ==
  ASSUME NEW A, NEW copies \in Seq(A), NEW q, NEW covering \in Range(copies), Covers(covering, q)
  PROVE  \E copy \in Range(copies) : Covers(copy, q) /\ ByteAt(copies, q) = Offered(copy, q)
<1> DEFINE over == {i \in DOMAIN copies : Covers(copies[i], q)}
<1>1. DOMAIN copies = 1 .. Len(copies) /\ Len(copies) \in Nat
  OBVIOUS
<1>2. PICK i \in DOMAIN copies : copies[i] = covering
  BY DEF Range
<1>3. over # {} /\ over \in SUBSET Int /\ \A j \in over : j <= Len(copies)
  <2>1. i \in over
    BY <1>2
  <2>2. \A j \in over : j \in 1 .. Len(copies)
    BY <1>1
  <2> HIDE DEF over
  <2>3. QED
    BY <1>1, <2>1, <2>2
<1>4. Max(over) \in over
  <2> DEFINE bound == Len(copies)
  <2>1. bound \in Int /\ over # {} /\ over \in SUBSET Int /\ \A j \in over : j <= bound
    BY <1>1, <1>3
  <2> HIDE DEF over, bound
  <2>2. QED
    BY <2>1, MaxIs
<1>5. ByteAt(copies, q) = Offered(copies[Max(over)], q)
  <2>1. ByteAt(copies, q) = IF over = {} THEN Hole ELSE copies[Max(over)].from + (q - copies[Max(over)].at)
    BY Zenon DEF ByteAt
  <2>2. QED
    BY <1>3, <2>1, Zenon DEF Offered
<1>6. copies[Max(over)] \in Range(copies) /\ Covers(copies[Max(over)], q)
  BY <1>4 DEF Range
<1>7. QED
  BY <1>5, <1>6

(* The byte at a position, where all copies that reach it agree.             *)
LEMMA ByteAtIs ==
  ASSUME NEW A, NEW copies \in Seq(A), NEW q, NEW v, NEW covering \in Range(copies), Covers(covering, q),
         \A copy \in Range(copies) : Covers(copy, q) => Offered(copy, q) = v
  PROVE  ByteAt(copies, q) = v
BY ByteAtSome, Zenon

CopyRecord == [at : Nat, size : Nat, from : Nat]

(* A copy has the fields it is made of.                                      *)
LEMMA CopyIs ==
  ASSUME NEW at \in Nat, NEW size \in Nat, NEW from \in Nat
  PROVE  /\ Copy(at, size, from) \in CopyRecord
         /\ Copy(at, size, from).at = at /\ Copy(at, size, from).size = size /\ Copy(at, size, from).from = from
BY DEF Copy, CopyRecord

(* The bytes of the container: the headers, each segment, the records.       *)
HeadersCopy(e, o) == Copy(HeadersAt(e, o), HeadersSize(e.headers), 0)
SegmentCopy(e, o, k) == Copy(At(e, o, k), SizeOf(e, o, k), e.headers[Selected(e, o)[k]].offset)
VersionsCopy(e, o) == Copy(VersionStart(e, o), Version(e).size, Version(e).offset)

(* Where the segments of a container lie: between the digests and the        *)
(* records, in order.                                                        *)
LEMMA NumbersOf ==
  ASSUME NEW e, Signable(e), NEW o, NEW k \in 1 .. Count(e, o)
  PROVE  /\ At(e, o, k) \in Nat /\ SizeOf(e, o, k) \in Nat /\ e.headers[Selected(e, o)[k]].offset \in Nat
         /\ StartOf(e, o) <= At(e, o, k) /\ At(e, o, k) + SizeOf(e, o, k) <= VersionStart(e, o)
         /\ VersionStart(e, o) \in Nat
         /\ \A l \in 1 .. Count(e, o) : k < l => At(e, o, k) + SizeOf(e, o, k) <= At(e, o, l)
<1>1. Selected(e, o)[k] \in 1 .. HeaderCount /\ At(e, o, k) \in Nat /\ SizeOf(e, o, k) \in Nat
  BY RoomOf
<1>2. e.headers[Selected(e, o)[k]].offset \in Nat
  BY <1>1, HeaderIs
<1>3. \A l \in 1 .. Count(e, o) : /\ 2 * l \in 1 .. 2 * Count(e, o)
                                  /\ TableOf(e, o)[2 * l].offset = At(e, o, l) /\ TableOf(e, o)[2 * l].size = SizeOf(e, o, l)
  <2>1. TAKE l \in 1 .. Count(e, o)
  <2>2. /\ 2 * l \in 1 .. 2 * Count(e, o)
        /\ TableOf(e, o)[2 * l] = [id |-> Selected(e, o)[l], blocked |-> TRUE, offset |-> At(e, o, l), size |-> SizeOf(e, o, l)]
    BY TableIs
  <2>3. QED
    BY <2>2
<1>4. StartOf(e, o) <= At(e, o, k) /\ At(e, o, k) + SizeOf(e, o, k) <= VersionStart(e, o) /\ VersionStart(e, o) \in Nat
  BY <1>3, SegmentIs
<1>5. ASSUME NEW l \in 1 .. Count(e, o), k < l PROVE At(e, o, k) + SizeOf(e, o, k) <= At(e, o, l)
  <2>1. 2 * k < 2 * l
    <3>1. k \in Int /\ l \in Int
      BY BoxNumbers
    <3>2. QED
      BY <1>5, <3>1
  <2>2. 2 * k \in 1 .. 2 * Count(e, o) /\ 2 * l \in 1 .. 2 * Count(e, o)
    BY <1>3
  <2>3. TableOf(e, o)[2 * k].offset + TableOf(e, o)[2 * k].size <= TableOf(e, o)[2 * l].offset
    BY <2>1, <2>2, SegmentsApart
  <2>4. QED
    BY <1>3, <2>3
<1>6. QED
  BY <1>1, <1>2, <1>4, <1>5

(* What a container is written from: headers, segments, version records.     *)
LEMMA CopiesAre ==
  ASSUME NEW e, Signable(e), NEW o, Version(e).size \in Nat, Version(e).offset \in Nat
  PROVE  /\ CopiesOf(e, o) \in Seq(CopyRecord)
         /\ Range(CopiesOf(e, o)) = ({HeadersCopy(e, o)} \cup {SegmentCopy(e, o, k) : k \in 1 .. Count(e, o)})
                                       \cup (IF Version(e).size = 0 THEN {} ELSE {VersionsCopy(e, o)})
<1>1. Count(e, o) \in Nat /\ 1 <= Count(e, o) /\ HeadersAt(e, o) \in Nat /\ HeadersSize(e.headers) \in Nat
  BY BoxNumbers
<1>2. HeadersCopy(e, o) \in CopyRecord
  BY <1>1, CopyIs DEF HeadersCopy
<1>3. \A k \in 1 .. Count(e, o) : SegmentCopy(e, o, k) \in CopyRecord
  BY NumbersOf, CopyIs DEF SegmentCopy
<1>4. VersionsCopy(e, o) \in CopyRecord
  <2>1. 1 \in 1 .. Count(e, o)
    BY <1>1
  <2>2. VersionStart(e, o) \in Nat
    BY <2>1, NumbersOf
  <2>3. QED
    BY <2>2, CopyIs DEF VersionsCopy
<1>5. BytesOf(e, o) \in Seq(CopyRecord) /\ Range(BytesOf(e, o)) = {SegmentCopy(e, o, k) : k \in 1 .. Count(e, o)}
  <2>1. BytesOf(e, o) = [k \in 1 .. Count(e, o) |-> SegmentCopy(e, o, k)]
    BY Zenon DEF BytesOf, SegmentCopy
  <2>2. QED
    BY <1>1, <1>3, <2>1 DEF Range
<1> DEFINE version == IF Version(e).size = 0 THEN <<>> ELSE <<VersionsCopy(e, o)>>
<1>6. version \in Seq(CopyRecord) /\ Range(version) = IF Version(e).size = 0 THEN {} ELSE {VersionsCopy(e, o)}
  BY <1>4, Single, Empty, Zenon
<1>7. <<HeadersCopy(e, o)>> \in Seq(CopyRecord) /\ Range(<<HeadersCopy(e, o)>>) = {HeadersCopy(e, o)}
  BY <1>2, Single
<1> HIDE DEF version
<1> DEFINE front == <<HeadersCopy(e, o)>>
           middle == BytesOf(e, o)
<1>8. front \o middle \in Seq(CopyRecord)
      /\ Range(front \o middle) = {HeadersCopy(e, o)} \cup {SegmentCopy(e, o, k) : k \in 1 .. Count(e, o)}
  <2>1. front \in Seq(CopyRecord) /\ middle \in Seq(CopyRecord)
    BY <1>5, <1>7
  <2>2. Range(front) = {HeadersCopy(e, o)} /\ Range(middle) = {SegmentCopy(e, o, k) : k \in 1 .. Count(e, o)}
    BY <1>5, <1>7
  <2> HIDE DEF front, middle
  <2>3. front \o middle \in Seq(CopyRecord) /\ Range(front \o middle) = Range(front) \cup Range(middle)
    BY <2>1, Joined
  <2>4. QED
    BY <2>2, <2>3, Zenon
<1>9. CopiesOf(e, o) = (front \o middle) \o version
  BY Zenon DEF CopiesOf, HeadersCopy, VersionsCopy, version
<1>10. QED
  <2> DEFINE body == front \o middle
  <2>1. body \in Seq(CopyRecord) /\ CopiesOf(e, o) = body \o version
    BY <1>8, <1>9
  <2>2. Range(body) = {HeadersCopy(e, o)} \cup {SegmentCopy(e, o, k) : k \in 1 .. Count(e, o)}
    BY <1>8
  <2> HIDE DEF body
  <2>3. body \o version \in Seq(CopyRecord) /\ Range(body \o version) = Range(body) \cup Range(version)
    BY <1>6, <2>1, Joined
  <2>4. QED
    BY <1>6, <2>1, <2>2, <2>3, Zenon

(* No two of them are written to the same place.                             *)
LEMMA CopiesApart ==
  ASSUME NEW e, Signable(e), NEW o, Version(e).size \in Nat, Version(e).offset \in Nat,
         NEW c \in Range(CopiesOf(e, o)), NEW d \in Range(CopiesOf(e, o))
  PROVE  c = d \/ c.at + c.size <= d.at \/ d.at + d.size <= c.at
<1> DEFINE n == Count(e, o)
           Part(x) == \/ x = HeadersCopy(e, o)
                      \/ \E k \in 1 .. n : x = SegmentCopy(e, o, k)
                      \/ x = VersionsCopy(e, o)
<1>1. ASSUME NEW x \in Range(CopiesOf(e, o)) PROVE Part(x)
  <2>1. Range(CopiesOf(e, o)) = ({HeadersCopy(e, o)} \cup {SegmentCopy(e, o, k) : k \in 1 .. n})
                                   \cup (IF Version(e).size = 0 THEN {} ELSE {VersionsCopy(e, o)})
    BY CopiesAre
  <2> HIDE DEF n
  <2>2. \/ x \in {HeadersCopy(e, o)} \/ x \in {SegmentCopy(e, o, k) : k \in 1 .. n}
        \/ x \in IF Version(e).size = 0 THEN {} ELSE {VersionsCopy(e, o)}
    BY <1>1, <2>1, Zenon
  <2>3. QED
    BY <2>2, Zenon
<1>2. /\ n \in Nat /\ 1 \in 1 .. n
      /\ HeadersAt(e, o) \in Nat /\ HeadersSize(e.headers) \in Nat /\ StartOf(e, o) \in Nat
      /\ HeadersAt(e, o) + HeadersSize(e.headers) <= StartOf(e, o)
  BY BoxNumbers
<1>3. VersionStart(e, o) \in Nat /\ StartOf(e, o) <= VersionStart(e, o)
  <2>1. /\ At(e, o, 1) \in Nat /\ SizeOf(e, o, 1) \in Nat /\ StartOf(e, o) <= At(e, o, 1)
        /\ At(e, o, 1) + SizeOf(e, o, 1) <= VersionStart(e, o) /\ VersionStart(e, o) \in Nat
    BY <1>2, NumbersOf
  <2>2. QED
    BY <1>2, <2>1
<1>4. HeadersCopy(e, o).at = HeadersAt(e, o) /\ HeadersCopy(e, o).size = HeadersSize(e.headers)
  BY DEF HeadersCopy, Copy
<1>5. VersionsCopy(e, o).at = VersionStart(e, o) /\ VersionsCopy(e, o).size = Version(e).size
  BY DEF VersionsCopy, Copy
<1>6. \A k \in 1 .. n : SegmentCopy(e, o, k).at = At(e, o, k) /\ SegmentCopy(e, o, k).size = SizeOf(e, o, k)
  BY DEF SegmentCopy, Copy
<1>7. ASSUME NEW k \in 1 .. n
      PROVE  /\ HeadersCopy(e, o).at + HeadersCopy(e, o).size <= SegmentCopy(e, o, k).at
             /\ SegmentCopy(e, o, k).at + SegmentCopy(e, o, k).size <= VersionsCopy(e, o).at
             /\ \A l \in 1 .. n : k < l => SegmentCopy(e, o, k).at + SegmentCopy(e, o, k).size <= SegmentCopy(e, o, l).at
  <2>1. /\ At(e, o, k) \in Nat /\ StartOf(e, o) <= At(e, o, k) /\ At(e, o, k) + SizeOf(e, o, k) <= VersionStart(e, o)
        /\ \A l \in 1 .. n : k < l => At(e, o, k) + SizeOf(e, o, k) <= At(e, o, l)
    BY NumbersOf
  <2>2. HeadersAt(e, o) + HeadersSize(e.headers) <= At(e, o, k)
    BY <1>2, <2>1
  <2> HIDE DEF n
  <2>3. QED
    BY <1>4, <1>5, <1>6, <2>1, <2>2
<1>8. HeadersCopy(e, o).at + HeadersCopy(e, o).size <= VersionsCopy(e, o).at
  BY <1>2, <1>3, <1>4, <1>5
<1>9. \A k, l \in 1 .. n : k = l \/ k < l \/ l < k
  BY <1>2
<1> DEFINE before(x, y) == x.at + x.size <= y.at
<1>10. \A k, l \in 1 .. n : k < l => before(SegmentCopy(e, o, k), SegmentCopy(e, o, l))
  BY <1>7
<1>11. \A k \in 1 .. n : before(HeadersCopy(e, o), SegmentCopy(e, o, k)) /\ before(SegmentCopy(e, o, k), VersionsCopy(e, o))
  BY <1>7
<1>12. before(HeadersCopy(e, o), VersionsCopy(e, o))
  BY <1>8
<1> HIDE DEF before, n
<1>13. c = d \/ before(c, d) \/ before(d, c)
  <2>1. Part(c) /\ Part(d)
    BY <1>1
  <2>2. CASE c = HeadersCopy(e, o)
    BY <1>11, <1>12, <2>1, <2>2
  <2>3. CASE c = VersionsCopy(e, o)
    BY <1>11, <1>12, <2>1, <2>3
  <2>4. ASSUME NEW k \in 1 .. n, c = SegmentCopy(e, o, k) PROVE c = d \/ before(c, d) \/ before(d, c)
    <3>1. CASE d = HeadersCopy(e, o) \/ d = VersionsCopy(e, o)
      BY <1>11, <2>4, <3>1
    <3>2. ASSUME NEW l \in 1 .. n, d = SegmentCopy(e, o, l) PROVE c = d \/ before(c, d) \/ before(d, c)
      <4>1. k = l \/ k < l \/ l < k
        BY <1>9
      <4>2. QED
        BY <1>10, <2>4, <3>2, <4>1
    <3>3. QED
      BY <2>1, <3>1, <3>2
  <2>5. QED
    BY <2>1, <2>2, <2>3, <2>4
<1>14. QED
  BY <1>13 DEF before

(* Where the copies of a file keep clear of each other, each can be read back.  *)
LEMMA ByteAtOnly ==
  ASSUME NEW copies \in Seq(CopyRecord), NEW c \in Range(copies), NEW p \in Nat, p < c.size,
         \A d \in Range(copies) : c = d \/ c.at + c.size <= d.at \/ d.at + d.size <= c.at
  PROVE  ByteAt(copies, c.at + p) = c.from + p
<1>1. \A d \in Range(copies) : d \in CopyRecord
  BY DEF Range
<1>2. \A d \in CopyRecord : d.at \in Nat /\ d.size \in Nat /\ d.from \in Nat
  BY DEF CopyRecord
<1> DEFINE q == c.at + p
           v == c.from + p
<1>3. q \in Nat /\ Covers(c, q) /\ Offered(c, q) = v
  BY <1>1, <1>2 DEF Covers, Offered
<1>4. ASSUME NEW d \in Range(copies), Covers(d, q) PROVE Offered(d, q) = v
  <2>1. d.at <= q /\ q < d.at + d.size /\ c.at <= q /\ q < c.at + c.size
    BY <1>3, <1>4 DEF Covers
  <2>2. c.at \in Nat /\ c.size \in Nat /\ d.at \in Nat /\ d.size \in Nat
    BY <1>1, <1>2
  <2> HIDE DEF q, v
  <2>3. c = d
    BY <1>3, <2>1, <2>2
  <2>4. QED
    BY <1>3, <2>3
<1> HIDE DEF q, v
<1>5. ByteAt(copies, q) = v
  <2>1. copies \in Seq(CopyRecord) /\ c \in Range(copies) /\ Covers(c, q)
    BY <1>3
  <2>2. \A d \in Range(copies) : Covers(d, q) => Offered(d, q) = v
    BY <1>4
  <2> DEFINE A == CopyRecord
  <2>3. copies \in Seq(A)
    BY <2>1
  <2> HIDE DEF A
  <2>4. QED
    BY <2>1, <2>2, <2>3, ByteAtIs
<1>6. QED
  BY <1>5 DEF q, v

(* A copy brings back what lay where it puts it.                             *)
Restores(e, o, c) ==
  c \in CopyRecord /\ \A p \in Nat : p < c.size => ByteAt(CopiesOf(e, o), c.from + p) = c.at + p

(* A copy back from where a copy went restores what was there.               *)
LEMMA RestoresIs ==
  ASSUME NEW e, Signable(e), NEW o, Version(e).size \in Nat, Version(e).offset \in Nat,
         NEW stored \in Range(CopiesOf(e, o)), NEW c \in CopyRecord,
         c.from = stored.at, c.at = stored.from, c.size = stored.size
  PROVE  Restores(e, o, c)
<1>1. CopiesOf(e, o) \in Seq(CopyRecord)
  BY CopiesAre
<1>2. \A d \in Range(CopiesOf(e, o)) : stored = d \/ stored.at + stored.size <= d.at \/ d.at + d.size <= stored.at
  BY CopiesApart
<1>3. ASSUME NEW p \in Nat, p < c.size PROVE ByteAt(CopiesOf(e, o), c.from + p) = c.at + p
  <2> DEFINE copies == CopiesOf(e, o)
  <2>1. copies \in Seq(CopyRecord) /\ stored \in Range(copies) /\ p < stored.size
        /\ \A d \in Range(copies) : stored = d \/ stored.at + stored.size <= d.at \/ d.at + d.size <= stored.at
    BY <1>1, <1>2, <1>3
  <2> HIDE DEF copies
  <2>2. ByteAt(copies, stored.at + p) = stored.from + p
    BY <2>1, ByteAtOnly
  <2>3. QED
    BY <2>2 DEF copies
<1>4. QED
  BY <1>3 DEF Restores

(* Each copy that extraction makes restores its part of the ELF.             *)
LEMMA CopiesRestore ==
  ASSUME NEW e, Signable(e), NEW o, Version(e).size \in Nat, Version(e).offset \in Nat
  PROVE  /\ Restores(e, o, Copy(0, HeadersSize(e.headers), HeadersAt(e, o)))
         /\ \A k \in 1 .. Count(e, o) : Restores(e, o, CopyBack(e, o, k))
         /\ Version(e).size # 0 => Restores(e, o, Copy(Version(e).offset, Version(e).size, VersionStart(e, o)))
<1>1. HeadersAt(e, o) \in Nat /\ HeadersSize(e.headers) \in Nat /\ 1 \in 1 .. Count(e, o) /\ 0 \in Nat
  BY BoxNumbers
<1>2. VersionStart(e, o) \in Nat
  BY <1>1, NumbersOf
<1>3. Restores(e, o, Copy(0, HeadersSize(e.headers), HeadersAt(e, o)))
  <2> DEFINE c == Copy(0, HeadersSize(e.headers), HeadersAt(e, o))
             s == HeadersCopy(e, o)
  <2>1. s \in Range(CopiesOf(e, o))
    BY CopiesAre, Zenon
  <2>2. /\ c \in CopyRecord /\ c.at = 0 /\ c.size = HeadersSize(e.headers) /\ c.from = HeadersAt(e, o)
        /\ s.at = HeadersAt(e, o) /\ s.size = HeadersSize(e.headers) /\ s.from = 0
    BY <1>1, CopyIs, SMTT(30) DEF HeadersCopy
  <2> HIDE DEF c, s
  <2>3. Restores(e, o, c)
    BY <2>1, <2>2, RestoresIs
  <2>4. QED
    BY <2>3 DEF c
<1>4. ASSUME NEW k \in 1 .. Count(e, o) PROVE Restores(e, o, CopyBack(e, o, k))
  <2> DEFINE c == CopyBack(e, o, k)
             s == SegmentCopy(e, o, k)
             from == e.headers[Selected(e, o)[k]].offset
  <2>1. s \in Range(CopiesOf(e, o))
    <3>1. Range(CopiesOf(e, o)) = ({HeadersCopy(e, o)} \cup {SegmentCopy(e, o, l) : l \in 1 .. Count(e, o)})
                                     \cup (IF Version(e).size = 0 THEN {} ELSE {VersionsCopy(e, o)})
      BY CopiesAre
    <3>2. s \in {SegmentCopy(e, o, l) : l \in 1 .. Count(e, o)}
      OBVIOUS
    <3> HIDE DEF s
    <3>3. QED
      BY <3>1, <3>2, Zenon
  <2>2. At(e, o, k) \in Nat /\ SizeOf(e, o, k) \in Nat /\ from \in Nat
    BY NumbersOf
  <2>3. c = Copy(from, SizeOf(e, o, k), At(e, o, k)) /\ s = Copy(At(e, o, k), SizeOf(e, o, k), from)
    BY DEF CopyBack, SegmentCopy
  <2> DEFINE at == At(e, o, k)
             size == SizeOf(e, o, k)
  <2>7. at \in Nat /\ size \in Nat /\ c = Copy(from, size, at) /\ s = Copy(at, size, from)
    BY <2>2, <2>3
  <2> HIDE DEF c, s, from, at, size
  <2>8. /\ c \in CopyRecord /\ c.at = from /\ c.size = size /\ c.from = at
        /\ s.at = at /\ s.size = size /\ s.from = from
    BY <2>2, <2>7 DEF Copy, CopyRecord
  <2>4. /\ c \in CopyRecord /\ c.at = from /\ c.size = SizeOf(e, o, k) /\ c.from = At(e, o, k)
        /\ s.at = At(e, o, k) /\ s.size = SizeOf(e, o, k) /\ s.from = from
    BY <2>8 DEF at, size
  <2>5. Restores(e, o, c)
    BY <2>1, <2>4, RestoresIs
  <2>6. QED
    BY <2>5 DEF c
<1>5. ASSUME Version(e).size # 0 PROVE Restores(e, o, Copy(Version(e).offset, Version(e).size, VersionStart(e, o)))
  <2> DEFINE c == Copy(Version(e).offset, Version(e).size, VersionStart(e, o))
             s == VersionsCopy(e, o)
  <2>1. s \in Range(CopiesOf(e, o))
    BY <1>5, CopiesAre, Zenon
  <2>2. /\ c \in CopyRecord /\ c.at = Version(e).offset /\ c.size = Version(e).size /\ c.from = VersionStart(e, o)
        /\ s.at = VersionStart(e, o) /\ s.size = Version(e).size /\ s.from = Version(e).offset
    BY <1>2, CopyIs DEF VersionsCopy
  <2> HIDE DEF c, s
  <2>3. Restores(e, o, c)
    BY <2>1, <2>2, RestoresIs
  <2>4. QED
    BY <2>3 DEF c
<1>6. QED
  BY <1>3, <1>4, <1>5

(* What is extracted.                                                       *)
LEMMA ExtentIs ==
  ASSUME NEW e, Signable(e)
  PROVE  LET size == ExtractedSize(e.headers)
         IN  /\ size \in Nat /\ HeadersSize(e.headers) \in Nat /\ HeadersSize(e.headers) <= size
             /\ \A i \in 1 .. HeaderCount : e.headers[i].offset + e.headers[i].size <= size
<1> DEFINE ends == {HeadersSize(e.headers)} \cup {e.headers[i].offset + e.headers[i].size : i \in 1 .. HeaderCount}
           bound == HeadersSize(e.headers) + e.size
<1>1. DOMAIN e.headers = 1 .. HeaderCount /\ \A i \in 1 .. HeaderCount : e.headers[i].offset \in Nat /\ e.headers[i].size \in Nat
  BY HeaderIs
<1>2. HeadersSize(e.headers) \in Nat /\ e.size \in Nat
  <2>1. e.size \in Nat
    BY DEF Signable
  <2>2. \A o : HeadersSize(e.headers) \in Nat
    BY BoxNumbers
  <2>3. QED
    BY <2>1, <2>2
<1>3. \A i \in 1 .. HeaderCount : e.headers[i].offset + e.headers[i].size <= e.size
  BY DEF Signable
<1>4. ASSUME NEW x \in ends PROVE x \in Nat /\ x <= bound
  <2>1. CASE x = HeadersSize(e.headers)
    BY <1>2, <2>1
  <2>2. ASSUME NEW i \in 1 .. HeaderCount, x = e.headers[i].offset + e.headers[i].size PROVE x \in Nat /\ x <= bound
    BY <1>1, <1>2, <1>3, <2>2, SMTT(30)
  <2>3. QED
    BY <2>1, <2>2
<1>5. ExtractedSize(e.headers) = Max(ends)
  BY <1>1, Zenon DEF ExtractedSize
<1>6. HeadersSize(e.headers) \in ends /\ \A i \in 1 .. HeaderCount : e.headers[i].offset + e.headers[i].size \in ends
  OBVIOUS
<1>7. bound \in Int
  BY <1>2
<1> HIDE DEF ends, bound
<1>8. ends \in SUBSET Int /\ ends # {}
  BY <1>4, <1>6
<1>9. Max(ends) \in ends /\ \A x \in ends : x <= Max(ends)
  BY <1>4, <1>7, <1>8, MaxIs
<1>10. QED
  BY <1>2, <1>4, <1>5, <1>6, <1>9

(* The version records are found by their header, before and after signing.  *)
LEMMA VersionHeader ==
  ASSUME NEW e, Signable(e), NEW j \in 1 .. HeaderCount, e.headers[j].type = "VERSION"
  PROVE  /\ Version(e).size \in Nat /\ Version(e).offset \in Nat /\ Version(e).size = e.headers[j].size
         /\ Version(e).size # 0 => Version(e).offset = e.headers[j].offset
         /\ VersionRecords(e.headers, ExtractedSize(e.headers)) = Version(e)
<1>1. e.headers[j].offset \in Nat /\ e.headers[j].size \in Nat
  BY HeaderIs
<1>2. e.size \in Nat /\ \A i \in 1 .. HeaderCount : e.headers[i].offset + e.headers[i].size <= e.size
  BY DEF Signable
<1> DEFINE v == IF e.headers[j].size = 0 THEN NoRegion ELSE [offset |-> e.headers[j].offset, size |-> e.headers[j].size]
<1>3. Version(e) = v /\ Version(e).size = e.headers[j].size
  BY <1>2, VersionIs DEF Version
<1>4. VersionRecords(e.headers, ExtractedSize(e.headers)) = v
  BY ExtentIs, VersionIs
<1>5. v.offset \in Nat /\ (e.headers[j].size # 0 => v.offset = e.headers[j].offset)
  BY <1>1 DEF NoRegion
<1> HIDE DEF v
<1>6. QED
  BY <1>1, <1>3, <1>4, <1>5

(* The version records end inside what is extracted.                         *)
LEMMA VersionNumbers ==
  ASSUME NEW e, Signable(e)
  PROVE  /\ Version(e).size \in Nat /\ Version(e).offset \in Nat
         /\ Version(e).size # 0 => Version(e).offset + Version(e).size <= ExtractedSize(e.headers)
         /\ VersionRecords(e.headers, ExtractedSize(e.headers)) = Version(e)
<1>1. PICK j \in 1 .. HeaderCount : e.headers[j].type = "VERSION"
  BY DEF Signable
<1>2. e.headers[j].offset + e.headers[j].size <= ExtractedSize(e.headers)
  BY ExtentIs
<1>3. QED
  BY <1>1, <1>2, VersionHeader

(* The copies that --extract makes from the container.                        *)
FrontBack(e, o) == Copy(0, HeadersSize(e.headers), HeadersAt(e, o))
RecordsBack(e, o) == IF Version(e).size = 0 THEN <<>> ELSE <<Copy(Version(e).offset, Version(e).size, VersionStart(e, o))>>
Back(e, o) == SegmentCopies(Boxed(e, o)) \o RecordsBack(e, o) \o <<FrontBack(e, o)>>

(* What extract() makes of a container.                                      *)
LEMMA ExtractIs ==
  ASSUME NEW e, Signable(e), NEW o
  PROVE  Extract(Boxed(e, o)) = [error |-> "none", size |-> ExtractedSize(e.headers), headers |-> e.headers, copies |-> Back(e, o)]
<1> DEFINE box == Boxed(e, o)
           size == ExtractedSize(e.headers)
           segments == SegmentCopies(box)
           overruns == \/ \E s \in ToSet(box.segments) : s.blocked /\ ~Fits(s.offset, s.size, box.size)
                       \/ \E i \in DOMAIN segments : ~Fits(segments[i].at, segments[i].size, size)
<1>1. box.headers = e.headers /\ box.segments = TableOf(e, o) /\ box.headersAt = HeadersAt(e, o)
  BY BoxIs
<1>2. Version(e).size \in Nat /\ Version(e).offset \in Nat /\ VersionRecords(e.headers, size) = Version(e)
  BY VersionNumbers
<1>3. ContentEnd(box) = VersionStart(e, o) /\ box.size \in Nat /\ VersionStart(e, o) + Version(e).size <= box.size
      /\ \A j \in 1 .. 2 * Count(e, o) : Fits(TableOf(e, o)[j].offset, TableOf(e, o)[j].size, box.size)
  BY <1>2, ContentEnds
<1>4. 1 \in 1 .. Count(e, o) /\ DOMAIN TableOf(e, o) = 1 .. 2 * Count(e, o)
  BY BoxNumbers, TableIs
<1>5. VersionStart(e, o) \in Nat
  BY <1>4, NumbersOf
<1>6. \A s \in ToSet(box.segments) : Fits(s.offset, s.size, box.size)
  <2>1. ToSet(box.segments) = {TableOf(e, o)[j] : j \in 1 .. 2 * Count(e, o)}
    BY <1>1, <1>4 DEF ToSet
  <2> HIDE DEF box
  <2>2. QED
    BY <1>3, <2>1
<1>7. ASSUME NEW i \in DOMAIN segments PROVE Fits(segments[i].at, segments[i].size, size)
  <2>6. /\ DOMAIN segments = 1 .. Len(segments)
        /\ \A j \in 1 .. Len(segments) : \E k \in 1 .. Count(e, o) : segments[j] = CopyBack(e, o, k)
    BY SegmentCopiesAre
  <2>1. PICK k \in 1 .. Count(e, o) : segments[i] = CopyBack(e, o, k)
    <3> HIDE DEF segments
    <3>1. QED
      BY <2>6
  <2>2. Selected(e, o)[k] \in 1 .. HeaderCount /\ SizeOf(e, o, k) = e.headers[Selected(e, o)[k]].size
    BY RoomOf DEF SizeOf
  <2> DEFINE h == e.headers[Selected(e, o)[k]]
  <2>3. h.offset \in Nat /\ h.size \in Nat /\ h.offset + h.size <= size /\ size \in Nat
    BY <2>2, HeaderIs, ExtentIs
  <2>4. segments[i].at = h.offset /\ segments[i].size = h.size
    BY <2>1, <2>2 DEF CopyBack, Copy
  <2> HIDE DEF h, segments, size
  <2>5. QED
    BY <2>3, <2>4 DEF Fits
<1>8. VersionCopy(box, size) = RecordsBack(e, o)
  <2>1. Fits(VersionStart(e, o), Version(e).size, box.size)
    <3> HIDE DEF box
    <3>1. QED
      BY <1>2, <1>3, <1>5 DEF Fits
  <2>2. VersionCopy(box, size) = IF Version(e).size # 0 /\ Fits(VersionStart(e, o), Version(e).size, box.size)
                                 THEN <<Copy(Version(e).offset, Version(e).size, VersionStart(e, o))>> ELSE <<>>
    <3> HIDE DEF box, size
    <3>1. QED
      BY <1>1, <1>2, <1>3, Zenon DEF VersionCopy
  <2> HIDE DEF box, size
  <2>3. QED
    BY <2>1, <2>2, Zenon DEF RecordsBack
<1>9. ~overruns
  <2> HIDE DEF box, segments, size
  <2>1. QED
    BY <1>6, <1>7, Zenon
<1>10. Extract(box) = IF overruns THEN [error |-> "segment overruns"]
                      ELSE [error |-> "none", size |-> size, headers |-> e.headers,
                            copies |-> segments \o VersionCopy(box, size) \o <<Copy(0, HeadersSize(e.headers), box.headersAt)>>]
  <2>1. Extract(box) =
          IF \/ \E s \in ToSet(box.segments) : s.blocked /\ ~Fits(s.offset, s.size, box.size)
             \/ \E i \in DOMAIN segments : ~Fits(segments[i].at, segments[i].size, ExtractedSize(box.headers))
          THEN [error |-> "segment overruns"]
          ELSE [error |-> "none", size |-> ExtractedSize(box.headers), headers |-> box.headers,
                copies |-> segments \o VersionCopy(box, ExtractedSize(box.headers)) \o <<Copy(0, HeadersSize(box.headers), box.headersAt)>>]
    BY Zenon DEF Extract
  <2> HIDE DEF box, segments
  <2>2. QED
    BY <1>1, <2>1, Zenon
<1> HIDE DEF overruns
<1>11. Extract(box) = [error |-> "none", size |-> size, headers |-> e.headers,
                       copies |-> segments \o VersionCopy(box, size) \o <<Copy(0, HeadersSize(e.headers), box.headersAt)>>]
  <2> HIDE DEF box, segments, size
  <2>1. QED
    BY <1>9, <1>10, Zenon
<1>12. segments \o VersionCopy(box, size) \o <<Copy(0, HeadersSize(e.headers), box.headersAt)>> = Back(e, o)
  <2>1. Copy(0, HeadersSize(e.headers), box.headersAt) = FrontBack(e, o)
    BY <1>1 DEF FrontBack
  <2>2. Back(e, o) = segments \o RecordsBack(e, o) \o <<FrontBack(e, o)>>
    BY DEF Back
  <2> HIDE DEF box, segments, size
  <2>3. QED
    BY <1>8, <2>1, <2>2, Zenon
<1> HIDE DEF box, segments, size
<1>13. Extract(box) = [error |-> "none", size |-> size, headers |-> e.headers, copies |-> Back(e, o)]
  BY <1>11, <1>12, Zenon
<1>14. QED
  BY <1>13 DEF box, size

(* All that it copies restores, and everything is copied.                    *)
LEMMA BackIs ==
  ASSUME NEW e, Signable(e), NEW o
  PROVE  /\ Back(e, o) \in Seq(CopyRecord)
         /\ \A c \in Range(Back(e, o)) : Restores(e, o, c)
         /\ FrontBack(e, o) \in Range(Back(e, o))
         /\ \A k \in 1 .. Count(e, o) : CopyBack(e, o, k) \in Range(Back(e, o))
         /\ Version(e).size # 0 => Copy(Version(e).offset, Version(e).size, VersionStart(e, o)) \in Range(Back(e, o))
<1> DEFINE s == SegmentCopies(Boxed(e, o))
           v == RecordsBack(e, o)
           f == <<FrontBack(e, o)>>
           record == Copy(Version(e).offset, Version(e).size, VersionStart(e, o))
           Good == {c \in CopyRecord : Restores(e, o, c)}
<1>1. Version(e).size \in Nat /\ Version(e).offset \in Nat
  BY VersionNumbers
<1>2. /\ FrontBack(e, o) \in Good
      /\ \A k \in 1 .. Count(e, o) : CopyBack(e, o, k) \in Good
      /\ Version(e).size # 0 => record \in Good
  BY <1>1, CopiesRestore DEF Restores, FrontBack
<1>3. /\ Len(s) \in Nat /\ DOMAIN s = 1 .. Len(s) /\ s \in Seq(Range(s))
      /\ \A i \in 1 .. Len(s) : \E k \in 1 .. Count(e, o) : s[i] = CopyBack(e, o, k)
      /\ \A k \in 1 .. Count(e, o) : \E i \in 1 .. Len(s) : s[i] = CopyBack(e, o, k)
  BY SegmentCopiesAre
<1>4. v = IF Version(e).size = 0 THEN <<>> ELSE <<record>>
  BY Zenon DEF RecordsBack
<1>5. Back(e, o) = (s \o v) \o f
  BY Zenon DEF Back
<1> HIDE DEF s, v, Good, record
<1>6. s \in Seq(Good) /\ \A k \in 1 .. Count(e, o) : CopyBack(e, o, k) \in Range(s)
  <2>1. \A i \in 1 .. Len(s) : s[i] \in Good
    BY <1>2, <1>3
  <2>2. s \in Seq(Good)
    BY <1>3, <2>1
  <2>3. QED
    BY <1>3, <2>2 DEF Range
<1>7. v \in Seq(Good) /\ (Version(e).size # 0 => record \in Range(v))
  <2>1. CASE Version(e).size = 0
    BY <1>4, <2>1, Empty
  <2>2. CASE Version(e).size # 0
    <3>1. record \in Good /\ v = <<record>>
      BY <1>2, <1>4, <2>2
    <3>2. <<record>> \in Seq(Good) /\ Range(<<record>>) = {record}
      BY <3>1, Single
    <3>3. QED
      BY <3>1, <3>2
  <2>3. QED
    BY <2>1, <2>2
<1>8. f \in Seq(Good) /\ Range(f) = {FrontBack(e, o)}
  BY <1>2, Single
<1> HIDE DEF f
<1>9. s \o v \in Seq(Good) /\ Range(s \o v) = Range(s) \cup Range(v)
  BY <1>6, <1>7, Joined
<1> DEFINE t == s \o v
<1>10. t \in Seq(Good) /\ Range(t) = Range(s) \cup Range(v)
  BY <1>9
<1> HIDE DEF t
<1>11. t \o f \in Seq(Good) /\ Range(t \o f) = Range(t) \cup Range(f)
  BY <1>8, <1>10, Joined
<1>12. Back(e, o) = t \o f
  BY <1>5 DEF t
<1>13. Back(e, o) \in Seq(Good) /\ Range(Back(e, o)) = (Range(s) \cup Range(v)) \cup {FrontBack(e, o)}
  BY <1>8, <1>10, <1>11, <1>12
<1> DEFINE b == Back(e, o)
<1>14. b \in Seq(Good) /\ Good \in SUBSET CopyRecord
  BY <1>13 DEF Good
<1>15. b \in Seq(CopyRecord) /\ \A c \in Range(b) : c \in Good
  <2> HIDE DEF b
  <2>1. QED
    BY <1>14 DEF Range
<1>16. \A c \in Good : Restores(e, o, c)
  BY DEF Good
<1> HIDE DEF b
<1>17. \A c \in Range(Back(e, o)) : Restores(e, o, c)
  BY <1>15, <1>16 DEF b
<1>18. QED
  BY <1>6, <1>7, <1>13, <1>15, <1>17 DEF b, record

(* A byte that any copy of the extraction reaches comes back to its place.      *)
LEMMA Rebuilds ==
  ASSUME NEW e, Signable(e), NEW o, NEW q \in Nat, NEW covering \in Range(Back(e, o)), Covers(covering, q),
         NEW made, made.copies = CopiesOf(e, o), NEW again, again.copies = Back(e, o)
  PROVE  RebuiltByte(made, again, q) = q
<1> DEFINE b == Back(e, o)
           stored == ByteAt(b, q)
<1>1. b \in Seq(CopyRecord) /\ covering \in Range(b) /\ \A c \in Range(b) : Restores(e, o, c)
  BY BackIs
<1>2. PICK c \in Range(b) : Covers(c, q) /\ stored = Offered(c, q)
  <2> HIDE DEF b
  <2>1. QED
    BY <1>1, ByteAtSome
<1>3. Restores(e, o, c)
  BY <1>1
<1>4. c.at \in Nat /\ c.size \in Nat /\ c.from \in Nat
  BY <1>3 DEF Restores, CopyRecord
<1> DEFINE p == q - c.at
<1>5. p \in Nat /\ p < c.size /\ c.at + p = q
  BY <1>2, <1>4 DEF Covers
<1>6. stored = c.from + p
  BY <1>2 DEF Offered
<1> HIDE DEF p
<1>7. ByteAt(CopiesOf(e, o), c.from + p) = c.at + p
  BY <1>3, <1>5 DEF Restores
<1>8. stored # Hole
  <2> HIDE DEF stored
  <2>1. QED
    BY <1>4, <1>5, <1>6 DEF Hole
<1>9. RebuiltByte(made, again, q) = IF stored = Hole THEN Hole ELSE ByteAt(CopiesOf(e, o), stored)
  BY Zenon DEF RebuiltByte
<1> HIDE DEF stored
<1>10. QED
  BY <1>5, <1>6, <1>7, <1>8, <1>9

(* What sign() makes of an ELF that can be signed.                            *)
LEMMA PlacedAre ==
  ASSUME NEW e, Signable(e), NEW o
  PROVE  LET placed == PlaceSegments(e, Selected(e, o), StartOf(e, o))
         IN  /\ placed.cursor = Cursed(e, o)[Count(e, o)] /\ placed.rows = RowsOf(e, o)
             /\ Last(placed.rows).data + Last(placed.rows).size = VersionStart(e, o)
             /\ [i \in DOMAIN placed.rows |-> Copy(placed.rows[i].data, placed.rows[i].size, e.headers[placed.rows[i].id].offset)] = BytesOf(e, o)
<1> DEFINE n == Count(e, o)
           placed == PlaceSegments(e, Selected(e, o), StartOf(e, o))
           row(k) == [id |-> Selected(e, o)[k], digest |-> Cursed(e, o)[k - 1], data |-> At(e, o, k), size |-> SizeOf(e, o, k)]
<1>1. DOMAIN Selected(e, o) = 1 .. n /\ n \in Nat /\ 1 <= n
  BY SelectedAre DEF Count
<1>2. placed = [cursor |-> Cursed(e, o)[n], rows |-> [k \in DOMAIN Selected(e, o) |-> row(k)]]
  BY Zenon DEF PlaceSegments, Cursed, Cursor, Count, At, DataAt, SizeOf
<1>3. placed.cursor = Cursed(e, o)[n] /\ placed.rows = [k \in 1 .. n |-> row(k)]
  <2> HIDE DEF row, n, placed
  <2>1. QED
    BY <1>1, <1>2
<1>4. [k \in 1 .. n |-> row(k)] = RowsOf(e, o)
  BY Zenon DEF RowsOf
<1>5. DOMAIN placed.rows = 1 .. n /\ Len(placed.rows) = n /\ \A k \in 1 .. n : placed.rows[k] = row(k)
  <2> HIDE DEF row, n, placed
  <2>1. QED
    BY <1>1, <1>3
<1>6. \A k \in 1 .. n : /\ placed.rows[k].data = At(e, o, k) /\ placed.rows[k].size = SizeOf(e, o, k)
                        /\ placed.rows[k].id = Selected(e, o)[k]
  <2> DEFINE rows == placed.rows
  <2>2. \A k \in 1 .. n : rows[k] = row(k)
    BY <1>5
  <2> HIDE DEF n, rows
  <2>3. \A k \in 1 .. n : rows[k].data = At(e, o, k) /\ rows[k].size = SizeOf(e, o, k) /\ rows[k].id = Selected(e, o)[k]
    <3>1. TAKE k \in 1 .. n
    <3> DEFINE r == rows[k]
    <3>2. r = [id |-> Selected(e, o)[k], digest |-> Cursed(e, o)[k - 1], data |-> At(e, o, k), size |-> SizeOf(e, o, k)]
      BY <2>2
    <3> HIDE DEF r
    <3>3. r.data = At(e, o, k) /\ r.size = SizeOf(e, o, k) /\ r.id = Selected(e, o)[k]
      BY <3>2
    <3>4. QED
      BY <3>3 DEF r
  <2>4. QED
    BY <2>3 DEF rows
<1> HIDE DEF row, n, placed
<1>7. Last(placed.rows) = placed.rows[n] /\ n \in 1 .. n
  BY <1>1, <1>5 DEF Last
<1>8. Last(placed.rows).data + Last(placed.rows).size = VersionStart(e, o)
  BY <1>6, <1>7 DEF VersionStart, n
<1>9. [i \in DOMAIN placed.rows |-> Copy(placed.rows[i].data, placed.rows[i].size, e.headers[placed.rows[i].id].offset)]
        = [k \in 1 .. n |-> Copy(At(e, o, k), SizeOf(e, o, k), e.headers[Selected(e, o)[k]].offset)]
  BY <1>5, <1>6, Zenon
<1>10. QED
  BY <1>3, <1>4, <1>8, <1>9 DEF BytesOf, placed, n

(* None of the errors of select_segments() and sign() occurs.                *)
LEMMA Unrefused ==
  ASSUME NEW e, Signable(e), NEW o
  PROVE  /\ ~Unmappable(e) /\ Selected(e, o) # <<>>
         /\ ~\E i \in ToSet(Selected(e, o)) : ~Fits(e.headers[i].offset, e.headers[i].size, e.size)
<1>1. DOMAIN e.headers = 1 .. HeaderCount /\ \A i \in 1 .. HeaderCount : e.headers[i].offset \in Nat /\ e.headers[i].size \in Nat
  BY HeaderIs
<1>2. /\ Len(Selected(e, o)) \in Nat /\ 1 <= Len(Selected(e, o)) /\ DOMAIN Selected(e, o) = 1 .. Len(Selected(e, o))
      /\ \A k \in 1 .. Len(Selected(e, o)) : Selected(e, o)[k] \in 1 .. HeaderCount
  BY SelectedAre
<1>3. ~Unmappable(e)
  BY <1>1 DEF Unmappable, Signable
<1>4. Selected(e, o) # <<>>
  BY <1>2
<1>5. e.size \in Nat /\ \A i \in 1 .. HeaderCount : e.headers[i].offset + e.headers[i].size <= e.size
  BY DEF Signable
<1>6. \A i \in 1 .. HeaderCount : Fits(e.headers[i].offset, e.headers[i].size, e.size)
  BY <1>1, <1>5 DEF Fits
<1>7. \A i \in ToSet(Selected(e, o)) : i \in 1 .. HeaderCount
  BY <1>2 DEF ToSet
<1>8. QED
  BY <1>3, <1>4, <1>6, <1>7

(* Signing fills the digest in and changes nothing else.                     *)
LEMMA SignIs ==
  ASSUME NEW e, Signable(e), NEW o
  PROVE  Sign(e, o) = [Boxed(e, o) EXCEPT !.digest = Digest(Boxed(e, o), Extract(Boxed(e, o)))]
<1> DEFINE placed == PlaceSegments(e, Selected(e, o), StartOf(e, o))
           start == Last(placed.rows).data + Last(placed.rows).size
           bytes == [i \in DOMAIN placed.rows |-> Copy(placed.rows[i].data, placed.rows[i].size, e.headers[placed.rows[i].id].offset)]
           built == [error |-> "none", headers |-> e.headers, headersAt |-> HeadersAt(e, o),
                     segments |-> SegmentTable(placed.rows), declared |-> placed.cursor,
                     size |-> Max({placed.cursor, start + Version(e).size}), digests |-> StartOf(e, o), digest |-> <<>>,
                     copies |-> <<Copy(HeadersAt(e, o), HeadersSize(e.headers), 0)>> \o bytes
                                 \o IF Version(e).size = 0 THEN <<>> ELSE <<Copy(start, Version(e).size, Version(e).offset)>>]
           long == HeaderEnd(e, o) >= SizeLimit \/ MetadataSize(2 * Count(e, o), o.magic) >= SizeLimit
           result == IF Extract(built).error # "none" THEN Extract(built)
                     ELSE [built EXCEPT !.digest = Digest(built, Extract(built))]
<1>1. Sign(e, o) = IF Unmappable(e) THEN [error |-> "mapped header without bytes"]
                   ELSE IF \E i \in ToSet(Selected(e, o)) : ~Fits(e.headers[i].offset, e.headers[i].size, e.size)
                        THEN [error |-> "segment past the input"]
                   ELSE IF Selected(e, o) = <<>> THEN [error |-> "no loadable content"]
                   ELSE IF long THEN [error |-> "header too large"] ELSE result
  BY Zenon DEF Sign, HeadersAt, HeaderEnd, StartOf, Count, Version
<1>2. ~long
  <2>1. HeaderEnd(e, o) \in Nat /\ HeaderEnd(e, o) < SizeLimit /\ MetadataSize(2 * Count(e, o), o.magic) < SizeLimit
    BY BoxNumbers
  <2>2. MetadataSize(2 * Count(e, o), o.magic) \in Nat /\ SizeLimit \in Nat
    BY BoxNumbers, SMT DEF MetadataSize, BlockSize, FooterSize, SizeLimit
  <2>3. QED
    BY <2>1, <2>2
<1>3. Sign(e, o) = result
  <2> HIDE DEF result, long
  <2>1. QED
    BY <1>1, <1>2, Unrefused, Zenon
<1>4. placed.cursor = Cursed(e, o)[Count(e, o)] /\ placed.rows = RowsOf(e, o) /\ start = VersionStart(e, o) /\ bytes = BytesOf(e, o)
  BY PlacedAre
<1>5. built = Boxed(e, o)
  <2> HIDE DEF placed, start, bytes
  <2>1. QED
    BY <1>4, Zenon DEF Boxed, CopiesOf
<1>6. Extract(Boxed(e, o)).error = "none"
  BY ExtractIs
<1> HIDE DEF built
<1>7. QED
  BY <1>3, <1>5, <1>6, Zenon

(* The container with its digest is rebuilt as the one without.              *)
LEMMA SealedIs ==
  ASSUME NEW e, Signable(e), NEW o
  PROVE  LET box == Sign(e, o)
         IN  /\ box.error = "none" /\ box.headers = e.headers /\ box.headersAt = HeadersAt(e, o) /\ box.segments = TableOf(e, o)
             /\ box.declared = Cursed(e, o)[Count(e, o)] /\ box.digests = StartOf(e, o) /\ box.copies = CopiesOf(e, o)
             /\ Extract(box) = [error |-> "none", size |-> ExtractedSize(e.headers), headers |-> e.headers, copies |-> Back(e, o)]
             /\ Digest(box, Extract(box)) = box.digest
<1> DEFINE plain == Boxed(e, o)
           digest == Digest(plain, Extract(plain))
           box == Sign(e, o)
<1>1. box = [plain EXCEPT !.digest = digest]
  BY SignIs
<1>2. /\ box.error = plain.error /\ box.headers = plain.headers /\ box.headersAt = plain.headersAt /\ box.segments = plain.segments
      /\ box.declared = plain.declared /\ box.size = plain.size /\ box.digests = plain.digests /\ box.copies = plain.copies
      /\ box.digest = digest
  <2> HIDE DEF box, digest
  <2>1. QED
    BY <1>1 DEF Boxed
<1>3. Extract(box) = Extract(plain)
  <2>1. SegmentCopies(box) = SegmentCopies(plain)
    <3> HIDE DEF box, plain, digest
    <3>1. QED
      BY <1>2, Zenon DEF SegmentCopies
  <2>2. ContentEnd(box) = ContentEnd(plain)
    <3> HIDE DEF box, plain, digest
    <3>1. QED
      BY <1>2, Zenon DEF ContentEnd
  <2>3. \A size : VersionCopy(box, size) = VersionCopy(plain, size)
    <3> HIDE DEF box, plain, digest
    <3>1. QED
      BY <1>2, <2>2, Zenon DEF VersionCopy
  <2> HIDE DEF box, plain, digest
  <2>4. QED
    BY <1>2, <2>1, <2>3, Zenon DEF Extract
<1>4. Digest(box, Extract(box)) = digest
  <2>1. \A again, p : RebuiltByte(box, again, p) = RebuiltByte(plain, again, p)
    <3> HIDE DEF box, plain, digest
    <3>1. QED
      BY <1>2, Zenon DEF RebuiltByte
  <2> HIDE DEF box, plain
  <2>2. Digest(box, Extract(plain)) = Digest(plain, Extract(plain))
    BY <1>2, <2>1 DEF Digest
  <2>3. QED
    BY <1>3, <2>2, Zenon
<1>5. QED
  <2>1. /\ plain.error = "none" /\ plain.headers = e.headers /\ plain.headersAt = HeadersAt(e, o) /\ plain.segments = TableOf(e, o)
        /\ plain.declared = Cursed(e, o)[Count(e, o)] /\ plain.digests = StartOf(e, o) /\ plain.copies = CopiesOf(e, o)
    BY BoxIs, Zenon
  <2>2. Extract(plain) = [error |-> "none", size |-> ExtractedSize(e.headers), headers |-> e.headers, copies |-> Back(e, o)]
    BY ExtractIs, Zenon
  <2> HIDE DEF digest, plain
  <2>3. /\ box.error = "none" /\ box.headers = e.headers /\ box.headersAt = HeadersAt(e, o) /\ box.segments = TableOf(e, o)
        /\ box.declared = Cursed(e, o)[Count(e, o)] /\ box.digests = StartOf(e, o) /\ box.copies = CopiesOf(e, o)
    BY <1>2, <2>1, Zenon
  <2>4. Extract(box) = [error |-> "none", size |-> ExtractedSize(e.headers), headers |-> e.headers, copies |-> Back(e, o)]
    BY <1>3, <2>2, Zenon
  <2>5. Digest(box, Extract(box)) = box.digest
    BY <1>2, <1>4, Zenon
  <2> HIDE DEF box
  <2>6. QED
    BY <2>3, <2>4, <2>5, Zenon DEF box

(* A position that a header, or the headers themselves, reach.               *)
Reached(e, p) ==
  p \in Nat /\ (p < HeadersSize(e.headers) \/ \E i \in 1 .. HeaderCount : p < e.headers[i].offset + e.headers[i].size)

(* What a header reaches lies inside the extracted file.                     *)
LEMMA Extents ==
  ASSUME NEW e, Signable(e), NEW p, Reached(e, p)
  PROVE  p < ExtractedSize(e.headers)
<1>1. /\ ExtractedSize(e.headers) \in Nat /\ HeadersSize(e.headers) \in Nat /\ HeadersSize(e.headers) <= ExtractedSize(e.headers)
      /\ \A i \in 1 .. HeaderCount : e.headers[i].offset + e.headers[i].size <= ExtractedSize(e.headers)
  BY ExtentIs
<1>2. \A i \in 1 .. HeaderCount : e.headers[i].offset \in Nat /\ e.headers[i].size \in Nat
  BY HeaderIs
<1>3. CASE p < HeadersSize(e.headers)
  BY <1>1, <1>3 DEF Reached
<1>4. ASSUME NEW i \in 1 .. HeaderCount, p < e.headers[i].offset + e.headers[i].size PROVE p < ExtractedSize(e.headers)
  BY <1>1, <1>2, <1>4 DEF Reached
<1>5. QED
  BY <1>3, <1>4 DEF Reached

(* Cutting off the sections takes nothing that a header reaches.              *)
LEMMA StripIs ==
  ASSUME NEW e, Signable(e), NEW o, NEW again,
         again = [error |-> "none", size |-> ExtractedSize(e.headers), headers |-> e.headers, copies |-> Back(e, o)]
  PROVE  /\ StripSections(again).error = "none" /\ StripSections(again).copies = Back(e, o)
         /\ \A p : Reached(e, p) => p < StripSections(again).size
<1> DEFINE size == ExtractedSize(e.headers)
           front == HeadersSize(e.headers)
           ends == {ElfHeaderSize, front} \cup {e.headers[i].offset + e.headers[i].size : i \in 1 .. HeaderCount}
           dynamic == \E h \in ToSet(e.headers) : h.type = "DYNAMIC"
           cut == Min({Max(ends), size})
<1>1. /\ size \in Nat /\ front \in Nat /\ front <= size
      /\ \A i \in 1 .. HeaderCount : e.headers[i].offset + e.headers[i].size <= size
  BY ExtentIs
<1>2. DOMAIN e.headers = 1 .. HeaderCount /\ \A i \in 1 .. HeaderCount : e.headers[i].offset \in Nat /\ e.headers[i].size \in Nat
  BY HeaderIs
<1>3. dynamic
  BY <1>2 DEF Signable, ToSet
<1>4. ElfHeaderSize \in Nat /\ ElfHeaderSize <= front
  BY SMT DEF ElfHeaderSize, HeadersSize, Signable, HeaderCount, ProgramHeaderSize
<1>5. \A x \in ends : x \in Nat /\ x <= size
  <2>1. TAKE x \in ends
  <2>2. CASE x = ElfHeaderSize \/ x = front
    <3> HIDE DEF size, front
    <3>1. QED
      BY <1>1, <1>4, <2>2
  <2>3. ASSUME NEW i \in 1 .. HeaderCount, x = e.headers[i].offset + e.headers[i].size PROVE x \in Nat /\ x <= size
    BY <1>1, <1>2, <2>3
  <2>4. QED
    BY <2>2, <2>3
<1>6. StripSections(again) = IF ~dynamic THEN [error |-> "nothing dynamic"] ELSE [again EXCEPT !.size = cut]
  <2>1. again.headers = e.headers /\ again.size = size
    OBVIOUS
  <2>2. StripSections(again) =
          IF ~\E h \in ToSet(again.headers) : h.type = "DYNAMIC" THEN [error |-> "nothing dynamic"]
          ELSE [again EXCEPT !.size = Min({Max({ElfHeaderSize, HeadersSize(again.headers)}
                       \cup {again.headers[i].offset + again.headers[i].size : i \in DOMAIN again.headers}), again.size})]
    BY Zenon DEF StripSections
  <2>3. {again.headers[i].offset + again.headers[i].size : i \in DOMAIN again.headers}
          = {e.headers[i].offset + e.headers[i].size : i \in 1 .. HeaderCount}
    BY <1>2, <2>1, Zenon
  <2> DEFINE headers == again.headers
             reach == {again.headers[i].offset + again.headers[i].size : i \in DOMAIN again.headers}
  <2>4. StripSections(again) = IF ~\E h \in ToSet(headers) : h.type = "DYNAMIC" THEN [error |-> "nothing dynamic"]
                               ELSE [again EXCEPT !.size = Min({Max({ElfHeaderSize, HeadersSize(headers)} \cup reach), again.size})]
    BY <2>2
  <2>5. headers = e.headers /\ again.size = size /\ reach = {e.headers[i].offset + e.headers[i].size : i \in 1 .. HeaderCount}
    BY <2>1, <2>3
  <2> HIDE DEF size, headers, reach
  <2>6. QED
    BY <2>4, <2>5, Zenon
<1> HIDE DEF dynamic
<1>7. StripSections(again) = [again EXCEPT !.size = cut]
  BY <1>3, <1>6, Zenon
<1>8. front \in ends /\ \A i \in 1 .. HeaderCount : e.headers[i].offset + e.headers[i].size \in ends
  OBVIOUS
<1>9. cut = Max(ends) /\ Max(ends) \in Nat /\ \A x \in ends : x <= Max(ends)
  <2> HIDE DEF ends, size, front
  <2>1. ends \in SUBSET Int /\ ends # {} /\ size \in Int
    BY <1>1, <1>5, <1>8
  <2>2. Max(ends) \in ends /\ \A x \in ends : x <= Max(ends)
    BY <1>5, <2>1, MaxIs
  <2>3. Max(ends) \in Nat /\ Max(ends) <= size
    BY <1>5, <2>2
  <2> DEFINE m == Max(ends)
  <2> HIDE DEF m
  <2>4. {m, size} \in SUBSET Nat /\ {m, size} # {}
    BY <1>1, <2>3 DEF m
  <2>5. Min({m, size}) \in {m, size} /\ \A x \in {m, size} : Min({m, size}) <= x
    BY <2>4, MinIs
  <2>6. Min({m, size}) = m
    BY <1>1, <2>3, <2>4, <2>5 DEF m
  <2>7. QED
    BY <2>2, <2>3, <2>6 DEF m
<1> HIDE DEF ends, cut, size
<1>10. StripSections(again).error = "none" /\ StripSections(again).copies = Back(e, o) /\ StripSections(again).size = cut
  BY <1>7
<1>11. ASSUME NEW p, Reached(e, p) PROVE p < cut
  <2>1. CASE p < front
    BY <1>1, <1>8, <1>9, <2>1, <1>11 DEF Reached
  <2>2. ASSUME NEW i \in 1 .. HeaderCount, p < e.headers[i].offset + e.headers[i].size PROVE p < cut
    BY <1>2, <1>8, <1>9, <2>2, <1>11 DEF Reached
  <2>3. QED
    BY <1>11, <2>1, <2>2 DEF Reached
<1>12. QED
  BY <1>10, <1>11

(* Every range that has to come back is reached, and some copy covers it.      *)
KeptOf(e) ==
    {InFile(e.headers[i]) : i \in ToSet(Selected(e, [procparam |-> FALSE]))}
        \cup {[at |-> 0, size |-> HeadersSize(e.headers)]}
        \cup {InFile(h) : h \in {h \in ToSet(e.headers) : h.type = "VERSION"}}

(* What the console keeps of an ELF is copied back.                          *)
LEMMA ComesBack ==
  ASSUME NEW e, Signable(e), NEW o, NEW range \in KeptOf(e), NEW p \in range.at .. End(range) - 1
  PROVE  Reached(e, p) /\ \E c \in Range(Back(e, o)) : Covers(c, p)
<1>1. DOMAIN e.headers = 1 .. HeaderCount /\ \A i \in 1 .. HeaderCount : e.headers[i].offset \in Nat /\ e.headers[i].size \in Nat
  BY HeaderIs
<1>2. HeadersSize(e.headers) \in Nat
  BY ExtentIs
<1>3. /\ FrontBack(e, o) \in Range(Back(e, o))
      /\ \A k \in 1 .. Count(e, o) : CopyBack(e, o, k) \in Range(Back(e, o))
      /\ Version(e).size # 0 => Copy(Version(e).offset, Version(e).size, VersionStart(e, o)) \in Range(Back(e, o))
  BY BackIs
<1>4. ASSUME NEW i \in 1 .. HeaderCount, range = InFile(e.headers[i])
      PROVE  Reached(e, p) /\ \A from : Covers(Copy(e.headers[i].offset, e.headers[i].size, from), p)
  <2>1. range.at = e.headers[i].offset /\ End(range) = e.headers[i].offset + e.headers[i].size
    BY <1>4 DEF InFile, End
  <2>2. p \in Nat /\ e.headers[i].offset <= p /\ p < e.headers[i].offset + e.headers[i].size
    BY <1>1, <2>1
  <2>3. QED
    BY <2>2 DEF Reached, Covers, Copy
<1>5. ASSUME NEW i \in ToSet(Selected(e, [procparam |-> FALSE])), range = InFile(e.headers[i])
      PROVE  Reached(e, p) /\ \E c \in Range(Back(e, o)) : Covers(c, p)
  <2> DEFINE least == [procparam |-> FALSE]
  <2>1. i \in 1 .. HeaderCount /\ Chosen(e, least, i)
    <3>1. /\ DOMAIN Selected(e, least) = 1 .. Len(Selected(e, least))
          /\ \A k \in 1 .. Len(Selected(e, least)) : Selected(e, least)[k] \in 1 .. HeaderCount /\ Chosen(e, least, Selected(e, least)[k])
      BY SelectedAre
    <3>2. QED
      BY <3>1 DEF ToSet
  <2>2. Chosen(e, o, i)
    BY <2>1 DEF Chosen, SelectedTypes
  <2>3. PICK k \in 1 .. Count(e, o) : Selected(e, o)[k] = i
    BY <2>1, <2>2, SelectedAre DEF Count
  <2>4. CopyBack(e, o, k) = Copy(e.headers[i].offset, e.headers[i].size, At(e, o, k))
    BY <2>3 DEF CopyBack, SizeOf
  <2>5. QED
    BY <1>3, <1>4, <1>5, <2>1, <2>4
<1>6. ASSUME range = [at |-> 0, size |-> HeadersSize(e.headers)]
      PROVE  Reached(e, p) /\ \E c \in Range(Back(e, o)) : Covers(c, p)
  <2>1. range.at = 0 /\ End(range) = HeadersSize(e.headers)
    BY <1>2, <1>6 DEF End
  <2>2. p \in Nat /\ p < HeadersSize(e.headers)
    BY <1>2, <2>1
  <2>3. Covers(FrontBack(e, o), p)
    BY <1>2, <2>2 DEF Covers, FrontBack, Copy
  <2>4. QED
    BY <1>3, <2>2, <2>3 DEF Reached
<1>7. ASSUME NEW h \in ToSet(e.headers), h.type = "VERSION", range = InFile(h)
      PROVE  Reached(e, p) /\ \E c \in Range(Back(e, o)) : Covers(c, p)
  <2>1. PICK j \in 1 .. HeaderCount : h = e.headers[j]
    BY <1>1 DEF ToSet
  <2>2. /\ Version(e).size = e.headers[j].size /\ (Version(e).size # 0 => Version(e).offset = e.headers[j].offset)
    BY <1>7, <2>1, VersionHeader
  <2>3. Reached(e, p) /\ \A from : Covers(Copy(e.headers[j].offset, e.headers[j].size, from), p)
    BY <1>4, <1>7, <2>1
  <2>4. e.headers[j].size # 0
    <3>1. range.at = e.headers[j].offset /\ End(range) = e.headers[j].offset + e.headers[j].size
      BY <1>7, <2>1 DEF InFile, End
    <3>2. QED
      BY <1>1, <3>1
  <2>5. QED
    BY <1>3, <2>2, <2>3, <2>4
<1>8. QED
  BY <1>5, <1>6, <1>7 DEF KeptOf

(* The regions of a container.                                               *)
LEMMA RegionsApart ==
  ASSUME NEW e, Signable(e), NEW o, NEW box, box.segments = TableOf(e, o), box.declared = Cursed(e, o)[Count(e, o)],
         box.digests = StartOf(e, o), box.headersAt = HeadersAt(e, o)
  PROVE  LET regions == {[at |-> s.offset, size |-> s.size] : s \in ToSet(box.segments)}
         IN  /\ \A a, b \in regions : a = b \/ Disjoint(a, b)
             /\ \A a \in regions : a.at >= box.digests /\ End(a) <= box.declared
             /\ HeaderSize + EntrySize * Len(box.segments) = box.headersAt
<1> DEFINE n == 2 * Count(e, o)
           t == TableOf(e, o)
           region(j) == [at |-> t[j].offset, size |-> t[j].size]
           regions == {[at |-> s.offset, size |-> s.size] : s \in ToSet(box.segments)}
<1>1. DOMAIN t = 1 .. n /\ Len(t) = n /\ n \in Nat
  BY TableIs, BoxNumbers
<1>2. ASSUME NEW a \in regions PROVE \E j \in 1 .. n : a = region(j)
  <2>1. PICK s \in ToSet(box.segments) : a = [at |-> s.offset, size |-> s.size]
    OBVIOUS
  <2>2. PICK j \in 1 .. n : s = t[j]
    <3> HIDE DEF t, n
    <3>1. box.segments = t
      BY DEF t
    <3>2. QED
      BY <1>1, <3>1 DEF ToSet
  <2>3. QED
    BY <2>1, <2>2
<1>3. ASSUME NEW j \in 1 .. n
      PROVE  /\ region(j).at = t[j].offset /\ End(region(j)) = t[j].offset + t[j].size /\ t[j].offset \in Nat /\ t[j].size \in Nat
             /\ StartOf(e, o) <= t[j].offset /\ t[j].offset + t[j].size <= Cursed(e, o)[Count(e, o)]
             /\ Cursed(e, o)[Count(e, o)] \in Nat /\ StartOf(e, o) \in Nat
  <2>1. /\ t[j].offset \in Nat /\ t[j].size \in Nat /\ StartOf(e, o) <= t[j].offset
        /\ t[j].offset + t[j].size <= VersionStart(e, o) /\ VersionStart(e, o) <= Cursed(e, o)[Count(e, o)]
        /\ VersionStart(e, o) \in Nat /\ Cursed(e, o)[Count(e, o)] \in Nat
    BY SegmentIs
  <2>2. StartOf(e, o) \in Nat
    BY BoxNumbers
  <2>3. t[j].offset + t[j].size <= Cursed(e, o)[Count(e, o)]
    <3> HIDE DEF t, n
    <3>1. QED
      BY <2>1
  <2>4. region(j).at = t[j].offset /\ End(region(j)) = t[j].offset + t[j].size
    BY DEF End
  <2>5. QED
    BY <2>1, <2>2, <2>3, <2>4
<1>4. ASSUME NEW i \in 1 .. n, NEW j \in 1 .. n PROVE i = j \/ Disjoint(region(i), region(j))
  <2>1. i = j \/ i < j \/ j < i
    <3> HIDE DEF n
    <3>1. QED
      BY <1>1
  <2>2. i < j => t[i].offset + t[i].size <= t[j].offset
    BY SegmentsApart
  <2>3. j < i => t[j].offset + t[j].size <= t[i].offset
    BY SegmentsApart
  <2> HIDE DEF region, t, n
  <2>4. QED
    BY <1>3, <2>1, <2>2, <2>3 DEF Disjoint
<1>5. HeaderSize + EntrySize * n = HeadersAt(e, o)
  <2>1. Count(e, o) \in Nat
    BY BoxNumbers
  <2>2. QED
    BY <2>1, SMT DEF HeadersAt, HeaderSize, EntrySize
<1>6. \A a, b \in regions : a = b \/ Disjoint(a, b)
  <2> HIDE DEF region, regions, n
  <2>1. QED
    BY <1>2, <1>4
<1>7. \A a \in regions : a.at >= box.digests /\ End(a) <= box.declared
  <2>1. TAKE a \in regions
  <2>2. PICK j \in 1 .. n : a = region(j)
    BY <1>2
  <2> HIDE DEF region, regions, n, t
  <2>3. QED
    BY <1>3, <2>2
<1>8. HeaderSize + EntrySize * Len(box.segments) = box.headersAt
  BY <1>1, <1>5
<1>9. QED
  BY <1>6, <1>7, <1>8
=============================================================================
