------------------------------ MODULE Recursion ------------------------------
(***************************************************************************)
(* What the theorems need of definitions by recursion: a chain of pointers *)
(* that goes down, or a count that goes up, defines one function, and what *)
(* every step keeps holds of all its values.                               *)
(***************************************************************************)
EXTENDS Integers, FiniteSetTheorems, WellFoundedInduction, TLAPS

(* A non-empty set of naturals has a least element.                        *)
LEMMA LeastNumber ==
    ASSUME NEW S \in SUBSET Nat, S # {}
    PROVE  \E m \in S : \A y \in S : m <= y
  <1> DEFINE R == {ss \in Nat \X Nat : ss[1] < ss[2]}
  <1>1. OpToRel(<, Nat) = R
    BY Zenon DEF OpToRel
  <1>2. IsWellFoundedOn(R, Nat)
    BY <1>1, NatLessThanWellFounded, Zenon
  <1>3. PICK m \in S : \A y \in S : <<y, m>> \notin R
    <2> HIDE DEF R
    <2>. QED
      BY <1>2, WFMin, Zenon
  <1>4. ASSUME NEW y \in S
        PROVE  m <= y
    <2>1. y \in Nat /\ m \in Nat
      OBVIOUS
    <2>2. y < m => <<y, m>> \in R
      BY <2>1
    <2>. QED
      BY <1>3, <2>1, <2>2
  <1>. QED
    BY <1>4

(* Whatever holds of 0, and of n when it holds of n - 1, holds up to N.    *)
LEMMA InductionUp ==
    ASSUME NEW N \in Nat, NEW P, 0 \in P, \A n \in 1..N : n - 1 \in P => n \in P
    PROVE  \A n \in 0..N : n \in P
  <1> DEFINE Others == (0..N) \ P
  <1>1. SUFFICES ASSUME Others # {}
                 PROVE  FALSE
    OBVIOUS
  <1>2. PICK n \in Others : \A m \in Others : n <= m
    <2>1. Others \in SUBSET Nat
      OBVIOUS
    <2> HIDE DEF Others
    <2>. QED
      BY <1>1, <2>1, LeastNumber
  <1>3. n \in 1..N /\ n - 1 \in 0..N /\ ~ (n <= n - 1)
    OBVIOUS
  <1>. QED
    BY <1>2, <1>3

(* g follows the recursion on the members of S up to n: those of Stop take *)
(* their value from start, any other i takes one from step and from what   *)
(* its predecessor prior[i] got.                                           *)
UpTo(S, n) == {i \in S : i <= n}
Solves(g, S, n, Stop, prior, start, step) ==
    g = [i \in UpTo(S, n) |-> IF i \in Stop THEN start[i] ELSE step[<<i, g[prior[i]]>>]]

(* Two solutions agree wherever both are defined.                          *)
LEMMA SolutionsAgree ==
    ASSUME NEW S \in SUBSET Nat, NEW Stop, NEW prior, NEW start, NEW step,
           \A i \in S : i \notin Stop => prior[i] \in S /\ prior[i] < i,
           NEW m \in Nat, NEW n \in Nat, m <= n,
           NEW g, NEW h, Solves(g, S, m, Stop, prior, start, step),
           Solves(h, S, n, Stop, prior, start, step)
    PROVE  \A i \in UpTo(S, m) : g[i] = h[i]
  <1> DEFINE Differ == {i \in UpTo(S, m) : g[i] # h[i]}
  <1>1. SUFFICES ASSUME Differ # {}
                 PROVE  FALSE
    OBVIOUS
  <1>2. PICK i \in Differ : \A j \in Differ : i <= j
    <2>1. Differ \in SUBSET Nat
      BY DEF UpTo
    <2> HIDE DEF Differ
    <2>. QED
      BY <1>1, <2>1, LeastNumber
  <1>3. i \in S /\ i \in Nat /\ i <= m /\ i <= n /\ g[i] # h[i]
    BY <1>2 DEF UpTo
  <1>4. /\ g[i] = IF i \in Stop THEN start[i] ELSE step[<<i, g[prior[i]]>>]
        /\ h[i] = IF i \in Stop THEN start[i] ELSE step[<<i, h[prior[i]]>>]
    <2>1. i \in UpTo(S, m) /\ i \in UpTo(S, n)
      BY <1>3 DEF UpTo
    <2>. QED
      BY <2>1, Zenon DEF Solves
  <1>5. i \notin Stop /\ prior[i] \in S /\ prior[i] < i
    BY <1>3, <1>4
  <1>6. prior[i] \in Nat /\ prior[i] \in UpTo(S, m)
    <2>1. prior[i] \in Nat
      BY <1>5
    <2>. QED
      BY <1>3, <1>5, <2>1 DEF UpTo
  <1>7. g[prior[i]] = h[prior[i]]
    BY <1>2, <1>3, <1>5, <1>6
  <1>. QED
    BY <1>3, <1>4, <1>5, <1>7

(* There is a solution up to every bound.                                  *)
LEMMA SolutionsExist ==
    ASSUME NEW S \in SUBSET Nat, NEW Stop, NEW prior, NEW start, NEW step,
           \A i \in S : i \notin Stop => prior[i] \in S /\ prior[i] < i
    PROVE  \A n \in Nat : \E g : Solves(g, S, n, Stop, prior, start, step)
  <1> DEFINE Unsolved == {n \in Nat : ~ \E g : Solves(g, S, n, Stop, prior, start, step)}
  <1>1. SUFFICES ASSUME Unsolved # {}
                 PROVE  FALSE
    OBVIOUS
  <1>2. PICK n \in Unsolved : \A m \in Unsolved : n <= m
    <2>1. Unsolved \in SUBSET Nat
      OBVIOUS
    <2> HIDE DEF Unsolved
    <2>. QED
      BY <1>1, <2>1, LeastNumber
  <1>3. n \in Nat
    OBVIOUS
  <1>4. PICK g : n > 0 => Solves(g, S, n - 1, Stop, prior, start, step)
    <2>1. n > 0 => n - 1 \in Nat /\ n - 1 \notin Unsolved
      BY <1>2, <1>3
    <2>. QED
      BY <2>1
  <1> DEFINE h == [i \in UpTo(S, n) |-> IF i \in Stop THEN start[i] ELSE step[<<i, g[prior[i]]>>]]
  <1>5. ASSUME NEW i \in UpTo(S, n), i < n
        PROVE  h[i] = g[i]
    <2>1. n > 0 /\ i \in UpTo(S, n - 1) /\ i \in Nat
      BY <1>3, <1>5 DEF UpTo
    <2>2. g[i] = IF i \in Stop THEN start[i] ELSE step[<<i, g[prior[i]]>>]
      BY <1>4, <2>1, Zenon DEF Solves
    <2>. QED
      BY <1>5, <2>1, <2>2
  <1>6. ASSUME NEW i \in UpTo(S, n), i \notin Stop
        PROVE  h[i] = step[<<i, h[prior[i]]>>]
    <2>1. i \in S /\ i \in Nat /\ i <= n /\ prior[i] \in S /\ prior[i] < i /\ prior[i] \in Nat
      BY <1>6 DEF UpTo
    <2>2. prior[i] \in UpTo(S, n) /\ prior[i] < n
      BY <1>3, <2>1 DEF UpTo
    <2>3. h[prior[i]] = g[prior[i]]
      BY <1>5, <2>2
    <2>. QED
      BY <1>6, <2>3
  <1>7. h = [i \in UpTo(S, n) |-> IF i \in Stop THEN start[i] ELSE step[<<i, h[prior[i]]>>]]
    <2>1. \A i \in UpTo(S, n) : i \in Stop => h[i] = start[i]
      OBVIOUS
    <2>2. h = [i \in UpTo(S, n) |-> h[i]]
      OBVIOUS
    <2> HIDE DEF h
    <2>. QED
      BY <1>6, <2>1, <2>2
  <1>8. Solves(h, S, n, Stop, prior, start, step)
    <2> HIDE DEF h
    <2>. QED
      BY <1>7, Zenon DEF Solves
  <1>. QED
    BY <1>8

(* r follows the recursion on all of S.                                    *)
Obeys(r, S, Stop, prior, start, step) ==
    r = [i \in S |-> IF i \in Stop THEN start[i] ELSE step[<<i, r[prior[i]]>>]]

(* A recursion that always goes down has a solution on the whole set.      *)
LEMMA RecursionSolved ==
    ASSUME NEW S \in SUBSET Nat, NEW Stop, NEW prior, NEW start, NEW step,
           \A i \in S : i \notin Stop => prior[i] \in S /\ prior[i] < i
    PROVE  \E r : Obeys(r, S, Stop, prior, start, step)
  <1> DEFINE G(n) == CHOOSE g : Solves(g, S, n, Stop, prior, start, step)
             r == [i \in S |-> G(i)[i]]
  <1>1. ASSUME NEW n \in Nat
        PROVE  Solves(G(n), S, n, Stop, prior, start, step)
    BY SolutionsExist, Zenon
  <1>2. ASSUME NEW i \in S
        PROVE  r[i] = IF i \in Stop THEN start[i] ELSE step[<<i, r[prior[i]]>>]
    <2>1. i \in Nat /\ i \in UpTo(S, i) /\ r[i] = G(i)[i]
      BY DEF UpTo
    <2>2. G(i)[i] = IF i \in Stop THEN start[i] ELSE step[<<i, G(i)[prior[i]]>>]
      <3> HIDE DEF G
      <3>. QED
        BY <1>1, <2>1, Zenon DEF Solves
    <2>3. CASE i \in Stop
      BY <2>1, <2>2, <2>3
    <2>4. CASE i \notin Stop
      <3> DEFINE j == prior[i]
      <3>1. j \in S /\ j \in Nat /\ j < i /\ j <= i
        <4>1. j \in S /\ j < i
          BY <2>4
        <4>2. j \in Nat
          BY <4>1
        <4>. QED
          BY <2>1, <4>1, <4>2
      <3>2. j \in UpTo(S, j)
        BY <3>1 DEF UpTo
      <3>3. G(j)[j] = G(i)[j]
        <4> HIDE DEF G
        <4>. QED
          BY <1>1, <2>1, <3>1, <3>2, SolutionsAgree
      <3>4. r[j] = G(j)[j]
        BY <3>1
      <3>. QED
        <4> HIDE DEF r, G
        <4>. QED
          BY <2>1, <2>2, <2>4, <3>3, <3>4
    <2>. QED
      BY <2>3, <2>4
  <1>3. r = [i \in S |-> r[i]]
    OBVIOUS
  <1>4. r = [i \in S |-> IF i \in Stop THEN start[i] ELSE step[<<i, r[prior[i]]>>]]
    <2> HIDE DEF r
    <2>. QED
      BY <1>2, <1>3
  <1>5. Obeys(r, S, Stop, prior, start, step)
    <2> HIDE DEF r
    <2>. QED
      BY <1>4, Zenon DEF Obeys
  <1>. QED
    BY <1>5

(* A solution only takes the values start and step give.                   *)
LEMMA RecursionTyped ==
    ASSUME NEW S \in SUBSET Nat, NEW Stop, NEW prior, NEW start, NEW step, NEW V,
           \A i \in S : i \notin Stop => prior[i] \in S /\ prior[i] < i,
           \A i \in S : i \in Stop => start[i] \in V,
           \A i \in S, x \in V : i \notin Stop => step[<<i, x>>] \in V,
           NEW r, Obeys(r, S, Stop, prior, start, step)
    PROVE  \A i \in S : r[i] \in V
  <1> DEFINE Odd == {i \in S : r[i] \notin V}
  <1>1. SUFFICES ASSUME Odd # {}
                 PROVE  FALSE
    OBVIOUS
  <1>2. PICK i \in Odd : \A j \in Odd : i <= j
    <2>1. Odd \in SUBSET Nat
      OBVIOUS
    <2> HIDE DEF Odd
    <2>. QED
      BY <1>1, <2>1, LeastNumber
  <1>3. i \in S /\ i \in Nat /\ r[i] \notin V
    OBVIOUS
  <1>4. r[i] = IF i \in Stop THEN start[i] ELSE step[<<i, r[prior[i]]>>]
    BY <1>3, Zenon DEF Obeys
  <1>5. i \notin Stop
    BY <1>3, <1>4
  <1>6. prior[i] \in S /\ prior[i] < i
    BY <1>3, <1>5
  <1>7. prior[i] \in Nat
    BY <1>6
  <1>8. r[prior[i]] \in V
    BY <1>2, <1>3, <1>6, <1>7
  <1>. QED
    BY <1>3, <1>4, <1>5, <1>8

(* A set of the first N numbers that has, with every number, the one before *)
(* is the first numbers, as many as it has.                                *)
LEMMA PrefixCount ==
    ASSUME NEW N \in Nat, NEW S \in SUBSET (1..N), \A k \in 2..N : k \in S => k - 1 \in S
    PROVE  S = 1..Cardinality(S) /\ Cardinality(S) \in 0..N
  <1> DEFINE Missing == {m \in 1..(N + 1) : m \notin S}
  <1>1. Missing \in SUBSET Nat /\ N + 1 \in Missing
    OBVIOUS
  <1>2. PICK m \in Missing : \A y \in Missing : m <= y
    <2> HIDE DEF Missing
    <2>. QED
      BY <1>1, LeastNumber
  <1>3. m \in 1..(N + 1) /\ m \notin S
    OBVIOUS
  <1>4. \A x \in 1..(m - 1) : x \in S
    <2>1. \A x \in 1..(m - 1) : x \in 1..(N + 1) /\ x \in Nat /\ ~ (m <= x)
      BY <1>3
    <2>. QED
      BY <1>2, <2>1
  <1>5. \A j \in 0..N : m + j \notin S
    <2> DEFINE P == {j \in 0..N : m + j \notin S}
    <2>1. 0 \in P
      BY <1>3
    <2>2. ASSUME NEW j \in 1..N, j - 1 \in P
          PROVE  j \in P
      <3>1. m + (j - 1) \notin S /\ (m + j) - 1 = m + (j - 1)
        BY <1>3, <2>2
      <3>2. m + j \in S => m + j \in 2..N
        BY <1>3
      <3>. QED
        BY <1>3, <3>1, <3>2
    <2>3. \A j \in 0..N : j \in P
      <3> HIDE DEF P
      <3>. QED
        BY <2>1, <2>2, InductionUp
    <2>. QED
      BY <2>3
  <1>6. \A x \in S : x \in 1..(m - 1)
    <2> SUFFICES ASSUME NEW x \in S, x >= m
                 PROVE  FALSE
      BY <1>3
    <2>1. x - m \in 0..N /\ x = m + (x - m)
      BY <1>3
    <2>. QED
      BY <1>5, <2>1
  <1>7. S = 1..(m - 1)
    BY <1>4, <1>6
  <1>8. Cardinality(1..(m - 1)) = m - 1
    BY <1>3, FS_Interval
  <1>. QED
    BY <1>3, <1>7, <1>8

(* f is computed from 0 up: base first, then by step from the value before. *)
CountsUp(f, N, V, base, step) ==
    /\ f \in [0..N -> V] /\ f[0] = base
    /\ \A n \in 1..N : f[n] = step[<<n, f[n - 1]>>]

(* Such a count exists, and only takes the values the step keeps to.       *)
LEMMA CountingUp ==
    ASSUME NEW N \in Nat, NEW V, NEW base \in V, NEW step,
           \A n \in 1..N, x \in V : step[<<n, x>>] \in V
    PROVE  \E f : CountsUp(f, N, V, base, step)
  <1> DEFINE S == 0..N
             prior == [n \in S |-> n - 1]
             start == [n \in S |-> base]
  <1>1. /\ S \in SUBSET Nat
        /\ \A n \in S : n \notin {0} => prior[n] \in S /\ prior[n] < n /\ prior[n] = n - 1
    OBVIOUS
  <1>2. PICK f : Obeys(f, S, {0}, prior, start, step)
    <2> HIDE DEF S, prior, start
    <2>. QED
      BY <1>1, RecursionSolved
  <1>3. \A n \in S : f[n] \in V
    <2>1. /\ \A n \in S : n \in {0} => start[n] \in V
          /\ \A n \in S, x \in V : n \notin {0} => step[<<n, x>>] \in V
      OBVIOUS
    <2> HIDE DEF S, prior, start
    <2>. QED
      BY <1>1, <1>2, <2>1, RecursionTyped
  <1>4. ASSUME NEW n \in S
        PROVE  f[n] = IF n = 0 THEN base ELSE step[<<n, f[n - 1]>>]
    <2>1. f[n] = IF n \in {0} THEN start[n] ELSE step[<<n, f[prior[n]]>>]
      <3> HIDE DEF S, prior, start
      <3>. QED
        BY <1>2, Zenon DEF Obeys
    <2>2. start[n] = base
      OBVIOUS
    <2>3. prior[n] = n - 1
      OBVIOUS
    <2> HIDE DEF S, prior, start
    <2>. QED
      BY <2>1, <2>2, <2>3
  <1>5. f = [n \in S |-> f[n]]
    <2> HIDE DEF S, prior, start
    <2>. QED
      BY <1>2, Zenon DEF Obeys
  <1>6. f \in [S -> V]
    <2> HIDE DEF S, prior, start
    <2>. QED
      BY <1>3, <1>5
  <1>7. f[0] = base /\ \A n \in 1..N : f[n] = step[<<n, f[n - 1]>>]
    <2> HIDE DEF prior, start
    <2>1. 0 \in S
      OBVIOUS
    <2>2. f[0] = base
      <3> HIDE DEF S
      <3>. QED
        BY <1>4, <2>1
    <2>3. ASSUME NEW n \in 1..N
          PROVE  f[n] = step[<<n, f[n - 1]>>]
      <3>1. n \in S /\ n # 0
        OBVIOUS
      <3> HIDE DEF S
      <3>. QED
        BY <1>4, <3>1
    <2>. QED
      BY <2>2, <2>3
  <1>8. CountsUp(f, N, V, base, step)
    BY <1>6, <1>7 DEF CountsUp
  <1>. QED
    BY <1>8, Zenon
(* There is only one: whatever obeys the step from values in V is f.       *)
LEMMA CountedOnce ==
    ASSUME NEW N \in Nat, NEW V, NEW base \in V, NEW step, NEW f, CountsUp(f, N, V, base, step),
           NEW g, g = [n \in 0..N |-> g[n]], g[0] = base,
           \A n \in 1..N : g[n - 1] \in V => g[n] = step[<<n, g[n - 1]>>]
    PROVE  g = f
  <1> DEFINE P == {n \in 0..N : g[n] = f[n]}
  <1>1. /\ f \in [0..N -> V] /\ f[0] = base
        /\ \A n \in 1..N : f[n] = step[<<n, f[n - 1]>>]
    BY DEF CountsUp
  <1>2. 0 \in P
    BY <1>1
  <1>3. ASSUME NEW n \in 1..N, n - 1 \in P
        PROVE  n \in P
    <2>1. n \in 0..N /\ n - 1 \in 0..N
      OBVIOUS
    <2>2. g[n - 1] = f[n - 1] /\ f[n - 1] \in V
      BY <1>1, <1>3, <2>1
    <2>3. g[n] = step[<<n, f[n - 1]>>]
      BY <2>2
    <2>. QED
      BY <1>1, <2>1, <2>3
  <1>4. \A n \in 0..N : n \in P
    <2> HIDE DEF P
    <2>. QED
      BY <1>2, <1>3, InductionUp
  <1>. QED
    BY <1>1, <1>4

(* The totals of a row of N, as a recursive function adds them up.         *)
Totals(N, w) == CHOOSE f : f = [n \in 0..N |-> IF n = 0 THEN 0 ELSE f[n - 1] + w[n]]

(* They follow their recursion, in any set V that adding keeps to.         *)
LEMMA RunningTotals ==
    ASSUME NEW N \in Nat, NEW V, 0 \in V, NEW w, \A n \in 1..N, x \in V : x + w[n] \in V
    PROVE  /\ Totals(N, w) \in [0..N -> V]
           /\ Totals(N, w)[0] = 0
           /\ \A k \in 1..N : Totals(N, w)[k] = Totals(N, w)[k - 1] + w[k]
  <1> DEFINE total == Totals(N, w)
             step == [q \in (1..N) \X V |-> q[2] + w[q[1]]]
             Good(f) == f = [n \in 0..N |-> IF n = 0 THEN 0 ELSE f[n - 1] + w[n]]
  <1>1. \A n \in 1..N, x \in V : step[<<n, x>>] = x + w[n] /\ step[<<n, x>>] \in V
    OBVIOUS
  <1>2. PICK f : CountsUp(f, N, V, 0, step)
    <2> HIDE DEF step
    <2>. QED
      BY <1>1, CountingUp
  <1>3. /\ f \in [0..N -> V] /\ f[0] = 0
        /\ \A n \in 1..N : f[n] = f[n - 1] + w[n]
    <2>1. /\ f \in [0..N -> V] /\ f[0] = 0
          /\ \A n \in 1..N : f[n] = step[<<n, f[n - 1]>>]
      BY <1>2 DEF CountsUp
    <2>2. \A n \in 1..N : f[n - 1] \in V
      BY <2>1
    <2> HIDE DEF step
    <2>. QED
      BY <1>1, <2>1, <2>2
  <1>4. Good(f)
    <2>1. ASSUME NEW n \in 0..N
          PROVE  f[n] = IF n = 0 THEN 0 ELSE f[n - 1] + w[n]
      BY <1>3
    <2>2. f = [n \in 0..N |-> f[n]]
      BY <1>3
    <2>. QED
      BY <2>1, <2>2, Zenon
  <1>5. Good(total)
    <2>1. total = CHOOSE g : Good(g)
      BY Zenon DEF Totals
    <2> HIDE DEF Good
    <2>. QED
      BY <1>4, <2>1, Zenon
  <1>6. /\ DOMAIN total = 0..N
        /\ \A n \in 0..N : total[n] = IF n = 0 THEN 0 ELSE total[n - 1] + w[n]
        /\ total = [n \in 0..N |-> total[n]]
    <2> HIDE DEF total
    <2>. QED
      BY <1>5, Zenon
  <1> HIDE DEF total
  <1>7. total[0] = 0 /\ \A n \in 1..N : total[n] = total[n - 1] + w[n]
    <2>1. 0 \in 0..N /\ \A n \in 1..N : n \in 0..N /\ n # 0
      OBVIOUS
    <2>. QED
      BY <1>6, <2>1, Zenon
  <1>8. total = f
    <2>1. \A n \in 1..N : total[n - 1] \in V => total[n] = step[<<n, total[n - 1]>>]
      BY <1>1, <1>7
    <2> HIDE DEF step
    <2>. QED
      BY <1>2, <1>6, <1>7, <2>1, CountedOnce
  <1>. QED
    BY <1>3, <1>8 DEF total
-----------------------------------------------------------------------------
(* f adds g up over every subset of S, one chosen member at a time: what   *)
(* the library's MapThenSumSet computes.                                   *)
Pick(s) == CHOOSE x \in s : TRUE
Sums(f, T, g) ==
    f = [s \in T |-> IF s = {} THEN 0 ELSE g[Pick(s)] + f[s \ {Pick(s)}]]

Small(S, n) == {s \in SUBSET S : Cardinality(s) <= n}

(* A subset of S without a member that was picked is smaller by one.       *)
LEMMA PickShrinks ==
    ASSUME NEW S, IsFiniteSet(S), NEW s \in SUBSET S
    PROVE  /\ Cardinality(s) \in Nat /\ (Cardinality(s) = 0 <=> s = {})
           /\ s # {} => /\ Pick(s) \in s
                        /\ s \ {Pick(s)} \in SUBSET S
                        /\ Cardinality(s \ {Pick(s)}) = Cardinality(s) - 1
  <1>1. IsFiniteSet(s)
    BY FS_Subset
  <1>2. s # {} => Pick(s) \in s
    BY DEF Pick
  <1>3. s # {} => Cardinality(s \ {Pick(s)}) = Cardinality(s) - 1
    BY <1>1, <1>2, FS_RemoveElement
  <1>. QED
    BY <1>1, <1>2, <1>3, FS_CardinalityType, FS_EmptySet

(* A finite set can be added up.                                           *)
LEMMA SumsExist ==
    ASSUME NEW S, IsFiniteSet(S), NEW g
    PROVE  \E f : Sums(f, SUBSET S, g)
  <1> DEFINE N == Cardinality(S)
             P == {n \in Nat : \E f : Sums(f, Small(S, n), g)}
  <1>1. N \in Nat
    BY FS_CardinalityType
  <1>2. 0 \in P
    <2> DEFINE f == [s \in Small(S, 0) |-> 0]
    <2>1. ASSUME NEW s \in Small(S, 0)
          PROVE  s = {}
      <3>1. s \in SUBSET S /\ Cardinality(s) <= 0
        BY DEF Small
      <3>2. Cardinality(s) \in Nat /\ (Cardinality(s) = 0 <=> s = {})
        BY <3>1, PickShrinks
      <3>. QED
        BY <3>1, <3>2
    <2>2. f = [s \in Small(S, 0) |-> IF s = {} THEN 0 ELSE g[Pick(s)] + f[s \ {Pick(s)}]]
      BY <2>1
    <2> HIDE DEF f
    <2>3. Sums(f, Small(S, 0), g)
      BY <2>2, Zenon DEF Sums
    <2>. QED
      BY <2>3
  <1>3. ASSUME NEW n \in 1..N, n - 1 \in P
        PROVE  n \in P
    <2>1. PICK f : Sums(f, Small(S, n - 1), g)
      BY <1>3
    <2>2. n \in Nat
      BY <1>1
    <2> DEFINE h == [s \in Small(S, n) |-> IF s = {} THEN 0 ELSE g[Pick(s)] + f[s \ {Pick(s)}]]
    <2>3. ASSUME NEW s \in Small(S, n - 1)
          PROVE  h[s] = f[s]
      <3>1. s \in Small(S, n)
        <4>1. s \in SUBSET S /\ Cardinality(s) <= n - 1
          BY DEF Small
        <4>2. Cardinality(s) \in Nat
          BY <4>1, PickShrinks
        <4>. QED
          BY <2>2, <4>1, <4>2 DEF Small
      <3>2. f[s] = IF s = {} THEN 0 ELSE g[Pick(s)] + f[s \ {Pick(s)}]
        BY <2>1, Zenon DEF Sums
      <3>. QED
        BY <3>1, <3>2
    <2>4. ASSUME NEW s \in Small(S, n), s # {}
          PROVE  h[s] = g[Pick(s)] + h[s \ {Pick(s)}]
      <3>1. s \ {Pick(s)} \in Small(S, n - 1)
        BY <2>2, <2>4, PickShrinks DEF Small
      <3>2. h[s \ {Pick(s)}] = f[s \ {Pick(s)}]
        <4> HIDE DEF h
        <4>. QED
          BY <2>3, <3>1, Zenon
      <3>. QED
        BY <2>4, <3>2
    <2>5. \A s \in Small(S, n) : s = {} => h[s] = 0
      OBVIOUS
    <2>6. h = [s \in Small(S, n) |-> h[s]]
      OBVIOUS
    <2> HIDE DEF h
    <2>7. Sums(h, Small(S, n), g)
      BY <2>4, <2>5, <2>6 DEF Sums
    <2>. QED
      BY <2>2, <2>7
  <1>4. N \in P
    <2>1. \A n \in 1..N : n - 1 \in P => n \in P
      BY <1>3
    <2>2. N \in 0..N
      BY <1>1
    <2> HIDE DEF P, N
    <2>. QED
      BY <1>1, <1>2, <2>1, <2>2, InductionUp
  <1>5. Small(S, N) = SUBSET S
    BY FS_Subset DEF Small
  <1>. QED
    BY <1>4, <1>5

(* Numbers that count disjoint finite sets add up to what is in any of     *)
(* them.                                                                   *)
LEMMA SumOfDisjoint ==
    ASSUME NEW S, IsFiniteSet(S), NEW g, NEW f, Sums(f, SUBSET S, g), NEW A,
           \A x \in S : IsFiniteSet(A[x]) /\ g[x] = Cardinality(A[x]),
           \A x, y \in S : x # y => A[x] \cap A[y] = {}
    PROVE  /\ IsFiniteSet(UNION {A[x] : x \in S})
           /\ f[S] = Cardinality(UNION {A[x] : x \in S})
  <1> DEFINE N == Cardinality(S)
             All(s) == UNION {A[x] : x \in s}
             P == {n \in 0..N : \A s \in SUBSET S : Cardinality(s) = n =>
                      IsFiniteSet(All(s)) /\ f[s] = Cardinality(All(s))}
  <1>1. N \in Nat
    BY FS_CardinalityType
  <1>2. ASSUME NEW s \in SUBSET S
        PROVE  f[s] = IF s = {} THEN 0 ELSE g[Pick(s)] + f[s \ {Pick(s)}]
    BY Zenon DEF Sums
  <1>3. 0 \in P
    <2> SUFFICES ASSUME NEW s \in SUBSET S, Cardinality(s) = 0
                 PROVE  IsFiniteSet(All(s)) /\ f[s] = Cardinality(All(s))
      BY <1>1
    <2>1. s = {}
      BY PickShrinks
    <2>2. All(s) = {} /\ f[s] = 0
      <3>1. All(s) = {}
        BY <2>1
      <3>2. f[s] = 0
        <4> HIDE DEF All
        <4>. QED
          BY <1>2, <2>1
      <3>. QED
        BY <3>1, <3>2
    <2> HIDE DEF All
    <2>. QED
      BY <2>2, FS_EmptySet
  <1>4. ASSUME NEW n \in 1..N, n - 1 \in P
        PROVE  n \in P
    <2> SUFFICES ASSUME NEW s \in SUBSET S, Cardinality(s) = n
                 PROVE  IsFiniteSet(All(s)) /\ f[s] = Cardinality(All(s))
      <3>1. n \in 0..N
        BY <1>1
      <3> HIDE DEF All, N
      <3>. QED
        BY <3>1
    <2> DEFINE x == Pick(s)
               rest == s \ {x}
    <2>1. s # {} /\ x \in s /\ rest \in SUBSET S /\ Cardinality(rest) = n - 1
      BY PickShrinks
    <2>2. IsFiniteSet(All(rest)) /\ f[rest] = Cardinality(All(rest))
      <3> HIDE DEF rest, All
      <3>. QED
        BY <1>4, <2>1
    <2>3. x \in S /\ IsFiniteSet(A[x]) /\ g[x] = Cardinality(A[x])
      <3> HIDE DEF x
      <3>. QED
        BY <2>1
    <2>4. All(s) = A[x] \cup All(rest)
      <3> HIDE DEF x
      <3>. QED
        BY <2>1
    <2>5. A[x] \cap All(rest) = {}
      <3>1. \A y \in rest : y \in S /\ x # y
        OBVIOUS
      <3> HIDE DEF x, rest
      <3>. QED
        BY <2>3, <3>1
    <2>6. f[s] = g[x] + f[rest]
      <3>1. f[s] = IF s = {} THEN 0 ELSE g[x] + f[rest]
        BY <1>2, Zenon
      <3> HIDE DEF x, rest
      <3>. QED
        BY <2>1, <3>1, Zenon
    <2> HIDE DEF x, rest, All
    <2>7. Cardinality({}) = 0
      BY FS_EmptySet, Zenon
    <2>8. /\ IsFiniteSet(A[x] \cup All(rest))
          /\ Cardinality(A[x] \cup All(rest))
                = Cardinality(A[x]) + Cardinality(All(rest)) - Cardinality({})
      BY <2>2, <2>3, <2>5, FS_Union
    <2>9. Cardinality(A[x]) \in Nat /\ Cardinality(All(rest)) \in Nat
      BY <2>2, <2>3, FS_CardinalityType
    <2>. QED
      BY <2>2, <2>3, <2>4, <2>6, <2>7, <2>8, <2>9
  <1>5. \A n \in 0..N : n \in P
    <2> HIDE DEF P, N
    <2>. QED
      BY <1>1, <1>3, <1>4, InductionUp
  <1>6. N \in P
    <2> HIDE DEF P, N
    <2>. QED
      BY <1>1, <1>5
  <1>7. IsFiniteSet(All(S)) /\ f[S] = Cardinality(All(S))
    <2>1. S \in SUBSET S /\ Cardinality(S) = N
      OBVIOUS
    <2> HIDE DEF All, N
    <2>. QED
      BY <1>6, <2>1
  <1>. QED
    BY <1>7

(* What every member adds to a bound, the sum does not exceed.             *)
LEMMA SumBounded ==
    ASSUME NEW S, IsFiniteSet(S), NEW g, NEW f, Sums(f, SUBSET S, g), NEW bound,
           \A x \in S : g[x] \in Nat,
           \A s \in SUBSET S : bound[s] \in Nat,
           \A s \in SUBSET S : \A x \in s : g[x] + bound[s \ {x}] <= bound[s]
    PROVE  f[S] \in Nat /\ f[S] <= bound[S]
  <1> DEFINE N == Cardinality(S)
             P == {n \in Nat : \A s \in SUBSET S :
                      Cardinality(s) = n => f[s] \in Nat /\ f[s] <= bound[s]}
  <1>1. N \in Nat
    BY FS_CardinalityType
  <1>2. ASSUME NEW s \in SUBSET S
        PROVE  f[s] = IF s = {} THEN 0 ELSE g[Pick(s)] + f[s \ {Pick(s)}]
    BY Zenon DEF Sums
  <1>3. 0 \in P
    <2> SUFFICES ASSUME NEW s \in SUBSET S, Cardinality(s) = 0
                 PROVE  f[s] \in Nat /\ f[s] <= bound[s]
      OBVIOUS
    <2>1. s = {}
      BY PickShrinks
    <2>2. f[s] = 0
      BY <1>2, <2>1
    <2>3. bound[s] \in Nat
      OBVIOUS
    <2>. QED
      BY <2>2, <2>3
  <1>4. ASSUME NEW n \in 1..N, n - 1 \in P
        PROVE  n \in P
    <2>1. n \in Nat
      BY <1>1
    <2>2. ASSUME NEW s \in SUBSET S, Cardinality(s) = n
          PROVE  f[s] \in Nat /\ f[s] <= bound[s]
      <3>1. s # {}
        <4>1. Cardinality(s) = 0 <=> s = {}
          BY PickShrinks
        <4>2. n # 0
          BY <1>1
        <4>. QED
          BY <2>2, <4>1, <4>2
      <3> DEFINE x == Pick(s)
                 t == s \ {x}
      <3>2. x \in s /\ x \in S /\ t \in SUBSET S /\ Cardinality(t) = n - 1
        BY <2>2, <3>1, PickShrinks
      <3>3. f[s] = g[x] + f[t]
        BY <1>2, <3>1
      <3> HIDE DEF x, t
      <3>4. f[t] \in Nat /\ f[t] <= bound[t]
        BY <1>4, <3>2
      <3>5. g[x] \in Nat /\ bound[s] \in Nat /\ bound[t] \in Nat
        BY <3>2
      <3>6. g[x] + bound[t] <= bound[s]
        BY <3>2 DEF t
      <3>. QED
        BY <3>3, <3>4, <3>5, <3>6
    <2>. QED
      BY <2>1, <2>2
  <1>5. N \in P
    <2>1. \A n \in 1..N : n - 1 \in P => n \in P
      BY <1>4
    <2>2. N \in 0..N
      BY <1>1
    <2> HIDE DEF P, N
    <2>. QED
      BY <1>1, <1>3, <2>1, <2>2, InductionUp
  <1>. QED
    BY <1>5
=============================================================================
