--------------------------- MODULE AlgorithmProofs ---------------------------
(***************************************************************************)
(* The retry delay, the queue selector and the cron schedule compute what  *)
(* they promise for every input.  What takes induction over a number rests *)
(* on the least element of a set of numbers.                               *)
(***************************************************************************)
EXTENDS Backoff, QueueSelector, CronSchedule, TLAPS, WellFoundedInduction

\* A set of naturals that is not empty has a least element.
LEMMA Least ==
  ASSUME NEW S, S \subseteq Nat, S # {}
  PROVE  \E n \in S : \A m \in S : n <= m
<1>1. \E n \in S : \A m \in S : ~ (<<m, n>> \in OpToRel(<, Nat))
  BY NatLessThanWellFounded, WFMin, Zenon
<1>2. PICK n \in S : \A m \in S : ~ (<<m, n>> \in OpToRel(<, Nat))
  BY <1>1, Zenon
<1>3. \A m \in S : ~ (m < n)
  BY <1>2, Zenon DEF OpToRel
<1> QED BY <1>3

\* Induction, for a set: one that holds 0 and with each number its successor
\* holds them all.
LEMMA Inductive ==
  ASSUME NEW S, 0 \in S, \A n \in Nat : n \in S => n + 1 \in S
  PROVE  Nat \subseteq S
<1> SUFFICES ASSUME Nat \ S # {} PROVE FALSE
  BY Zenon
<1>1. PICK n \in Nat \ S : \A m \in Nat \ S : n <= m
  BY Least, Zenon
<1>2. n - 1 \in Nat /\ n - 1 \in S
  BY <1>1
<1> QED BY <1>1, <1>2

-----------------------------------------------------------------------------
(* The retry delay.                                                        *)

\* Powers of two are defined: on every initial segment, by a table.
Table(n, g) == g = [i \in 0..n |-> IF i = 0 THEN 1 ELSE 2 * g[i - 1]]

\* For every n there is a table of the powers of two up to n.
LEMMA TableExists ==
  \A n \in Nat : \E g : Table(n, g)
<1> DEFINE S == {n \in Nat : \E g : Table(n, g)}
<1>1. 0 \in S
  <2>1. Table(0, [i \in 0..0 |-> 1])
    BY DEF Table
  <2> QED BY <2>1, Zenon
<1>2. ASSUME NEW n \in Nat, n \in S PROVE n + 1 \in S
  <2>1. PICK g : Table(n, g)
    BY <1>2, Zenon
  <2> DEFINE h == [i \in 0..(n + 1) |-> IF i = n + 1 THEN 2 * g[n] ELSE g[i]]
  <2>2. \A i \in 0..(n + 1) : h[i] = IF i = 0 THEN 1 ELSE 2 * h[i - 1]
    BY <2>1 DEF Table
  <2>3. h = [i \in 0..(n + 1) |-> IF i = 0 THEN 1 ELSE 2 * h[i - 1]]
    BY <2>2, Zenon
  <2>4. Table(n + 1, h)
    BY <2>3, Zenon DEF Table
  <2> QED BY <2>4
<1> HIDE DEF S
<1>3. Nat \subseteq S
  BY <1>1, <1>2, Inductive, Zenon
<1> QED BY <1>3, Zenon DEF S

\* Two tables agree where both are defined.
LEMMA TableUnique ==
  ASSUME NEW m \in Nat, NEW n \in Nat, NEW g, NEW h, Table(m, g), Table(n, h)
  PROVE  \A i \in Nat : i <= m /\ i <= n => g[i] = h[i]
<1> DEFINE S == {i \in Nat : i <= m /\ i <= n => g[i] = h[i]}
<1>1. 0 \in S
  BY DEF Table
<1>2. ASSUME NEW i \in Nat, i \in S PROVE i + 1 \in S
  BY <1>2 DEF Table
<1> HIDE DEF S
<1>3. Nat \subseteq S
  BY <1>1, <1>2, Inductive, Zenon
<1> QED BY <1>3, Zenon DEF S

\* TwoTo satisfies its defining equation.
LEMMA TwoToDefined ==
  TwoTo = [n \in Nat |-> IF n = 0 THEN 1 ELSE 2 * TwoTo[n - 1]]
<1> DEFINE tab(n) == CHOOSE g : Table(n, g)
           f == [n \in Nat |-> tab(n)[n]]
<1>1. \A n \in Nat : Table(n, tab(n))
  BY TableExists, Zenon
<1>2. ASSUME NEW n \in Nat PROVE f[n] = IF n = 0 THEN 1 ELSE 2 * f[n - 1]
  <2> HIDE DEF tab
  <2>1. CASE n = 0
    BY <1>1, <2>1 DEF Table
  <2>2. CASE n # 0
    <3>1. tab(n)[n] = 2 * tab(n)[n - 1]
      BY <1>1, <2>2 DEF Table
    <3>2. Table(n, tab(n)) /\ Table(n - 1, tab(n - 1)) /\ n - 1 \in Nat
      BY <1>1, <2>2
    <3>3. tab(n)[n - 1] = tab(n - 1)[n - 1]
      BY <3>2, TableUnique
    <3> QED BY <2>2, <3>1, <3>2, <3>3, Zenon
  <2> QED BY <2>1, <2>2, Zenon
<1> HIDE DEF f
<1>3. f = [n \in Nat |-> IF n = 0 THEN 1 ELSE 2 * f[n - 1]]
  <2>1. f = [n \in Nat |-> f[n]]
    BY DEF f
  <2> QED BY <1>2, <2>1, Zenon
<1>4. \E g : g = [n \in Nat |-> IF n = 0 THEN 1 ELSE 2 * g[n - 1]]
  BY <1>3, Zenon
<1> QED BY <1>4, Zenon DEF TwoTo

\* Powers of two are positive, double, and grow.
LEMMA TwoToFacts ==
  /\ TwoTo[0] = 1
  /\ \A n \in Nat : TwoTo[n] \in Nat \ {0} /\ TwoTo[n + 1] = 2 * TwoTo[n]
<1>1. TwoTo[0] = 1 /\ \A n \in Nat : TwoTo[n + 1] = 2 * TwoTo[n]
  BY TwoToDefined
<1> DEFINE S == {n \in Nat : TwoTo[n] \in Nat \ {0}}
<1>2. 0 \in S /\ \A n \in Nat : n \in S => n + 1 \in S
  BY <1>1
<1> HIDE DEF S
<1>3. Nat \subseteq S
  BY <1>2, Inductive, Zenon
<1> QED BY <1>1, <1>3, Zenon DEF S

\* The powers of two grow.
LEMMA TwoToGrows ==
  ASSUME NEW m \in Nat, NEW n \in Nat, m <= n
  PROVE  TwoTo[m] <= TwoTo[n]
<1> DEFINE S == {k \in Nat : TwoTo[m] <= TwoTo[m + k]}
<1>1. 0 \in S /\ \A k \in Nat : k \in S => k + 1 \in S
  <2>1. 0 \in S
    BY TwoToFacts
  <2>2. ASSUME NEW k \in Nat, k \in S PROVE k + 1 \in S
    <3>1. TwoTo[m + k + 1] = 2 * TwoTo[m + k] /\ TwoTo[m + k] \in Nat /\ TwoTo[m] \in Nat
      BY TwoToFacts
    <3>2. m + (k + 1) = m + k + 1
      OBVIOUS
    <3> QED BY <2>2, <3>1, <3>2
  <2> QED BY <2>1, <2>2, Zenon
<1> HIDE DEF S
<1>2. n - m \in S
  BY <1>1, Inductive
<1> QED BY <1>2 DEF S

\* What the loop of Exponential.Next keeps: the delay is the base doubled once
\* per pass, or the ceiling, and then the full number of doublings exceeds it.
BackoffInv ==
  /\ conf \in [base : Duration, cap : Duration, jitter : Jitters, attempt : Attempts]
  /\ passes \in 0..Passes /\ d \in Nat \ {0}
  /\ \/ d = Base * TwoTo[Passes - passes]
     \/ d = Ceiling /\ passes = 0 /\ Base * TwoTo[Passes] >= Ceiling
  /\ DelayExact

\* Base and cap, once defaulted, are positive and fit the width of a duration.
LEMMA BackoffRange ==
  ASSUME conf \in [base : Duration, cap : Duration, jitter : Jitters, attempt : Attempts]
  PROVE  /\ Ceiling \in 1..(TwoTo[Width - 1] - 1) /\ Base \in 1..Ceiling /\ Passes \in Nat
         /\ TwoTo[Width - 1] \in Nat \ {0} /\ TwoTo[Width] = 2 * TwoTo[Width - 1]
<1>1. TwoTo[Width - 1] \in Nat \ {0} /\ TwoTo[Width] = 2 * TwoTo[Width - 1]
  <2>1. Width - 1 \in Nat /\ (Width - 1) + 1 = Width
    BY BackoffAssumption
  <2> QED BY <2>1, TwoToFacts, Zenon
<1>2. conf.base \in Duration /\ conf.cap \in Duration /\ conf.attempt \in Int
  BY BackoffAssumption, Zenon
<1> QED BY <1>1, <1>2, BackoffAssumption DEF Ceiling, Base, Passes, Lesser, Duration

\* Doubling wraps to a smaller number exactly when it leaves the range.
LEMMA WrapDouble ==
  ASSUME NEW M \in Nat \ {0}, NEW n \in 1..(M - 1),
         TwoTo[Width - 1] = M, TwoTo[Width] = 2 * M
  PROVE  /\ 2 * n < M => Wrap(n * 2) = 2 * n
         /\ 2 * n >= M => Wrap(n * 2) < n
<1>1. CASE 2 * n < M
  <2>1. (n * 2 + M) % (2 * M) = n * 2 + M
    BY <1>1
  <2> QED BY <1>1, <2>1 DEF Wrap
<1>2. CASE 2 * n >= M
  <2>1. (n * 2 + M) % (2 * M) = n * 2 - M
    BY <1>2
  <2> QED BY <1>2, <2>1 DEF Wrap
<1> QED BY <1>1, <1>2, Zenon

\* What the loop has when it returns is the capped product.
LEMMA ReturnExact ==
  ASSUME BackoffInv, passes = 0 \/ d >= Ceiling
  PROVE  Lesser(d, Ceiling) = Exact /\ Exact \in Nat \ {0}
<1>1. /\ Ceiling \in Nat \ {0} /\ Base \in Nat \ {0} /\ Passes \in Nat
  BY BackoffRange DEF BackoffInv
<1>2. passes \in 0..Passes /\ Passes - passes \in Nat
  BY <1>1 DEF BackoffInv
<1>3. TwoTo[Passes - passes] <= TwoTo[Passes]
  BY <1>1, <1>2, TwoToGrows
<1>4. TwoTo[Passes - passes] \in Nat \ {0} /\ TwoTo[Passes] \in Nat \ {0}
  BY <1>1, <1>2, TwoToFacts, Zenon
<1>5. Base * TwoTo[Passes - passes] <= Base * TwoTo[Passes] /\ Base * TwoTo[Passes] \in Nat \ {0}
  BY <1>1, <1>3, <1>4
<1>6. CASE d = Base * TwoTo[Passes - passes]
  <2>1. CASE passes = 0
    BY <1>1, <1>5, <1>6, <2>1 DEF Lesser, Exact
  <2>2. CASE d >= Ceiling
    BY <1>1, <1>5, <1>6, <2>2 DEF Lesser, Exact
  <2> QED BY <2>1, <2>2, Zenon
<1>7. CASE d = Ceiling /\ Base * TwoTo[Passes] >= Ceiling
  BY <1>1, <1>5, <1>7 DEF Lesser, Exact
<1> QED BY <1>6, <1>7, Zenon DEF BackoffInv

\* The delay that Exponential.Next returns is the jitter of the base doubled
\* once per attempt after the first, capped, for every base, cap, attempt and
\* width of a duration: the saturating loop computes what it documents.
THEOREM DelaysExact == BackoffSpec => []DelayExact
<1>1. BackoffInit => BackoffInv
  <2> SUFFICES ASSUME BackoffInit PROVE BackoffInv
    BY Zenon
  <2>1. Base \in Nat \ {0} /\ Passes \in Nat
    BY BackoffRange DEF BackoffInit
  <2>2. Base * TwoTo[Passes - passes] = Base
    BY <2>1, TwoToFacts DEF BackoffInit
  <2> QED BY <2>1, <2>2 DEF BackoffInit, BackoffInv, DelayExact
<1>2. BackoffInv /\ [BackoffNext]_backoffVars => BackoffInv'
  <2> SUFFICES ASSUME BackoffInv, [BackoffNext]_backoffVars PROVE BackoffInv'
    BY Zenon
  <2>1. /\ Ceiling \in 1..(TwoTo[Width - 1] - 1) /\ Base \in 1..Ceiling /\ Passes \in Nat
        /\ TwoTo[Width - 1] \in Nat \ {0} /\ TwoTo[Width] = 2 * TwoTo[Width - 1]
    BY BackoffRange, Zenon DEF BackoffInv
  <2>2. CASE Double
    <3>1. conf' = conf /\ Ceiling' = Ceiling /\ Base' = Base /\ Passes' = Passes /\ delay' = delay
      BY <2>2, Zenon DEF Double, Ceiling, Base, Passes
    <3>2. d \in 1..(TwoTo[Width - 1] - 1) /\ passes \in 1..Passes /\ d < Ceiling
      BY <2>1, <2>2 DEF Double, BackoffInv
    <3>3. /\ 2 * d < TwoTo[Width - 1] => Wrap(d * 2) = 2 * d
          /\ 2 * d >= TwoTo[Width - 1] => Wrap(d * 2) < d
      BY <2>1, <3>2, WrapDouble, Zenon
    <3>4. d = Base * TwoTo[Passes - passes]
      BY <2>1, <3>2 DEF BackoffInv
    <3>5. /\ TwoTo[Passes - passes + 1] = 2 * TwoTo[Passes - passes]
          /\ TwoTo[Passes - passes] \in Nat \ {0}
      BY <2>1, <3>2, TwoToFacts
    <3>6. 2 * d = Base * TwoTo[Passes - (passes - 1)]
      <4>1. Passes - (passes - 1) = Passes - passes + 1
        BY <2>1, <3>2
      <4> QED BY <2>1, <3>4, <3>5, <4>1
    <3>7. DelayExact'
      BY <2>2, <3>1, Zenon DEF Double, DelayExact
    <3>8. CASE Wrap(d * 2) < d
      <4>1. 2 * d >= TwoTo[Width - 1] /\ d' = Ceiling /\ passes' = 0
        BY <2>1, <2>2, <3>2, <3>3, <3>8 DEF Double
      <4>2. TwoTo[Passes - (passes - 1)] <= TwoTo[Passes]
        BY <2>1, <3>2, TwoToGrows
      <4>3. TwoTo[Passes] \in Nat /\ TwoTo[Passes - (passes - 1)] \in Nat
        BY <2>1, <3>2, TwoToFacts
      <4>4. Base * TwoTo[Passes - (passes - 1)] <= Base * TwoTo[Passes]
        BY <2>1, <4>2, <4>3
      <4>5. Base * TwoTo[Passes] >= Ceiling
        BY <2>1, <3>2, <3>6, <4>1, <4>3, <4>4
      <4> QED BY <2>1, <3>1, <3>7, <4>1, <4>5 DEF BackoffInv
    <3>9. CASE ~ (Wrap(d * 2) < d)
      <4>1. d' = 2 * d /\ passes' = passes - 1
        BY <2>1, <2>2, <3>2, <3>3, <3>9 DEF Double
      <4> QED BY <2>1, <3>1, <3>2, <3>6, <3>7, <4>1 DEF BackoffInv
    <3> QED BY <3>8, <3>9, Zenon
  <2>3. CASE Return
    <3>1. /\ conf' = conf /\ Ceiling' = Ceiling /\ Base' = Base /\ Passes' = Passes
          /\ d' = d /\ passes' = passes /\ Exact' = Exact
      BY <2>3, Zenon DEF Return, Ceiling, Base, Passes, Exact
    <3>2. Lesser(d, Ceiling) = Exact /\ Exact \in Nat \ {0}
      BY <2>3, ReturnExact, Zenon DEF Return
    <3>3. delay' \in jittered(Exact)
      BY <2>3, <3>2, Zenon DEF Return
    <3>4. DelayExact'
      <4> HIDE DEF Exact
      <4>1. CASE conf.jitter = "JitterNone"
        BY <3>1, <3>2, <3>3, <4>1, Zenon DEF DelayExact, jittered
      <4>2. CASE conf.jitter = "JitterFull"
        BY <3>1, <3>2, <3>3, <4>2 DEF DelayExact, jittered
      <4>3. CASE conf.jitter = "JitterEqual"
        BY <3>1, <3>2, <3>3, <4>3 DEF DelayExact, jittered
      <4> QED BY <4>1, <4>2, <4>3, Zenon DEF BackoffInv, Jitters
    <3> QED BY <3>1, <3>4, Zenon DEF BackoffInv
  <2>4. CASE UNCHANGED backoffVars
    BY <2>4, Zenon DEF backoffVars, BackoffInv, DelayExact, Ceiling, Base, Passes, Exact
  <2> QED BY <2>2, <2>3, <2>4, Zenon DEF BackoffNext
<1>3. BackoffInv => DelayExact
  BY Zenon DEF BackoffInv
<1> QED BY <1>1, <1>2, <1>3, PTL DEF BackoffSpec

-----------------------------------------------------------------------------
(* The queue selector.                                                     *)

\* The running sums of the weights are defined.
LEMMA SumsDefined ==
  ASSUME NEW s, Len(s) \in Nat
  PROVE  Sums(s) = [k \in 0..Len(s) |-> IF k = 0 THEN 0 ELSE Sums(s)[k - 1] + weight(s[k])]
<1> DEFINE Upto(n, g) == g = [k \in 0..n |-> IF k = 0 THEN 0 ELSE g[k - 1] + weight(s[k])]
           S == {n \in Nat : \E g : Upto(n, g)}
<1>1. 0 \in S
  <2>1. Upto(0, [k \in 0..0 |-> 0])
    OBVIOUS
  <2> QED BY <2>1, Zenon
<1>2. ASSUME NEW n \in Nat, n \in S PROVE n + 1 \in S
  <2>1. PICK g : Upto(n, g)
    BY <1>2, Zenon
  <2> DEFINE h == [k \in 0..(n + 1) |-> IF k = n + 1 THEN g[n] + weight(s[n + 1]) ELSE g[k]]
  <2>2. \A k \in 0..(n + 1) : h[k] = IF k = 0 THEN 0 ELSE h[k - 1] + weight(s[k])
    BY <2>1
  <2>3. Upto(n + 1, h)
    BY <2>2, Zenon
  <2>4. \E f : Upto(n + 1, f)
    <3> HIDE DEF h, Upto
    <3> QED BY <2>3, Zenon
  <2> QED BY <2>4
<1> HIDE DEF S
<1>3. Len(s) \in S
  BY <1>1, <1>2, Inductive, Zenon
<1>4. \E g : g = [k \in 0..Len(s) |-> IF k = 0 THEN 0 ELSE g[k - 1] + weight(s[k])]
  BY <1>3, Zenon DEF S
<1> QED BY <1>4, Zenon DEF Sums

\* They start at zero and grow by the weight of each queue.
LEMMA SumsFacts ==
  ASSUME NEW s \in Seq(DOMAIN names), \A i \in DOMAIN names : weight(i) \in Nat \ {0}
  PROVE  /\ Sums(s)[0] = 0
         /\ \A k \in 1..Len(s) : Sums(s)[k] = Sums(s)[k - 1] + weight(s[k])
         /\ \A k \in 0..Len(s) : Sums(s)[k] \in Nat
<1>1. /\ Sums(s)[0] = 0
      /\ \A k \in 1..Len(s) : Sums(s)[k] = Sums(s)[k - 1] + weight(s[k])
  <2>1. Sums(s) = [k \in 0..Len(s) |-> IF k = 0 THEN 0 ELSE Sums(s)[k - 1] + weight(s[k])]
    BY SumsDefined
  <2>2. \A k \in 0..Len(s) : Sums(s)[k] = IF k = 0 THEN 0 ELSE Sums(s)[k - 1] + weight(s[k])
    BY <2>1, Zenon
  <2> QED BY <2>2
<1>2. \A k \in 1..Len(s) : weight(s[k]) \in Nat
  OBVIOUS
<1> DEFINE S == {k \in Nat : k <= Len(s) => Sums(s)[k] \in Nat}
<1>3. 0 \in S /\ \A k \in Nat : k \in S => k + 1 \in S
  BY <1>1, <1>2
<1> HIDE DEF S
<1>4. Nat \subseteq S
  BY <1>3, Inductive, Zenon
<1> QED BY <1>1, <1>4 DEF S

\* Running sums of weights grow.
LEMMA SumsGrow ==
  ASSUME NEW s \in Seq(DOMAIN names), \A i \in DOMAIN names : weight(i) \in Nat \ {0},
         NEW j \in 0..Len(s), NEW k \in 0..Len(s), j <= k
  PROVE  Sums(s)[j] <= Sums(s)[k]
<1> DEFINE S == {n \in Nat : j + n <= Len(s) => Sums(s)[j] <= Sums(s)[j + n]}
<1>1. Sums(s)[j] \in Nat
  BY SumsFacts, Zenon
<1>2. 0 \in S
  BY <1>1
<1>3. ASSUME NEW n \in Nat, n \in S PROVE n + 1 \in S
  <2> SUFFICES ASSUME j + (n + 1) <= Len(s) PROVE Sums(s)[j] <= Sums(s)[j + (n + 1)]
    OBVIOUS
  <2>1. j + (n + 1) \in 1..Len(s) /\ j + (n + 1) - 1 = j + n /\ j + n \in 0..Len(s)
    OBVIOUS
  <2>2. Sums(s)[j + (n + 1)] = Sums(s)[j + n] + weight(s[j + (n + 1)]) /\ Sums(s)[j + n] \in Nat
    <3>1. /\ \A i \in 1..Len(s) : Sums(s)[i] = Sums(s)[i - 1] + weight(s[i])
          /\ \A i \in 0..Len(s) : Sums(s)[i] \in Nat
      BY SumsFacts, Zenon
    <3>2. PICK i \in 1..Len(s) : i = j + (n + 1) /\ i - 1 = j + n
      BY <2>1
    <3>3. Sums(s)[j + n] \in Nat
      BY <2>1, <3>1, Zenon
    <3>4. Sums(s)[i] = Sums(s)[i - 1] + weight(s[i])
      BY <3>1, Zenon
    <3> QED BY <3>2, <3>3, <3>4, Zenon
  <2>3. weight(s[j + (n + 1)]) \in Nat
    BY <2>1
  <2> QED BY <1>1, <1>3, <2>1, <2>2, <2>3
<1> HIDE DEF S
<1>4. Nat \subseteq S
  BY <1>2, <1>3, Inductive, Zenon
<1>5. k - j \in S
  BY <1>4
<1> QED BY <1>5 DEF S

\* What is left of a list without its p-th element.
LEMMA WithoutFacts ==
  ASSUME NEW X, NEW s \in Seq(X), NEW p \in 1..Len(s)
  PROVE  /\ Without(s, p) \in Seq(X) /\ Len(Without(s, p)) = Len(s) - 1
         /\ \A k \in 1..(p - 1) : Without(s, p)[k] = s[k]
         /\ \A k \in p..(Len(s) - 1) : Without(s, p)[k] = s[k + 1]
<1> DEFINE a == SubSeq(s, 1, p - 1)
           b == SubSeq(s, p + 1, Len(s))
           n == Len(s)
<1>1. n \in Nat /\ p \in 1..n
  OBVIOUS
<1>2. a \in Seq(X) /\ Len(a) = p - 1 /\ \A k \in 1..(p - 1) : a[k] = s[k]
  OBVIOUS
<1>3. b \in Seq(X) /\ Len(b) = n - p /\ \A k \in 1..(n - p) : b[k] = s[p + k]
  OBVIOUS
<1>4. Without(s, p) = a \o b
  BY Zenon DEF Without
<1> HIDE DEF a, b, n
<1>5. /\ a \o b \in Seq(X) /\ Len(a \o b) = Len(a) + Len(b)
      /\ \A k \in 1..(Len(a) + Len(b)) : (a \o b)[k] = IF k <= Len(a) THEN a[k] ELSE b[k - Len(a)]
  <2>1. a \in Seq(X) /\ b \in Seq(X)
    BY <1>2, <1>3, Zenon
  <2>2. a \o b \in Seq(X) /\ Len(a \o b) = Len(a) + Len(b)
    BY <2>1
  <2>3. \A k \in 1..(Len(a) + Len(b)) : (a \o b)[k] = IF k <= Len(a) THEN a[k] ELSE b[k - Len(a)]
    BY <2>1
  <2> QED BY <2>2, <2>3, Zenon
<1>6. PICK r \in Seq(X) :
        /\ r = Without(s, p) /\ Len(r) = Len(a) + Len(b)
        /\ \A k \in 1..(Len(a) + Len(b)) : r[k] = IF k <= Len(a) THEN a[k] ELSE b[k - Len(a)]
  BY <1>4, <1>5, Zenon
<1>7. Len(r) = n - 1 /\ \A k \in 1..(n - 1) : r[k] = IF k <= p - 1 THEN a[k] ELSE b[k - (p - 1)]
  <2>1. Len(a) + Len(b) = n - 1
    BY <1>1, <1>2, <1>3
  <2>2. \A k \in 1..(n - 1) : r[k] = IF k <= p - 1 THEN a[k] ELSE b[k - (p - 1)]
    BY <1>2, <1>6, <2>1, Zenon
  <2> QED BY <1>6, <2>1, <2>2, Zenon
<1>8. ASSUME NEW k \in p..(n - 1) PROVE r[k] = s[k + 1]
  <2>1. r[k] = b[k - (p - 1)] /\ k - (p - 1) \in 1..(n - p)
    BY <1>1, <1>7
  <2>2. b[k - (p - 1)] = s[p + (k - (p - 1))]
    BY <1>3, <2>1, Zenon
  <2>3. p + (k - (p - 1)) = k + 1
    BY <1>1
  <2> QED BY <2>1, <2>2, <2>3, Zenon
<1>9. ASSUME NEW k \in 1..(p - 1) PROVE r[k] = s[k]
  BY <1>1, <1>2, <1>7
<1> QED BY <1>6, <1>7, <1>8, <1>9, Zenon DEF n

\* Dropping position p loses no other element.
LEMMA WithoutRange ==
  ASSUME NEW X, NEW s \in Seq(X), NEW p \in 1..Len(s)
  PROVE  Range(s) = Range(Without(s, p)) \cup {s[p]}
<1> DEFINE r == Without(s, p)
<1>1. /\ r \in Seq(X) /\ Len(r) = Len(s) - 1
      /\ \A k \in 1..(p - 1) : r[k] = s[k]
      /\ \A k \in p..(Len(s) - 1) : r[k] = s[k + 1]
  BY WithoutFacts, Zenon
<1> HIDE DEF r
<1>2. DOMAIN s = 1..Len(s) /\ DOMAIN r = 1..(Len(s) - 1) /\ Len(s) \in Nat
  BY <1>1
<1>3. ASSUME NEW k \in 1..Len(s), k # p PROVE \E i \in DOMAIN r : r[i] = s[k]
  <2>1. CASE k < p
    <3>1. k \in 1..(p - 1) /\ k \in DOMAIN r
      BY <1>2, <2>1
    <3> QED BY <1>1, <3>1, Zenon
  <2>2. CASE k > p
    <3>1. k - 1 \in p..(Len(s) - 1) /\ k - 1 \in DOMAIN r /\ (k - 1) + 1 = k
      BY <1>2, <2>2
    <3>2. r[k - 1] = s[k]
      BY <1>1, <3>1, Zenon
    <3> QED BY <3>1, <3>2, Zenon
  <2> QED BY <1>2, <1>3, <2>1, <2>2
<1>4. ASSUME NEW i \in DOMAIN r PROVE \E k \in 1..Len(s) : r[i] = s[k]
  <2>1. CASE i < p
    <3>1. i \in 1..(p - 1) /\ i \in 1..Len(s)
      BY <1>2, <2>1
    <3> QED BY <1>1, <3>1, Zenon
  <2>2. CASE i >= p
    <3>1. i \in p..(Len(s) - 1) /\ i + 1 \in 1..Len(s)
      BY <1>2, <2>2
    <3> QED BY <1>1, <3>1, Zenon
  <2> QED BY <1>2, <2>1, <2>2
<1>5. ASSUME NEW e \in Range(s) PROVE e \in Range(r) \cup {s[p]}
  <2>1. PICK k \in 1..Len(s) : e = s[k]
    BY <1>2, <1>5, Zenon DEF Range
  <2>2. CASE k = p
    BY <2>1, <2>2, Zenon
  <2>3. CASE k # p
    BY <1>3, <2>1, <2>3, Zenon DEF Range
  <2> QED BY <2>2, <2>3, Zenon
<1>6. ASSUME NEW e \in Range(r) PROVE e \in Range(s)
  <2>1. PICK i \in DOMAIN r : e = r[i]
    BY <1>6, Zenon DEF Range
  <2> QED BY <1>2, <1>4, <2>1, Zenon DEF Range
<1>7. s[p] \in Range(s)
  BY <1>2, Zenon DEF Range
<1> QED BY <1>5, <1>6, <1>7, Zenon DEF r

\* Appending adds that element.
LEMMA AppendRange ==
  ASSUME NEW X, NEW s \in Seq(X), NEW e \in X
  PROVE  Range(Append(s, e)) = Range(s) \cup {e}
<1> DEFINE a == Append(s, e)
<1>1. a \in Seq(X) /\ Len(a) = Len(s) + 1
  OBVIOUS
<1>2. /\ DOMAIN a = 1..(Len(s) + 1) /\ DOMAIN s = 1..Len(s) /\ Len(s) \in Nat
      /\ a[Len(s) + 1] = e /\ \A k \in 1..Len(s) : a[k] = s[k]
  BY <1>1
<1> HIDE DEF a
<1>3. \A k \in DOMAIN a : k = Len(s) + 1 \/ k \in DOMAIN s
  BY <1>2
<1>4. \A k \in DOMAIN s : k \in DOMAIN a
  BY <1>2
<1>5. Len(s) + 1 \in DOMAIN a
  BY <1>2
<1>6. Range(a) = Range(s) \cup {e}
  BY <1>2, <1>3, <1>4, <1>5, Zenon DEF Range
<1> QED BY <1>6, Zenon DEF a

\* Removing a queue takes its weight out of the sum.
LEMMA WithoutSum ==
  ASSUME NEW s \in Seq(DOMAIN names), \A i \in DOMAIN names : weight(i) \in Nat \ {0},
         NEW p \in 1..Len(s)
  PROVE  Sums(Without(s, p))[Len(s) - 1] = Sums(s)[Len(s)] - weight(s[p])
<1> DEFINE r == Without(s, p)
<1>1. /\ r \in Seq(DOMAIN names) /\ Len(r) = Len(s) - 1
      /\ \A k \in 1..(p - 1) : r[k] = s[k]
      /\ \A k \in p..(Len(s) - 1) : r[k] = s[k + 1]
  BY WithoutFacts, Zenon
<1> HIDE DEF r
<1>2. /\ Sums(r)[0] = 0
      /\ \A k \in 1..(Len(s) - 1) : Sums(r)[k] = Sums(r)[k - 1] + weight(r[k])
  BY <1>1, SumsFacts, Zenon
<1>3. /\ Sums(s)[0] = 0
      /\ \A k \in 1..Len(s) : Sums(s)[k] = Sums(s)[k - 1] + weight(s[k])
      /\ \A k \in 0..Len(s) : Sums(s)[k] \in Nat
  BY SumsFacts, Zenon
<1>4. \A k \in 1..Len(s) : weight(s[k]) \in Nat
  OBVIOUS
<1> DEFINE S == {k \in Nat : k < Len(s) =>
                   Sums(r)[k] = IF k < p THEN Sums(s)[k] ELSE Sums(s)[k + 1] - weight(s[p])}
<1>5. 0 \in S
  BY <1>2, <1>3
<1>6. ASSUME NEW k \in Nat, k \in S PROVE k + 1 \in S
  <2> SUFFICES ASSUME k + 1 < Len(s) PROVE k + 1 \in S
    OBVIOUS
  <2>1. Sums(r)[k + 1] = Sums(r)[k] + weight(r[k + 1])
    <3>1. k + 1 \in 1..(Len(s) - 1) /\ (k + 1) - 1 = k
      OBVIOUS
    <3> QED BY <1>2, <3>1, Zenon
  <2>2. CASE k + 1 < p
    <3>1. r[k + 1] = s[k + 1]
      BY <1>1, <2>2
    <3>2. Sums(s)[k + 1] = Sums(s)[k] + weight(s[k + 1])
      BY <1>3
    <3>3. Sums(r)[k] = Sums(s)[k]
      BY <1>6, <2>2
    <3>4. Sums(r)[k + 1] = Sums(s)[k + 1]
      BY <2>1, <3>1, <3>2, <3>3, Zenon
    <3>5. k + 1 \in Nat
      OBVIOUS
    <3> QED BY <2>2, <3>4, <3>5, Zenon
  <2>3. CASE k + 1 = p
    <3>1. r[k + 1] = s[k + 2]
      <4>1. k + 1 \in p..(Len(s) - 1) /\ (k + 1) + 1 = k + 2
        BY <2>3
      <4> QED BY <1>1, <4>1, Zenon
    <3>2. Sums(s)[k + 1] = Sums(s)[k] + weight(s[k + 1])
      BY <1>3
    <3>3. Sums(s)[k + 2] = Sums(s)[k + 1] + weight(s[k + 2])
      BY <1>3
    <3>4. Sums(r)[k] = Sums(s)[k]
      BY <1>6, <2>3
    <3>5. /\ weight(s[k + 1]) \in Nat /\ weight(s[k + 2]) \in Nat /\ Sums(s)[k] \in Nat
          /\ s[p] = s[k + 1] /\ k + 1 + 1 = k + 2
      BY <1>3, <1>4, <2>3
    <3>6. Sums(r)[k + 1] = Sums(s)[k + 2] - weight(s[p])
      <4>1. Sums(r)[k + 1] = Sums(s)[k] + weight(s[k + 2])
        BY <2>1, <3>1, <3>4, Zenon
      <4>2. Sums(s)[k + 2] = (Sums(s)[k] + weight(s[p])) + weight(s[k + 2])
        BY <3>2, <3>3, <3>5, Zenon
      <4>3. weight(s[p]) \in Nat
        BY <3>5, Zenon
      <4> QED BY <3>5, <4>1, <4>2, <4>3
    <3>7. k + 1 \in Nat /\ ~ (k + 1 < p) /\ (k + 1) + 1 = k + 2
      BY <2>3
    <3>8. Sums(r)[k + 1] =
            IF k + 1 < p THEN Sums(s)[k + 1] ELSE Sums(s)[(k + 1) + 1] - weight(s[p])
      BY <3>6, <3>7, Zenon
    <3> QED BY <3>7, <3>8, Zenon
  <2>4. CASE k + 1 > p
    <3>1. r[k + 1] = s[k + 2]
      <4>1. k + 1 \in p..(Len(s) - 1) /\ (k + 1) + 1 = k + 2
        BY <2>4
      <4> QED BY <1>1, <4>1, Zenon
    <3>2. Sums(s)[k + 2] = Sums(s)[k + 1] + weight(s[k + 2])
      BY <1>3
    <3>3. Sums(r)[k] = Sums(s)[k + 1] - weight(s[p])
      BY <1>6, <2>4
    <3>4. /\ weight(s[p]) \in Nat /\ weight(s[k + 2]) \in Nat /\ Sums(s)[k + 1] \in Nat
          /\ k + 1 + 1 = k + 2
      BY <1>3, <1>4, <2>4
    <3>5. Sums(r)[k + 1] = Sums(s)[k + 2] - weight(s[p])
      <4>1. Sums(r)[k + 1] = (Sums(s)[k + 1] - weight(s[p])) + weight(s[k + 2])
        BY <2>1, <3>1, <3>3, Zenon
      <4> QED BY <3>2, <3>4, <4>1
    <3>6. k + 1 \in Nat /\ ~ (k + 1 < p) /\ (k + 1) + 1 = k + 2
      BY <2>4
    <3>7. Sums(r)[k + 1] =
            IF k + 1 < p THEN Sums(s)[k + 1] ELSE Sums(s)[(k + 1) + 1] - weight(s[p])
      BY <3>5, <3>6, Zenon
    <3> QED BY <3>6, <3>7, Zenon
  <2> QED BY <2>2, <2>3, <2>4
<1> HIDE DEF S
<1>7. Nat \subseteq S
  BY <1>5, <1>6, Inductive, Zenon
<1>8. Len(s) - 1 \in S /\ (Len(s) - 1) + 1 = Len(s) /\ Len(s) \in 1..Len(s)
  BY <1>7
<1>9. CASE p = Len(s)
  <2>1. /\ Sums(s)[Len(s)] = Sums(s)[Len(s) - 1] + weight(s[p])
        /\ Sums(s)[Len(s) - 1] \in Nat /\ weight(s[p]) \in Nat
    BY <1>3, <1>4, <1>8, <1>9
  <2>2. Sums(r)[Len(s) - 1] = Sums(s)[Len(s) - 1]
    BY <1>8, <1>9 DEF S
  <2> QED BY <2>1, <2>2 DEF r
<1>10. CASE p < Len(s)
  BY <1>8, <1>10 DEF S, r
<1> QED BY <1>9, <1>10

\* What next keeps between two draws: the queues drawn and those in the pool
\* are together the configured ones, and what is left of the weight is the
\* weight of the pool.
PoolOK ==
  /\ pool \in Seq(DOMAIN names) /\ order \in Seq(Range(names))
  /\ Len(order) + Len(pool) = Len(names)
  /\ Range(order) \cup {names[i] : i \in Range(pool)} = Range(names)
  /\ remaining = Sums(pool)[Len(pool)]
SelectorInv ==
  /\ configured \in UNION {[Q -> 1..MaxWeight] : Q \in SUBSET Range(names)}
  /\ strict \in BOOLEAN /\ polling \in BOOLEAN
  /\ polling => ~ strict /\ PoolOK
  /\ OrderComplete

\* Every configured weight is positive.
LEMMA Weights ==
  ASSUME SelectorInv
  PROVE  \A i \in DOMAIN names : weight(i) \in Nat \ {0}
<1>1. PICK Q \in SUBSET Range(names) : configured \in [Q -> 1..MaxWeight]
  BY Zenon DEF SelectorInv
<1> QED BY <1>1, SelectorAssumption DEF weight

\* The walk stops at the first queue whose running sum exceeds the number.
LEMMA PickFacts ==
  ASSUME SelectorInv, polling, NEW r \in 0..(remaining - 1)
  PROVE  /\ pick(r) \in DOMAIN pool /\ r < acc(pick(r))
         /\ \A k \in DOMAIN pool : r < acc(k) => pick(r) <= k
<1> DEFINE hits == {k \in DOMAIN pool : r < acc(k)}
<1>1. pool \in Seq(DOMAIN names) /\ remaining = acc(Len(pool)) /\ remaining \in Nat
  <2>1. pool \in Seq(DOMAIN names) /\ remaining = Sums(pool)[Len(pool)]
    BY Zenon DEF SelectorInv, PoolOK
  <2>2. Sums(pool)[Len(pool)] \in Nat
    BY <2>1, SumsFacts, Weights
  <2> QED BY <2>1, <2>2, Zenon DEF acc
<1>2. pool # <<>>
  <2> SUFFICES ASSUME pool = <<>> PROVE FALSE
    BY Zenon
  <2>1. Sums(pool)[0] = 0
    BY <1>1, SumsFacts, Weights, Zenon
  <2> QED BY <1>1, <2>1 DEF acc
<1>3. Len(pool) \in hits /\ hits \subseteq Nat
  BY <1>1, <1>2
<1>4. \E k \in hits : \A m \in hits : k <= m
  <2> HIDE DEF hits
  <2> QED BY <1>3, Least, Zenon
<1>5. Min(hits) \in hits /\ \A m \in hits : Min(hits) <= m
  BY <1>4, Zenon DEF Min
<1>6. pick(r) = Min(hits)
  BY <1>3, Zenon DEF pick
<1> QED BY <1>5, <1>6, Zenon

\* A draw moves one queue from the pool to the order.
LEMMA DrawKeeps ==
  ASSUME SelectorInv, polling, NEW r \in 0..(remaining - 1), Draw(r)
  PROVE  PoolOK'
<1> DEFINE p == pick(r)
<1>1. /\ pool \in Seq(DOMAIN names) /\ order \in Seq(Range(names))
      /\ Len(order) + Len(pool) = Len(names)
      /\ Range(order) \cup {names[i] : i \in Range(pool)} = Range(names)
      /\ remaining = Sums(pool)[Len(pool)]
  BY Zenon DEF SelectorInv, PoolOK
<1>2. p \in 1..Len(pool)
  BY <1>1, PickFacts
<1>3. /\ order' = Append(order, names[pool[p]]) /\ pool' = Without(pool, p)
      /\ remaining' = remaining - weight(pool[p])
  BY Zenon DEF Draw
<1> HIDE DEF p
<1>4. pool' \in Seq(DOMAIN names) /\ Len(pool') = Len(pool) - 1
  BY <1>1, <1>2, <1>3, WithoutFacts, Zenon
<1>5. pool[p] \in DOMAIN names /\ names[pool[p]] \in Range(names)
  <2>1. pool[p] \in DOMAIN names
    BY <1>1, <1>2
  <2> QED BY <2>1, Zenon DEF Range
<1>6. order' \in Seq(Range(names)) /\ Len(order') = Len(order) + 1
  BY <1>1, <1>3, <1>5
<1>7. Range(order') = Range(order) \cup {names[pool[p]]}
  BY <1>1, <1>3, <1>5, AppendRange
<1>8. Range(pool) = Range(pool') \cup {pool[p]}
  BY <1>1, <1>2, <1>3, WithoutRange, Zenon
<1>9. remaining' = Sums(pool)'[Len(pool')]
  <2>1. \A i \in DOMAIN names : weight(i) \in Nat \ {0}
    BY Weights, Zenon
  <2>2. Sums(pool')[Len(pool) - 1] = Sums(pool)[Len(pool)] - weight(pool[p])
    BY <1>1, <1>2, <1>3, <2>1, WithoutSum, Zenon
  <2>3. configured' = configured
    BY Zenon DEF Draw
  <2>4. Sums(pool)' = Sums(pool')
    BY <2>3, Zenon DEF Sums, weight
  <2> QED BY <1>1, <1>3, <1>4, <2>2, <2>4, Zenon
<1>10. Range(order') \cup {names[i] : i \in Range(pool')} = Range(names)
  BY <1>1, <1>7, <1>8, Zenon
<1>11. Len(order') + Len(pool') = Len(names)
  <2>1. /\ Len(order) \in Nat /\ Len(pool) \in Nat /\ Len(order) + Len(pool) = Len(names)
        /\ Len(pool') = Len(pool) - 1 /\ Len(order') = Len(order) + 1
    <3>1. Len(order) \in Nat
      BY <1>1
    <3>2. Len(pool) \in Nat
      BY <1>1
    <3> QED BY <1>1, <1>4, <1>6, <3>1, <3>2, Zenon
  <2> QED BY <2>1
<1> QED BY <1>4, <1>6, <1>9, <1>10, <1>11, Zenon DEF PoolOK

\* How many numbers an interval has: shown before SharesFair.
IntervalSize == \A a, b \in Int : a <= b => Cardinality(a..b) = b - a + 1

\* The numbers that pick a queue are the interval between its running sum and
\* the one before.
LEMMA ShareFair ==
  ASSUME IntervalSize, SelectorInv
  PROVE  FairShare
<1> SUFFICES ASSUME polling, NEW k \in DOMAIN pool
             PROVE  Cardinality({r \in 0..(remaining - 1) : pick(r) = k}) = weight(pool[k])
  BY Zenon DEF FairShare
<1>1. pool \in Seq(DOMAIN names) /\ remaining = acc(Len(pool))
  BY Zenon DEF SelectorInv, PoolOK, acc
<1>2. k \in 1..Len(pool) /\ Len(pool) \in Nat /\ k \in DOMAIN pool
  BY <1>1
<1>3. \A i \in DOMAIN names : weight(i) \in Nat \ {0}
  BY Weights, Zenon
<1>4. /\ acc(k) = acc(k - 1) + weight(pool[k]) /\ acc(k - 1) \in Nat /\ acc(k) \in Nat
      /\ acc(0) = 0 /\ acc(k) <= remaining /\ remaining \in Nat
  <2>1. /\ Sums(pool)[k] = Sums(pool)[k - 1] + weight(pool[k]) /\ Sums(pool)[0] = 0
        /\ \A i \in 0..Len(pool) : Sums(pool)[i] \in Nat
    BY <1>1, <1>2, <1>3, SumsFacts, Zenon
  <2>2. Sums(pool)[k] <= Sums(pool)[Len(pool)]
    BY <1>1, <1>2, <1>3, SumsGrow
  <2> QED BY <1>1, <1>2, <2>1, <2>2 DEF acc
<1>5. weight(pool[k]) \in Nat \ {0}
  BY <1>1, <1>2, <1>3
<1>6. ASSUME NEW r \in 0..(remaining - 1) PROVE pick(r) = k <=> r \in acc(k - 1)..(acc(k) - 1)
  <2>1. /\ pick(r) \in DOMAIN pool /\ r < acc(pick(r))
        /\ \A i \in DOMAIN pool : r < acc(i) => pick(r) <= i
    BY PickFacts, Zenon
  <2>2. pick(r) \in 1..Len(pool) /\ r \in Nat
    BY <1>1, <1>4, <2>1
  <2>3. ASSUME pick(r) = k PROVE acc(k - 1) <= r
    <3>1. CASE k = 1
      BY <1>4, <2>2, <3>1
    <3>2. CASE k # 1
      <4>1. k - 1 \in DOMAIN pool /\ ~ (k <= k - 1)
        BY <1>1, <1>2, <3>2
      <4>2. ~ (r < acc(k - 1))
        BY <2>1, <2>3, <4>1, Zenon
      <4> QED BY <1>4, <2>2, <4>2
    <3> QED BY <3>1, <3>2, Zenon
  <2>4. ASSUME acc(k - 1) <= r, r < acc(k) PROVE pick(r) = k
    <3>1. pick(r) <= k
      BY <1>2, <2>1, <2>4, Zenon
    <3>2. CASE pick(r) <= k - 1
      <4>1. Sums(pool)[pick(r)] <= Sums(pool)[k - 1] /\ Sums(pool)[pick(r)] \in Nat
        <5>1. pick(r) \in 0..Len(pool) /\ k - 1 \in 0..Len(pool)
          BY <1>2, <2>2
        <5> QED BY <1>1, <1>3, <3>2, <5>1, SumsGrow, SumsFacts, Zenon
      <4>2. acc(pick(r)) <= acc(k - 1) /\ acc(pick(r)) \in Nat
        BY <4>1, Zenon DEF acc
      <4> QED BY <1>4, <2>1, <2>2, <2>4, <4>2
    <3> QED BY <1>2, <2>2, <3>1, <3>2
  <2> QED BY <1>4, <2>1, <2>2, <2>3, <2>4
<1>7. {r \in 0..(remaining - 1) : pick(r) = k} = acc(k - 1)..(acc(k) - 1)
  <2>1. acc(k - 1)..(acc(k) - 1) \subseteq 0..(remaining - 1)
    BY <1>4
  <2> QED BY <1>6, <2>1, Zenon
<1>8. Cardinality(acc(k - 1)..(acc(k) - 1)) = weight(pool[k])
  <2>1. acc(k - 1) \in Int /\ acc(k) - 1 \in Int /\ acc(k - 1) <= acc(k) - 1
    BY <1>4, <1>5
  <2>2. Cardinality(acc(k - 1)..(acc(k) - 1)) = (acc(k) - 1) - acc(k - 1) + 1
    BY <2>1, Zenon DEF IntervalSize
  <2> QED BY <1>4, <1>5, <2>2
<1> QED BY <1>7, <1>8, Zenon

\* Before the first call the selector has no order and no pool to be wrong.
LEMMA SelectorStart ==
  SelectorInit => SelectorInv
BY Zenon DEF SelectorInit, SelectorInv, OrderComplete

\* A new call keeps SelectorInv.
LEMMA PollKeeps ==
  ASSUME SelectorInv, Poll
  PROVE  SelectorInv'
<1>1. configured' = configured /\ strict' = strict /\ ~ polling
  BY Zenon DEF Poll
<1>2. names \in Seq(Range(names)) /\ Len(names) \in Nat
  BY SelectorAssumption
<1>3. CASE order' = names /\ polling' = polling
  <2>1. OrderComplete'
    BY <1>3, Zenon DEF OrderComplete
  <2> QED BY <1>1, <1>3, <2>1, Zenon DEF SelectorInv
<1>4. CASE ~ strict /\ pool' = all /\ order' = <<>> /\ remaining' = total /\ polling' = TRUE
  <2>1. all \in Seq(DOMAIN names) /\ Len(all) = Len(names) /\ Range(all) = DOMAIN names
    <3>1. DOMAIN names = 1..Len(names)
      BY <1>2
    <3>2. all \in Seq(DOMAIN names) /\ Len(all) = Len(names)
      BY <1>2, <3>1 DEF all
    <3>3. Range(all) = DOMAIN names
      BY Zenon DEF all, Range
    <3> QED BY <3>2, <3>3, Zenon
  <2>2. Range(<<>>) = {}
    BY DEF Range
  <2>3. Range(order') \cup {names[i] : i \in Range(pool')} = Range(names)
    <3>1. Range(order') = {} /\ Range(pool') = DOMAIN names
      BY <1>4, <2>1, <2>2, Zenon
    <3>2. {names[i] : i \in DOMAIN names} = Range(names)
      BY Zenon DEF Range
    <3> QED BY <3>1, <3>2, Zenon
  <2>4. remaining' = Sums(pool)'[Len(pool')]
    <3>1. Sums(pool)' = Sums(pool')
      BY <1>1, Zenon DEF Sums, weight
    <3> QED BY <1>4, <2>1, <3>1, Zenon DEF total
  <2>5. order' \in Seq(Range(names)) /\ Len(order') + Len(pool') = Len(names)
    BY <1>2, <1>4, <2>1
  <2>6. PoolOK'
    BY <1>4, <2>1, <2>3, <2>4, <2>5, Zenon DEF PoolOK
  <2>7. OrderComplete'
    BY <1>4, Zenon DEF OrderComplete
  <2> QED BY <1>1, <1>4, <2>6, <2>7, Zenon DEF SelectorInv
<1> QED BY <1>3, <1>4, Zenon DEF Poll

\* A call that returns keeps SelectorInv.
LEMMA PolledKeeps ==
  ASSUME SelectorInv, Polled
  PROVE  SelectorInv'
<1>1. /\ configured' = configured /\ strict' = strict /\ order' = order /\ polling' = FALSE
      /\ polling /\ pool = <<>>
  BY Zenon DEF Polled
<1>2. ~ strict /\ PoolOK
  BY <1>1, Zenon DEF SelectorInv
<1>3. Range(pool) = {} /\ Len(pool) = 0
  BY <1>1 DEF Range
<1>4. Len(order) = Len(names) /\ Range(order) = Range(names)
  <2>1. Len(order) \in Nat /\ Len(order) + Len(pool) = Len(names)
    BY <1>2 DEF PoolOK
  <2>2. Range(order) = Range(names)
    BY <1>2, <1>3, Zenon DEF PoolOK
  <2> QED BY <1>3, <2>1, <2>2
<1>5. OrderComplete'
  BY <1>1, <1>2, <1>4, Zenon DEF OrderComplete
<1>6. ~ polling' /\ polling' \in BOOLEAN
  BY <1>1, Zenon
<1> QED BY <1>1, <1>5, <1>6, Zenon DEF SelectorInv

\* Every step of the selector keeps SelectorInv.
LEMMA SelectorStep ==
  ASSUME SelectorInv, [SelectorNext]_selectorVars
  PROVE  SelectorInv'
<1>1. CASE Poll
  BY <1>1, PollKeeps, Zenon
<1>2. ASSUME NEW r \in 0..(remaining - 1), Draw(r) PROVE SelectorInv'
  <2>1. polling /\ configured' = configured /\ strict' = strict /\ polling' = polling
    BY <1>2, Zenon DEF Draw
  <2>2. PoolOK' /\ ~ strict
    BY <1>2, <2>1, DrawKeeps, Zenon DEF SelectorInv
  <2>3. OrderComplete'
    BY <2>1, Zenon DEF OrderComplete
  <2> QED BY <2>1, <2>2, <2>3, Zenon DEF SelectorInv
<1>3. CASE Polled
  BY <1>3, PolledKeeps, Zenon
<1>4. CASE UNCHANGED selectorVars
  <2>1. /\ configured' = configured /\ strict' = strict /\ pool' = pool /\ order' = order
        /\ remaining' = remaining /\ polling' = polling
    BY <1>4, Zenon DEF selectorVars
  <2>2. PoolOK => PoolOK'
    <3>1. Sums(pool)' = Sums(pool)
      BY <2>1, Zenon DEF Sums, weight
    <3> QED BY <2>1, <3>1, Zenon DEF PoolOK
  <2>3. OrderComplete'
    BY <2>1, Zenon DEF SelectorInv, OrderComplete
  <2> QED BY <2>1, <2>2, <2>3, Zenon DEF SelectorInv
<1> QED BY <1>1, <1>2, <1>3, <1>4, Zenon DEF SelectorNext

\* Every call of the queue selector returns each configured queue once, for
\* any queues, weights and draws; with strict priority in configured order.
THEOREM OrdersComplete == SelectorSpec => []OrderComplete
<1>1. SelectorInv /\ [SelectorNext]_selectorVars => SelectorInv'
  BY SelectorStep, Zenon
<1>2. SelectorInv => OrderComplete
  BY Zenon DEF SelectorInv
<1> QED BY <1>1, <1>2, SelectorStart, PTL DEF SelectorSpec

-----------------------------------------------------------------------------
(* The calendar.                                                           *)

\* Quotient and remainder.
LEMMA DivFacts ==
  ASSUME NEW n \in Nat, NEW k \in Nat \ {0}
  PROVE  /\ n \div k \in Nat /\ (n \div k) * k <= n /\ n < (n \div k + 1) * k
         /\ n % k \in 0..(k - 1) /\ n % k = n - (n \div k) * k
OBVIOUS

\* The quotient is the only one that leaves a remainder below the divisor.
LEMMA DivUnique ==
  ASSUME NEW n \in Nat, NEW k \in Nat \ {0}, NEW q \in Nat, q * k <= n, n < (q + 1) * k
  PROVE  n \div k = q
OBVIOUS

\* What the calendar assumes of its constants.
LEMMA CronConstants ==
  /\ Minutes \in Nat \ {0} /\ Hours \in Nat \ {0} /\ Week \in Nat \ {0}
  /\ LeapCycle \in Nat \ {0} /\ Horizon \in Nat \ {0} /\ Grain \in Nat \ {0}
  /\ searchLimit \in Nat \ {0} /\ Day \in Nat \ {0}
  /\ MonthDays \in Seq(Nat \ {0}) /\ Len(MonthDays) \in Nat \ {0}
  /\ LeapMonth \in 1..Len(MonthDays)
<1>1. /\ Minutes \in Nat \ {0} /\ Hours \in Nat \ {0} /\ Week \in Nat \ {0}
      /\ LeapCycle \in Nat \ {0} /\ Horizon \in Nat \ {0} /\ Grain \in Nat \ {0}
      /\ searchLimit \in Nat \ {0}
  BY CronAssumption, Zenon
<1>2. Day \in Nat \ {0}
  BY <1>1 DEF Day
<1>3. MonthDays \in Seq(Nat \ {0}) /\ LeapMonth \in DOMAIN MonthDays
  BY CronAssumption, Zenon
<1>4. Len(MonthDays) \in Nat \ {0} /\ LeapMonth \in 1..Len(MonthDays)
  BY <1>3
<1> QED BY <1>1, <1>2, <1>3, <1>4, Zenon

\* No month is longer than Longest, in leap years neither.
LEMMA LongestFacts ==
  Longest \in Nat /\ \A i \in 1..Len(MonthDays) : MonthDays[i] \in Nat \ {0} /\ MonthDays[i] <= Longest
<1> DEFINE S == {n \in Nat : 1 <= n /\ n <= Len(MonthDays) =>
                   \E m \in 1..n : \A i \in 1..n : MonthDays[i] <= MonthDays[m]}
<1>1. \A i \in 1..Len(MonthDays) : MonthDays[i] \in Nat \ {0}
  BY CronConstants
<1>2. 0 \in S
  OBVIOUS
<1>3. ASSUME NEW n \in Nat, n \in S PROVE n + 1 \in S
  <2> SUFFICES ASSUME n + 1 <= Len(MonthDays)
               PROVE  \E m \in 1..(n + 1) : \A i \in 1..(n + 1) : MonthDays[i] <= MonthDays[m]
    OBVIOUS
  <2>1. CASE n = 0
    BY <1>1, <2>1
  <2>2. CASE n # 0
    <3>1. PICK m \in 1..n : \A i \in 1..n : MonthDays[i] <= MonthDays[m]
      BY <1>3, <2>2
    <3>2. \A i \in 1..(n + 1) : i \in 1..n \/ i = n + 1
      OBVIOUS
    <3>3. /\ MonthDays[m] \in Nat /\ MonthDays[n + 1] \in Nat
          /\ \A i \in 1..n : MonthDays[i] \in Nat
          /\ m \in 1..(n + 1) /\ n + 1 \in 1..(n + 1)
      BY <1>1, CronConstants
    <3>4. CASE MonthDays[n + 1] <= MonthDays[m]
      BY <3>1, <3>2, <3>3, <3>4, Zenon
    <3>5. CASE MonthDays[m] <= MonthDays[n + 1]
      <4>1. \A i \in 1..(n + 1) : MonthDays[i] <= MonthDays[n + 1]
        BY <3>1, <3>2, <3>3, <3>5
      <4> QED BY <3>3, <4>1, Zenon
    <3>6. MonthDays[n + 1] <= MonthDays[m] \/ MonthDays[m] <= MonthDays[n + 1]
      BY <3>3
    <3> QED BY <3>4, <3>5, <3>6, Zenon
  <2> QED BY <2>1, <2>2, Zenon
<1> HIDE DEF S
<1>4. Nat \subseteq S
  BY <1>2, <1>3, Inductive, Zenon
<1>5. PICK m \in 1..Len(MonthDays) : \A i \in 1..Len(MonthDays) : MonthDays[i] <= MonthDays[m]
  <2>1. Len(MonthDays) \in S /\ 1 <= Len(MonthDays) /\ Len(MonthDays) <= Len(MonthDays)
    BY <1>4, CronConstants
  <2> QED BY <2>1, Zenon DEF S
<1>6. DOMAIN MonthDays = 1..Len(MonthDays)
  BY CronConstants
<1>7. \E n \in {MonthDays[i] : i \in DOMAIN MonthDays} : \A i \in DOMAIN MonthDays : MonthDays[i] <= n
  BY <1>5, <1>6, Zenon
<1>8. /\ Longest \in {MonthDays[i] : i \in DOMAIN MonthDays}
      /\ \A i \in DOMAIN MonthDays : MonthDays[i] <= Longest
  BY <1>7, Zenon DEF Longest
<1> QED BY <1>1, <1>6, <1>8, Zenon

\* Every month has a number and at least one day.
LEMMA DaysFacts ==
  ASSUME NEW i \in Nat
  PROVE  MonthNo(i) \in 1..Len(MonthDays) /\ DaysOf(i) \in 1..Longest
<1>1. MonthNo(i) \in 1..Len(MonthDays)
  <2>1. Len(MonthDays) \in Nat \ {0}
    BY CronConstants, Zenon
  <2>2. i % Len(MonthDays) \in 0..(Len(MonthDays) - 1)
    BY <2>1, DivFacts, Zenon
  <2> QED BY <2>1, <2>2 DEF MonthNo
<1>2. MonthDays[LeapMonth] < Longest
  BY CronAssumption, Zenon
<1>3. /\ Longest \in Nat /\ MonthDays[MonthNo(i)] \in Nat \ {0} /\ MonthDays[MonthNo(i)] <= Longest
      /\ MonthDays[LeapMonth] \in Nat
  BY <1>1, LongestFacts, CronConstants, Zenon
<1>4. CASE Leap(i)
  <2>1. DaysOf(i) = MonthDays[MonthNo(i)] + 1 /\ MonthNo(i) = LeapMonth
    BY <1>4, Zenon DEF DaysOf, Leap
  <2> QED BY <1>1, <1>2, <1>3, <2>1
<1>5. CASE ~ Leap(i)
  <2>1. DaysOf(i) = MonthDays[MonthNo(i)] + 0
    BY <1>5, Zenon DEF DaysOf
  <2> QED BY <1>1, <1>3, <2>1
<1> QED BY <1>4, <1>5, Zenon

\* FirstDay satisfies its defining equation.
LEMMA FirstDayDefined ==
  FirstDay = [i \in 0..Horizon |-> IF i = 0 THEN 0 ELSE FirstDay[i - 1] + DaysOf(i - 1)]
<1> DEFINE Upto(n, g) == g = [i \in 0..n |-> IF i = 0 THEN 0 ELSE g[i - 1] + DaysOf(i - 1)]
           S == {n \in Nat : \E g : Upto(n, g)}
<1>1. 0 \in S
  <2>1. Upto(0, [i \in 0..0 |-> 0])
    OBVIOUS
  <2> QED BY <2>1, Zenon
<1>2. ASSUME NEW n \in Nat, n \in S PROVE n + 1 \in S
  <2>1. PICK g : Upto(n, g)
    BY <1>2, Zenon
  <2> DEFINE h == [i \in 0..(n + 1) |-> IF i = n + 1 THEN g[n] + DaysOf(n) ELSE g[i]]
  <2>2. \A i \in 0..(n + 1) : h[i] = IF i = 0 THEN 0 ELSE h[i - 1] + DaysOf(i - 1)
    BY <2>1
  <2>3. Upto(n + 1, h)
    BY <2>2, Zenon
  <2>4. \E f : Upto(n + 1, f)
    <3> HIDE DEF h, Upto
    <3> QED BY <2>3, Zenon
  <2> QED BY <2>4
<1> HIDE DEF S
<1>3. Horizon \in S
  BY <1>1, <1>2, Inductive, CronConstants, Zenon
<1>4. \E g : g = [i \in 0..Horizon |-> IF i = 0 THEN 0 ELSE g[i - 1] + DaysOf(i - 1)]
  BY <1>3, Zenon DEF S
<1> QED BY <1>4, Zenon DEF FirstDay

\* A month starts where the one before it ends.
LEMMA FirstDayFacts ==
  /\ FirstDay[0] = 0
  /\ \A i \in 0..(Horizon - 1) : FirstDay[i + 1] = FirstDay[i] + DaysOf(i)
  /\ \A i \in 0..Horizon : FirstDay[i] \in Nat
<1>1. \A i \in 0..Horizon : FirstDay[i] = IF i = 0 THEN 0 ELSE FirstDay[i - 1] + DaysOf(i - 1)
  BY FirstDayDefined, Zenon
<1>2. FirstDay[0] = 0 /\ \A i \in 0..(Horizon - 1) : FirstDay[i + 1] = FirstDay[i] + DaysOf(i)
  BY <1>1, CronConstants
<1>3. \A i \in Nat : DaysOf(i) \in Nat
  BY DaysFacts, LongestFacts
<1> DEFINE S == {i \in Nat : i <= Horizon => FirstDay[i] \in Nat}
<1>4. 0 \in S
  BY <1>2
<1>5. ASSUME NEW i \in Nat, i \in S PROVE i + 1 \in S
  <2>1. Horizon \in Nat
    BY CronConstants, Zenon
  <2> QED BY <1>2, <1>3, <1>5, <2>1
<1> HIDE DEF S
<1>6. Nat \subseteq S
  BY <1>4, <1>5, Inductive, Zenon
<1> QED BY <1>2, <1>6, CronConstants DEF S

\* Months start in order.
LEMMA FirstDayGrows ==
  ASSUME NEW i \in 0..Horizon, NEW j \in 0..Horizon, i <= j
  PROVE  FirstDay[i] <= FirstDay[j]
<1> DEFINE S == {n \in Nat : i + n <= Horizon => FirstDay[i] <= FirstDay[i + n]}
<1>0. Horizon \in Nat
  BY CronConstants, Zenon
<1>1. 0 \in S
  BY FirstDayFacts
<1>2. ASSUME NEW n \in Nat, n \in S PROVE n + 1 \in S
  <2> SUFFICES ASSUME i + (n + 1) <= Horizon PROVE FirstDay[i] <= FirstDay[i + (n + 1)]
    OBVIOUS
  <2>1. i + n \in 0..(Horizon - 1) /\ (i + n) + 1 = i + (n + 1) /\ i + n \in Nat
    BY <1>0
  <2>2. DaysOf(i + n) \in Nat
    <3>1. DaysOf(i + n) \in 1..Longest
      BY <2>1, DaysFacts, Zenon
    <3> QED BY <3>1
  <2>3. FirstDay[i + (n + 1)] = FirstDay[i + n] + DaysOf(i + n)
    BY <2>1, FirstDayFacts, Zenon
  <2>4. FirstDay[i] \in Nat /\ FirstDay[i + n] \in Nat
    BY <1>0, <2>1, FirstDayFacts
  <2> QED BY <1>0, <1>2, <2>1, <2>2, <2>3, <2>4
<1> HIDE DEF S
<1>3. Nat \subseteq S
  BY <1>1, <1>2, Inductive, Zenon
<1>4. j - i \in S /\ i + (j - i) = j
  BY <1>3
<1> QED BY <1>0, <1>4 DEF S

\* A positive factor cancels in an inequality.
LEMMA Cancel ==
  ASSUME NEW a \in Nat, NEW b \in Nat, NEW k \in Nat \ {0}, a * k < b * k
  PROVE  a < b
OBVIOUS

\* A factor keeps an inequality.
LEMMA Scale ==
  ASSUME NEW a \in Nat, NEW b \in Nat, NEW k \in Nat, a <= b
  PROVE  a * k <= b * k
OBVIOUS

InCalendar(m) == m \in Nat /\ m < FirstDay[Horizon] * Day

\* Every minute of the calendar is in one month, and no other.
LEMMA MonthFacts ==
  ASSUME NEW m, InCalendar(m)
  PROVE  /\ DayNo(m) \in Nat /\ MonthAt(m) \in 0..(Horizon - 1)
         /\ FirstDay[MonthAt(m)] <= DayNo(m) /\ DayNo(m) < FirstDay[MonthAt(m) + 1]
<1>1. m \in Nat /\ Day \in Nat \ {0} /\ FirstDay[Horizon] \in Nat /\ m < FirstDay[Horizon] * Day
  BY CronConstants, FirstDayFacts DEF InCalendar
<1>2. DayNo(m) \in Nat /\ DayNo(m) * Day <= m
  BY <1>1, DivFacts, Zenon DEF DayNo
<1>3. DayNo(m) < FirstDay[Horizon]
  <2>1. DayNo(m) * Day < FirstDay[Horizon] * Day
    BY <1>1, <1>2
  <2> QED BY <1>1, <1>2, <2>1, Cancel, Zenon
<1> DEFINE S == {i \in 0..Horizon : DayNo(m) < FirstDay[i]}
<1>4. Horizon \in Nat /\ Horizon \in S /\ S \subseteq Nat
  BY <1>3, CronConstants
<1>5. PICK i \in S : \A k \in S : i <= k
  <2> HIDE DEF S
  <2> QED BY <1>4, Least, Zenon
<1>6. i \in 0..Horizon /\ i # 0
  BY <1>2, FirstDayFacts
<1>7. i - 1 \in 0..(Horizon - 1) /\ i - 1 \notin S /\ i - 1 \in 0..Horizon /\ (i - 1) + 1 = i
  BY <1>4, <1>5, <1>6
<1>8. FirstDay[i - 1] <= DayNo(m)
  <2>1. FirstDay[i - 1] \in Nat /\ ~ (DayNo(m) < FirstDay[i - 1])
    BY <1>7, FirstDayFacts, Zenon
  <2> QED BY <1>2, <2>1
<1>9. \E k \in 0..(Horizon - 1) : FirstDay[k] <= DayNo(m) /\ DayNo(m) < FirstDay[k + 1]
  BY <1>5, <1>7, <1>8, Zenon
<1> QED BY <1>2, <1>9, Zenon DEF MonthAt

\* A day between two firsts is in that month.
LEMMA MonthUnique ==
  ASSUME NEW m, InCalendar(m), NEW i \in 0..(Horizon - 1),
         FirstDay[i] <= DayNo(m), DayNo(m) < FirstDay[i + 1]
  PROVE  MonthAt(m) = i
<1> DEFINE k == MonthAt(m)
<1>1. /\ DayNo(m) \in Nat /\ k \in 0..(Horizon - 1)
      /\ FirstDay[k] <= DayNo(m) /\ DayNo(m) < FirstDay[k + 1]
  BY MonthFacts, Zenon
<1> HIDE DEF k
<1>2. Horizon \in Nat
  BY CronConstants, Zenon
<1>3. i \in 0..Horizon /\ k \in 0..Horizon /\ i + 1 \in 0..Horizon /\ k + 1 \in 0..Horizon
  BY <1>1, <1>2
<1>4. FirstDay[i] \in Nat /\ FirstDay[k] \in Nat /\ FirstDay[i + 1] \in Nat /\ FirstDay[k + 1] \in Nat
  BY <1>3, FirstDayFacts, Zenon
<1>5. ~ (i + 1 <= k)
  <2>1. i + 1 <= k => FirstDay[i + 1] <= FirstDay[k]
    BY <1>3, FirstDayGrows, Zenon
  <2> QED BY <1>1, <1>4, <2>1
<1>6. ~ (k + 1 <= i)
  <2>1. k + 1 <= i => FirstDay[k + 1] <= FirstDay[i]
    BY <1>3, FirstDayGrows, Zenon
  <2> QED BY <1>1, <1>4, <2>1
<1> QED BY <1>1, <1>5, <1>6 DEF k

\* Each field of a minute of the calendar is in its range.
LEMMA FieldsInRange ==
  ASSUME NEW m, InCalendar(m)
  PROVE  /\ Minute(m) \in Lowest("minute")..Highest("minute")
         /\ Hour(m) \in Lowest("hour")..Highest("hour")
         /\ DayOfMonth(m) \in Lowest("dom")..Highest("dom")
         /\ Month(m) \in Lowest("month")..Highest("month")
         /\ Weekday(m) \in Lowest("dow")..Highest("dow")
<1>1. m \in Nat /\ DayNo(m) \in Nat /\ MonthAt(m) \in 0..(Horizon - 1)
  BY MonthFacts, Zenon DEF InCalendar
<1>2. Minute(m) \in 0..(Minutes - 1)
  BY <1>1, CronConstants, DivFacts, Zenon DEF Minute
<1>3. Weekday(m) \in 0..(Week - 1)
  BY <1>1, CronConstants, DivFacts, Zenon DEF Weekday
<1>4. Month(m) \in 1..Len(MonthDays)
  <2>1. MonthAt(m) \in Nat
    BY <1>1, CronConstants
  <2> QED BY <2>1, DaysFacts, Zenon DEF Month
<1>5. DayOfMonth(m) \in 1..Longest
  <2>1. MonthAt(m) \in Nat /\ MonthAt(m) \in 0..Horizon
    BY <1>1, CronConstants
  <2>2. DaysOf(MonthAt(m)) \in 1..Longest /\ Longest \in Nat
    BY <2>1, DaysFacts, LongestFacts, Zenon
  <2>3. FirstDay[MonthAt(m)] <= DayNo(m) /\ DayNo(m) < FirstDay[MonthAt(m) + 1]
    BY MonthFacts, Zenon
  <2>4. FirstDay[MonthAt(m) + 1] = FirstDay[MonthAt(m)] + DaysOf(MonthAt(m))
    BY <1>1, FirstDayFacts, Zenon
  <2>5. FirstDay[MonthAt(m)] \in Nat
    BY <2>1, FirstDayFacts, Zenon
  <2> QED BY <1>1, <2>2, <2>3, <2>4, <2>5 DEF DayOfMonth
<1>6. Hour(m) \in 0..(Hours - 1)
  <2>1. m % Day \in 0..(Day - 1) /\ Day \in Nat
    <3>1. Day \in Nat \ {0}
      BY CronConstants, Zenon
    <3> QED BY <1>1, <3>1, DivFacts, Zenon
  <2>2. Minutes \in Nat \ {0} /\ Hours \in Nat \ {0} /\ Day = Hours * Minutes
    BY CronConstants DEF Day
  <2>3. PICK r \in Nat : r = m % Day /\ r < Day
    BY <2>1
  <2>4. r \div Minutes \in Nat /\ (r \div Minutes) * Minutes <= r
    BY <2>2, DivFacts, Zenon
  <2>5. (r \div Minutes) * Minutes < Hours * Minutes
    <3>1. (r \div Minutes) * Minutes \in Nat
      BY <2>2, <2>4
    <3>2. (r \div Minutes) * Minutes < Day
      BY <2>1, <2>3, <2>4, <3>1
    <3> QED BY <2>2, <3>2, Zenon
  <2>6. r \div Minutes < Hours
    BY <2>2, <2>4, <2>5, Cancel, Zenon
  <2>7. Hour(m) = r \div Minutes
    BY <2>3, Zenon DEF Hour
  <2> QED BY <2>2, <2>4, <2>6, <2>7
<1> QED BY <1>2, <1>3, <1>4, <1>5, <1>6, Zenon DEF Lowest, Highest

-----------------------------------------------------------------------------
(* The cron schedule.                                                      *)

\* The bits of a range with a step are the numbers a step apart.
Stepped(low, high, step, v) ==
  v >= low /\ v <= high /\ \E k \in 0..v : v = low + k * step

\* The bits of a range are its values by steps.
LEMMA BitsFacts ==
  ASSUME NEW low \in Nat, NEW high \in Nat, NEW step \in Nat \ {0}, NEW v \in Nat
  PROVE  v \in Bits(low, high, step) <=> Stepped(low, high, step, v)
<1>1. ASSUME v >= low, (v - low) % step = 0 PROVE \E k \in 0..v : v = low + k * step
  <2>1. PICK n \in Nat : n = v - low
    BY <1>1
  <2>2. n \div step \in Nat /\ n = (n \div step) * step
    BY <1>1, <2>1, DivFacts
  <2>3. PICK k \in Nat : k = n \div step
    BY <2>2, Zenon
  <2>4. n = k * step
    BY <2>2, <2>3, Zenon
  <2>5. k * 1 <= k * step
    BY <2>3
  <2> QED BY <2>1, <2>3, <2>4, <2>5
<1>2. ASSUME NEW k \in 0..v, v = low + k * step PROVE (v - low) % step = 0
  <2>1. PICK n \in Nat : n = k * step
    OBVIOUS
  <2>2. k * step <= n /\ n < (k + 1) * step
    BY <2>1
  <2>3. n \div step = k
    BY <2>1, <2>2, DivUnique
  <2>4. n % step = n - (n \div step) * step
    BY <2>1, DivFacts, Zenon
  <2>5. n % step = 0
    BY <2>1, <2>3, <2>4
  <2>6. v - low = n
    BY <1>2, <2>1
  <2> QED BY <2>5, <2>6, Zenon
<1>3. v \in Bits(low, high, step) <=> v \in low..high /\ (v - low) % step = 0
  BY Zenon DEF Bits
<1>4. v \in low..high <=> v >= low /\ v <= high
  OBVIOUS
<1> QED BY <1>1, <1>2, <1>3, <1>4, Zenon DEF Stepped

\* The bounds of every field are numbers.
LEMMA FieldRange ==
  ASSUME NEW f \in Fields
  PROVE  Lowest(f) \in Nat /\ Highest(f) \in Nat
<1>0. Minutes - 1 \in Nat /\ Hours - 1 \in Nat /\ Week - 1 \in Nat /\ 0 \in Nat
  <2>1. Minutes \in Nat \ {0} /\ Hours \in Nat \ {0} /\ Week \in Nat \ {0}
    BY CronConstants, Zenon
  <2> QED BY <2>1
<1>1. CASE f = "minute"
  BY <1>0, <1>1, Zenon DEF Lowest, Highest
<1>2. CASE f = "hour"
  BY <1>0, <1>2, Zenon DEF Lowest, Highest
<1>3. CASE f = "dom"
  BY <1>3, LongestFacts, Zenon DEF Lowest, Highest
<1>4. CASE f = "month"
  BY <1>4, CronConstants, Zenon DEF Lowest, Highest
<1>5. CASE f = "dow"
  BY <1>0, <1>5, Zenon DEF Lowest, Highest
<1> QED BY <1>1, <1>2, <1>3, <1>4, <1>5, Zenon DEF Fields

\* A term that parses has the bits of the numbers it selects.
LEMMA TermSelects ==
  ASSUME NEW f \in Fields, NEW term \in Term, term.slash \/ term.step = 1,
         ~ (f = "dow" /\ term.kind = "range" /\ term.high = Week),
         parseTerm(term, f) # Invalid, NEW v \in Lowest(f)..Highest(f)
  PROVE  v \in parseTerm(term, f) <=> Selects(term, f, v)
<1> DEFINE fold(n) == IF f = "dow" /\ n = Week THEN 0 ELSE n
<1>1. Lowest(f) \in Nat /\ Highest(f) \in Nat /\ v \in Nat
  BY FieldRange
<1>2. /\ term.kind \in {"star", "range", "value"} /\ term.low \in Nat /\ term.high \in Nat
      /\ term.step \in Nat /\ term.slash \in BOOLEAN
  BY Zenon DEF Term
<1>3. term.step \in Nat \ {0}
  BY <1>2 DEF parseTerm
<1>4. \A n \in Nat : parseValue(n, f) # Invalid => parseValue(n, f) = fold(n) /\ fold(n) \in Nat
  BY Zenon DEF parseValue
<1>5. ASSUME NEW low \in Nat, NEW high \in Nat
      PROVE  v \in Bits(low, high, term.step) <=> Stepped(low, high, term.step, v)
  BY <1>1, <1>3, BitsFacts, Zenon
<1>6. CASE term.kind = "star"
  <2>1. parseTerm(term, f) = Bits(Lowest(f), Highest(f), term.step)
    BY <1>3, <1>6 DEF parseTerm
  <2>2. Selects(term, f, v) <=> Stepped(Lowest(f), Highest(f), term.step, v)
    BY <1>6, Zenon DEF Selects, Stepped
  <2> QED BY <1>5, <1>1, <2>1, <2>2, Zenon
<1>7. CASE term.kind = "range"
  <2>1. /\ parseValue(term.low, f) # Invalid /\ parseValue(term.high, f) # Invalid
        /\ parseTerm(term, f) = Bits(parseValue(term.low, f), parseValue(term.high, f), term.step)
    BY <1>3, <1>7 DEF parseTerm
  <2>2. /\ fold(term.low) \in Nat /\ fold(term.high) \in Nat
        /\ parseTerm(term, f) = Bits(fold(term.low), fold(term.high), term.step)
    <3> HIDE DEF fold
    <3> QED BY <1>2, <1>4, <2>1, Zenon
  <2>3. Selects(term, f, v) <=> Stepped(fold(term.low), fold(term.high), term.step, v)
    <3>1. fold(term.high) = term.high
      BY <1>7, Zenon
    <3>2. Selects(term, f, v) <=> Stepped(fold(term.low), term.high, term.step, v)
      BY <1>7, Zenon DEF Selects, Stepped
    <3> HIDE DEF fold
    <3> QED BY <3>1, <3>2, Zenon
  <2> HIDE DEF fold
  <2> QED BY <1>5, <2>2, <2>3, Zenon
<1>8. CASE term.kind = "value"
  <2> DEFINE high == IF term.step > 1 THEN Highest(f) ELSE fold(term.low)
  <2>1. /\ parseValue(term.low, f) # Invalid
        /\ parseTerm(term, f) = Bits(parseValue(term.low, f),
                                     IF term.step > 1 THEN Highest(f) ELSE parseValue(term.low, f),
                                     term.step)
    BY <1>3, <1>8 DEF parseTerm
  <2>2. fold(term.low) \in Nat /\ parseValue(term.low, f) = fold(term.low)
    BY <1>2, <1>4, <2>1, Zenon
  <2>3. parseTerm(term, f) = Bits(fold(term.low), high, term.step) /\ high \in Nat
    <3> HIDE DEF fold
    <3> QED BY <1>1, <2>1, <2>2, Zenon
  <2>4. Selects(term, f, v) <=> Stepped(fold(term.low), high, term.step, v)
    BY <1>2, <1>8 DEF Selects, Stepped
  <2> HIDE DEF fold, high
  <2> QED BY <1>5, <2>2, <2>3, <2>4, Zenon
<1> QED BY <1>2, <1>6, <1>7, <1>8, Zenon

\* A parsed field has the bits of the numbers one of its terms selects.
Chosen(f, v) == \E term \in spec[f] : Selects(term, f, v)
Parsed ==
  /\ spec \in Specs /\ sched = Parse(spec) /\ Parse(spec) # Invalid
  /\ ~ SundayAsEnd(spec)

\* The bits parsed from a field are the values it selects.
LEMMA FieldSelects ==
  ASSUME Parsed, NEW f \in Fields, NEW v \in Lowest(f)..Highest(f)
  PROVE  v \in sched[f] <=> Chosen(f, v)
<1>1. ~ (\E g \in Fields : parseField(spec[g], g) = Invalid)
  BY Zenon DEF Parsed, Parse
<1>2. sched[f] = parseField(spec[f], f)
  BY <1>1, Zenon DEF Parsed, Parse
<1>3. Invalid \notin {parseTerm(term, f) : term \in spec[f]}
  BY <1>1, Zenon DEF parseField
<1>4. sched[f] = UNION {parseTerm(term, f) : term \in spec[f]}
  BY <1>2, <1>3, Zenon DEF parseField
<1>5. spec[f] \subseteq Term /\ \A term \in spec[f] : term.slash \/ term.step = 1
  BY SpecAssumption, Zenon DEF Parsed
<1>6. \A term \in spec[f] : ~ (f = "dow" /\ term.kind = "range" /\ term.high = Week)
  BY Zenon DEF Parsed, SundayAsEnd
<1>7. \A term \in spec[f] : v \in parseTerm(term, f) <=> Selects(term, f, v)
  BY <1>3, <1>5, <1>6, TermSelects, Zenon
<1> QED BY <1>4, <1>7, Zenon DEF Chosen

\* A field that is "*" selects everything.
LEMMA StarSelects ==
  ASSUME Parsed, NEW f \in Fields, Star(spec[f]), NEW v \in Lowest(f)..Highest(f)
  PROVE  Chosen(f, v)
<1>1. PICK term \in spec[f] : term.kind = "star" /\ ~ term.slash
  BY Zenon DEF Star
<1>2. term.step = 1
  BY <1>1, SpecAssumption, Zenon DEF Parsed
<1>3. Lowest(f) \in Nat /\ Highest(f) \in Nat /\ v \in Nat
  BY FieldRange
<1>4. v - Lowest(f) \in 0..v /\ v = Lowest(f) + (v - Lowest(f)) * term.step
  BY <1>2, <1>3
<1>5. Selects(term, f, v)
  BY <1>1, <1>3, <1>4 DEF Selects
<1> QED BY <1>1, <1>5, Zenon DEF Chosen

\* The test of the search is what the documentation says of a specification.
LEMMA MatchesFires ==
  ASSUME Parsed, NEW m, InCalendar(m)
  PROVE  Matches(m) <=> Fires(m)
<1>1. /\ Minute(m) \in sched["minute"] <=> Chosen("minute", Minute(m))
      /\ Hour(m) \in sched["hour"] <=> Chosen("hour", Hour(m))
      /\ DayOfMonth(m) \in sched["dom"] <=> Chosen("dom", DayOfMonth(m))
      /\ Month(m) \in sched["month"] <=> Chosen("month", Month(m))
      /\ Weekday(m) \in sched["dow"] <=> Chosen("dow", Weekday(m))
  BY FieldsInRange, FieldSelects, Zenon DEF Fields
<1>2. /\ Star(spec["dom"]) => Chosen("dom", DayOfMonth(m))
      /\ Star(spec["dow"]) => Chosen("dow", Weekday(m))
  BY FieldsInRange, StarSelects, Zenon DEF Fields
<1>3. dayMatches(m) <=>
        IF Star(spec["dom"]) \/ Star(spec["dow"])
        THEN Chosen("dom", DayOfMonth(m)) /\ Chosen("dow", Weekday(m))
        ELSE Chosen("dom", DayOfMonth(m)) \/ Chosen("dow", Weekday(m))
  BY <1>1, <1>2, Zenon DEF dayMatches
<1>4. Fires(m) <=>
        /\ Chosen("minute", Minute(m)) /\ Chosen("hour", Hour(m)) /\ Chosen("month", Month(m))
        /\ IF Star(spec["dom"]) \/ Star(spec["dow"])
           THEN Chosen("dom", DayOfMonth(m)) /\ Chosen("dow", Weekday(m))
           ELSE Chosen("dom", DayOfMonth(m)) \/ Chosen("dow", Weekday(m))
  BY Zenon DEF Fires, Chosen
<1> QED BY <1>1, <1>3, <1>4, Zenon DEF Matches

\* Quotients grow with the dividend.
LEMMA DivGrows ==
  ASSUME NEW m \in Nat, NEW n \in Nat, NEW k \in Nat \ {0}, m <= n
  PROVE  m \div k <= n \div k
<1>1. /\ m \div k \in Nat /\ (m \div k) * k <= m
      /\ n \div k \in Nat /\ n < (n \div k + 1) * k
  BY DivFacts, Zenon
<1>2. PICK a \in Nat, b \in Nat : a = m \div k /\ b = n \div k + 1
  BY <1>1
<1>3. a * k < b * k
  BY <1>1, <1>2
<1>4. a < b
  BY <1>2, <1>3, Cancel, Zenon
<1> QED BY <1>1, <1>2, <1>4

\* The day and the hour of a minute depend on its hour since the beginning.
LEMMA HourFacts ==
  ASSUME NEW n \in Nat
  PROVE  /\ DayNo(n) = (n \div Minutes) \div Hours
         /\ Hour(n) = (n \div Minutes) - ((n \div Minutes) \div Hours) * Hours
<1>1. Minutes \in Nat \ {0} /\ Hours \in Nat \ {0} /\ Day \in Nat \ {0} /\ Day = Hours * Minutes
  BY CronConstants DEF Day
<1>2. PICK q \in Nat : q = n \div Minutes /\ q * Minutes <= n /\ n < (q + 1) * Minutes
  BY <1>1, DivFacts, Zenon
<1>3. PICK a \in Nat : a = q \div Hours /\ a * Hours <= q /\ q < (a + 1) * Hours
  BY <1>1, <1>2, DivFacts, Zenon
<1>4. PICK h \in Nat : h = q - a * Hours
  BY <1>1, <1>2, <1>3
<1>5. /\ (a * Hours) * Minutes <= q * Minutes
      /\ (q + 1) * Minutes <= ((a + 1) * Hours) * Minutes
  <2>1. a * Hours \in Nat /\ (a + 1) * Hours \in Nat /\ q + 1 \in Nat
    BY <1>1
  <2>2. q + 1 <= (a + 1) * Hours
    BY <1>2, <1>3, <2>1
  <2> QED BY <1>1, <1>2, <1>3, <2>1, <2>2, Scale, Zenon
<1>6. (a * Hours) * Minutes = a * Day /\ ((a + 1) * Hours) * Minutes = (a + 1) * Day
  BY <1>1
<1>7. /\ a * Day \in Nat /\ (a + 1) * Day \in Nat /\ q * Minutes \in Nat
      /\ (q + 1) * Minutes \in Nat
  BY <1>1, <1>2, <1>3
<1>8. a * Day <= n /\ n < (a + 1) * Day
  BY <1>2, <1>5, <1>6, <1>7
<1>9. DayNo(n) = a
  BY <1>1, <1>8, DivUnique, Zenon DEF DayNo
<1>10. n % Day = n - a * Day
  <2>1. n % Day = n - (n \div Day) * Day
    BY <1>1, DivFacts, Zenon
  <2> QED BY <1>9, <2>1, Zenon DEF DayNo
<1>11. PICK r \in Nat : r = n - a * Day
  BY <1>7, <1>8
<1>12. h * Minutes = q * Minutes - a * Day /\ (h + 1) * Minutes = (q + 1) * Minutes - a * Day
  BY <1>1, <1>4
<1>13. h * Minutes <= r /\ r < (h + 1) * Minutes
  BY <1>2, <1>7, <1>11, <1>12
<1>14. r \div Minutes = h
  BY <1>1, <1>4, <1>13, DivUnique, Zenon
<1>15. Hour(n) = h
  BY <1>10, <1>11, <1>14, Zenon DEF Hour
<1> QED BY <1>2, <1>3, <1>4, <1>9, <1>15, Zenon

\* Minutes of one day agree in everything but the hour and the minute.
LEMMA SameDay ==
  ASSUME NEW m, NEW n, DayNo(m) = DayNo(n)
  PROVE  Month(m) = Month(n) /\ (dayMatches(m) <=> dayMatches(n))
<1>1. MonthAt(m) = MonthAt(n) /\ Weekday(m) = Weekday(n)
  BY Zenon DEF MonthAt, Weekday
<1>2. Month(m) = Month(n) /\ DayOfMonth(m) = DayOfMonth(n)
  BY <1>1, Zenon DEF Month, DayOfMonth
<1> QED BY <1>1, <1>2, Zenon DEF dayMatches

\* A jump goes forward, and no minute it passes over matches.
PassesOver(m, to) ==
  to \in Nat /\ m < to /\ \A n \in m..(to - 1) : InCalendar(n) => ~ Matches(n)

\* No minute passed over by the jump to the next month matches.
LEMMA MonthJump ==
  ASSUME NEW m, InCalendar(m), Month(m) \notin sched["month"]
  PROVE  PassesOver(m, FirstDay[MonthAt(m) + 1] * Day)
<1>1. /\ m \in Nat /\ DayNo(m) \in Nat /\ MonthAt(m) \in 0..(Horizon - 1)
      /\ FirstDay[MonthAt(m)] <= DayNo(m) /\ DayNo(m) < FirstDay[MonthAt(m) + 1]
  BY MonthFacts, Zenon DEF InCalendar
<1>2. Day \in Nat \ {0} /\ Horizon \in Nat
  BY CronConstants, Zenon
<1>3. PICK F \in Nat : F = FirstDay[MonthAt(m) + 1]
  BY <1>1, <1>2, FirstDayFacts
<1>4. m < (DayNo(m) + 1) * Day
  BY <1>1, <1>2, DivFacts, Zenon DEF DayNo
<1>5. (DayNo(m) + 1) * Day <= F * Day
  <2>1. DayNo(m) + 1 \in Nat /\ DayNo(m) + 1 <= F
    BY <1>1, <1>3
  <2> QED BY <1>2, <2>1, Scale, Zenon
<1>6. F * Day \in Nat /\ (DayNo(m) + 1) * Day \in Nat
  BY <1>1, <1>2
<1>7. ASSUME NEW n \in m..(F * Day - 1), InCalendar(n) PROVE ~ Matches(n)
  <2>1. n \in Nat /\ m <= n /\ n < F * Day
    BY <1>1, <1>6, <1>7
  <2>2. DayNo(n) \in Nat /\ DayNo(n) * Day <= n
    BY <1>2, <2>1, DivFacts, Zenon DEF DayNo
  <2>3. DayNo(m) <= DayNo(n)
    BY <1>1, <1>2, <2>1, DivGrows, Zenon DEF DayNo
  <2>4. DayNo(n) < F
    <3>1. DayNo(n) * Day < F * Day
      BY <1>2, <1>6, <2>1, <2>2
    <3> QED BY <1>2, <2>2, <3>1, Cancel, Zenon
  <2>5. FirstDay[MonthAt(m)] <= DayNo(n) /\ DayNo(n) < FirstDay[MonthAt(m) + 1]
    <3>1. FirstDay[MonthAt(m)] \in Nat
      BY <1>1, <1>2, FirstDayFacts
    <3> QED BY <1>1, <1>3, <2>2, <2>3, <2>4, <3>1
  <2>6. MonthAt(n) = MonthAt(m)
    BY <1>1, <1>7, <2>5, MonthUnique, Zenon
  <2> QED BY <2>6, Zenon DEF Matches, Month
<1>8. m < F * Day
  BY <1>1, <1>4, <1>5, <1>6
<1> QED BY <1>3, <1>6, <1>7, <1>8, Zenon DEF PassesOver

\* No minute passed over by the jump to the next day matches.
LEMMA DayJump ==
  ASSUME NEW m, InCalendar(m), ~ dayMatches(m)
  PROVE  PassesOver(m, (DayNo(m) + 1) * Day)
<1>1. m \in Nat /\ Day \in Nat \ {0}
  BY CronConstants, Zenon DEF InCalendar
<1>2. PICK q \in Nat : q = DayNo(m) /\ q * Day <= m /\ m < (q + 1) * Day
  BY <1>1, DivFacts, Zenon DEF DayNo
<1>3. (q + 1) * Day \in Nat /\ q * Day \in Nat
  BY <1>1, <1>2
<1>4. ASSUME NEW n \in m..((q + 1) * Day - 1) PROVE ~ Matches(n)
  <2>1. n \in Nat /\ q * Day <= n /\ n < (q + 1) * Day
    BY <1>1, <1>2, <1>3
  <2>2. DayNo(n) = DayNo(m)
    BY <1>1, <1>2, <2>1, DivUnique, Zenon DEF DayNo
  <2> QED BY <2>2, SameDay, Zenon DEF Matches
<1> QED BY <1>2, <1>3, <1>4, Zenon DEF PassesOver

\* No minute passed over by the jump to the next hour matches.
LEMMA HourJump ==
  ASSUME NEW m, InCalendar(m), Hour(m) \notin sched["hour"]
  PROVE  PassesOver(m, (m \div Minutes + 1) * Minutes)
<1>1. m \in Nat /\ Minutes \in Nat \ {0}
  BY CronConstants, Zenon DEF InCalendar
<1>2. PICK q \in Nat : q = m \div Minutes /\ q * Minutes <= m /\ m < (q + 1) * Minutes
  BY <1>1, DivFacts, Zenon
<1>3. (q + 1) * Minutes \in Nat /\ q * Minutes \in Nat
  BY <1>1, <1>2
<1>4. ASSUME NEW n \in m..((q + 1) * Minutes - 1) PROVE ~ Matches(n)
  <2>1. n \in Nat /\ q * Minutes <= n /\ n < (q + 1) * Minutes
    BY <1>1, <1>2, <1>3
  <2>2. n \div Minutes = q
    BY <1>1, <1>2, <2>1, DivUnique, Zenon
  <2>3. Hour(n) = Hour(m)
    BY <1>1, <1>2, <2>1, <2>2, HourFacts, Zenon
  <2> QED BY <2>3, Zenon DEF Matches
<1> QED BY <1>2, <1>3, <1>4, Zenon DEF PassesOver

\* No minute a jump passes over matches.
LEMMA JumpFacts ==
  ASSUME NEW m, InCalendar(m), ~ Matches(m)
  PROVE  PassesOver(m, Jump(m))
<1>1. CASE Month(m) \notin sched["month"]
  <2>1. Jump(m) = FirstDay[MonthAt(m) + 1] * Day
    BY <1>1, Zenon DEF Jump
  <2> QED BY <1>1, <2>1, MonthJump, Zenon
<1>2. CASE Month(m) \in sched["month"] /\ ~ dayMatches(m)
  <2>1. Jump(m) = (DayNo(m) + 1) * Day
    BY <1>2, Zenon DEF Jump
  <2> QED BY <1>2, <2>1, DayJump, Zenon
<1>3. CASE Month(m) \in sched["month"] /\ dayMatches(m) /\ Hour(m) \notin sched["hour"]
  <2>1. Jump(m) = (m \div Minutes + 1) * Minutes
    BY <1>3, Zenon DEF Jump
  <2> QED BY <1>3, <2>1, HourJump, Zenon
<1>4. CASE Month(m) \in sched["month"] /\ dayMatches(m) /\ Hour(m) \in sched["hour"]
  <2>1. Jump(m) = m + 1
    BY <1>4, Zenon DEF Jump
  <2>2. m \in Nat /\ m..((m + 1) - 1) = {m}
    BY DEF InCalendar
  <2>3. m + 1 \in Nat /\ m < m + 1
    BY <2>2
  <2> QED BY <2>1, <2>2, <2>3, Zenon DEF PassesOver
<1> QED BY <1>1, <1>2, <1>3, <1>4, Zenon

\* While the search runs, nothing between the start and the minute looked at
\* fires.
CronInv ==
  /\ spec \in Specs /\ from \in Instants
  /\ found = Searching =>
       /\ Parsed /\ t \in Nat /\ t >= Start(from)
       /\ \A m \in Start(from)..(t - 1) : m < limit => ~ Fires(m)
  /\ FirstFiring

\* Ranges of days that end in Week are set aside.
SearchInv == ~ SundayAsEnd(spec) => CronInv

\* The search starts after the given instant and stays within the calendar.
LEMMA SearchRange ==
  ASSUME from \in Instants
  PROVE  /\ from \in Nat /\ Start(from) \in Nat /\ limit \in Nat /\ Start(from) * Grain > from
         /\ \A m \in Nat : m < limit => InCalendar(m)
<1>1. from \in Nat /\ Grain \in Nat \ {0} /\ searchLimit \in Nat
  BY CronConstants, CronAssumption, Zenon
<1>2. from \div Grain \in Nat /\ from < (from \div Grain + 1) * Grain
  BY <1>1, DivFacts, Zenon
<1>3. Start(from) \in Nat /\ from < Start(from) * Grain /\ Start(from) * Grain \in Nat
  BY <1>1, <1>2 DEF Start
<1>4. limit \in Nat /\ limit <= FirstDay[Horizon] * Day
  BY <1>1, <1>3, HorizonAssumption DEF limit
<1>5. FirstDay[Horizon] * Day \in Nat
  BY FirstDayFacts, CronConstants
<1> QED BY <1>1, <1>3, <1>4, <1>5 DEF InCalendar

\* CronInv holds when a search starts.
LEMMA CronStart ==
  CronInit /\ ~ SundayAsEnd(spec) => CronInv
<1> SUFFICES ASSUME CronInit, ~ SundayAsEnd(spec) PROVE CronInv
  BY Zenon
<1>1. spec \in Specs /\ from \in Instants /\ sched = Parse(spec) /\ t = Start(from)
  BY Zenon DEF CronInit
<1>2. Start(from) \in Nat
  BY <1>1, SearchRange, Zenon
<1>3. found \in {Invalid, Searching} /\ (found = Searching => Parse(spec) # Invalid)
  BY SpecAssumption, Zenon DEF CronInit
<1>4. FirstFiring
  BY <1>3, SpecAssumption, Zenon DEF FirstFiring
<1>5. Start(from)..(t - 1) = {} /\ t \in Nat /\ t >= Start(from)
  BY <1>1, <1>2
<1> QED BY <1>1, <1>3, <1>4, <1>5, Zenon DEF CronInv, Parsed

\* What a specification fires at does not change.
LEMMA SameSpec ==
  ASSUME spec' = spec, from' = from, sched' = sched
  PROVE  /\ limit' = limit /\ Start(from)' = Start(from) /\ (Parsed => Parsed')
         /\ \A m : Fires(m)' <=> Fires(m)
<1>1. limit' = limit /\ Start(from)' = Start(from)
  BY Zenon DEF limit, Start
<1>2. Parsed => Parsed'
  BY Zenon DEF Parsed, SundayAsEnd
<1>3. \A m : Fires(m)' <=> Fires(m)
  BY Zenon DEF Fires
<1> QED BY <1>1, <1>2, <1>3, Zenon

\* A jump keeps CronInv.
LEMMA SkipKeeps ==
  ASSUME CronInv, Skip
  PROVE  CronInv'
<1>1. /\ spec' = spec /\ from' = from /\ sched' = sched /\ found' = found
      /\ found = Searching /\ t < limit /\ ~ Matches(t) /\ t' = Jump(t)
  BY Zenon DEF Skip
<1>2. /\ Parsed /\ t \in Nat /\ t >= Start(from) /\ from \in Instants
      /\ \A m \in Start(from)..(t - 1) : m < limit => ~ Fires(m)
  BY <1>1, Zenon DEF CronInv
<1>3. /\ Start(from) \in Nat /\ limit \in Nat
      /\ \A m \in Nat : m < limit => InCalendar(m)
  BY <1>2, SearchRange, Zenon
<1>4. /\ t' \in Nat /\ t < t'
      /\ \A n \in t..(t' - 1) : InCalendar(n) => ~ Matches(n)
  <2>1. PassesOver(t, Jump(t))
    BY <1>1, <1>2, <1>3, JumpFacts, Zenon
  <2> QED BY <1>1, <2>1, Zenon DEF PassesOver
<1>5. ASSUME NEW m \in Start(from)..(t' - 1), m < limit PROVE ~ Fires(m)
  <2>1. m \in Nat
    BY <1>3, <1>4
  <2>2. CASE m < t
    BY <1>2, <1>3, <1>5, <2>1, <2>2
  <2>3. CASE m >= t
    <3>1. InCalendar(m) /\ m \in t..(t' - 1)
      <4>1. InCalendar(m)
        BY <1>3, <1>5, <2>1, Zenon
      <4>2. PICK u \in Nat : u = t'
        BY <1>4, Zenon
      <4>3. m \in Start(from)..(u - 1)
        BY <1>5, <4>2, Zenon
      <4>4. m \in t..(u - 1)
        BY <1>2, <1>3, <2>1, <2>3, <4>3
      <4>5. m \in t..(t' - 1)
        BY <4>2, <4>4, Zenon
      <4> QED BY <4>1, <4>5, Zenon
    <3>2. ~ Matches(m)
      BY <1>4, <3>1, Zenon
    <3> QED BY <1>2, <3>1, <3>2, MatchesFires, Zenon
  <2> QED BY <1>2, <2>1, <2>2, <2>3
<1>6. /\ limit' = limit /\ Start(from)' = Start(from) /\ Parsed'
      /\ \A m : Fires(m)' <=> Fires(m)
  BY <1>1, <1>2, SameSpec, Zenon
<1>7. t' >= Start(from)
  BY <1>2, <1>3, <1>4
<1>8. FirstFiring'
  <2>1. found' = Searching
    BY <1>1, Zenon
  <2>2. Searching # Zero
    BY SpecAssumption, Zenon
  <2> QED BY <2>1, <2>2, Zenon DEF FirstFiring
<1>9. (\A m \in Start(from)..(t - 1) : m < limit => ~ Fires(m))'
  BY <1>5, <1>6, Zenon
<1> QED BY <1>1, <1>2, <1>4, <1>6, <1>7, <1>8, <1>9, ZenonT(30) DEF CronInv

\* Returning a minute that matches keeps CronInv.
LEMMA FireKeeps ==
  ASSUME CronInv, Fire
  PROVE  CronInv'
<1>1. /\ spec' = spec /\ from' = from /\ sched' = sched /\ t' = t
      /\ found = Searching /\ t < limit /\ Matches(t) /\ found' = t
  BY Zenon DEF Fire
<1>2. /\ Parsed /\ t \in Nat /\ t >= Start(from) /\ from \in Instants
      /\ \A m \in Start(from)..(t - 1) : m < limit => ~ Fires(m)
  BY <1>1, Zenon DEF CronInv
<1>3. /\ from \in Nat /\ Start(from) \in Nat /\ limit \in Nat /\ Start(from) * Grain > from
      /\ \A m \in Nat : m < limit => InCalendar(m)
  BY <1>2, SearchRange, Zenon
<1>4. Fires(t)
  <2>1. InCalendar(t)
    BY <1>1, <1>2, <1>3, Zenon
  <2> QED BY <1>1, <1>2, <2>1, MatchesFires, Zenon
<1>5. t * Grain > from
  <2>1. Grain \in Nat /\ Start(from) * Grain \in Nat /\ t * Grain \in Nat
    BY <1>2, <1>3, CronConstants
  <2>2. Start(from) * Grain <= t * Grain
    BY <1>2, <1>3, <2>1, Scale, Zenon
  <2> QED BY <1>3, <2>1, <2>2
<1>6. \A m \in Start(from)..(t - 1) : ~ Fires(m)
  <2>1. \A m \in Start(from)..(t - 1) : m < limit
    BY <1>1, <1>2, <1>3
  <2> QED BY <1>2, <2>1, Zenon
<1>7. found' # Zero /\ found' # Searching
  BY <1>1, <1>2, SpecAssumption, Zenon
<1>8. Start(from)' = Start(from) /\ (\A m : Fires(m)' <=> Fires(m))
  BY <1>1, SameSpec, Zenon
<1>9. FirstFiring'
  <2>1. Fires(found)'
    BY <1>1, <1>4, Zenon DEF Fires
  <2>2. (found * Grain > from)'
    BY <1>1, <1>5, Zenon
  <2>3. (\A m \in Start(from)..(found - 1) : ~ Fires(m))'
    BY <1>1, <1>6, <1>8, Zenon
  <2> QED BY <1>7, <2>1, <2>2, <2>3, Zenon DEF FirstFiring
<1> QED BY <1>1, <1>7, <1>9, Zenon DEF CronInv

\* Giving up at the limit keeps CronInv.
LEMMA GiveUpKeeps ==
  ASSUME CronInv, GiveUp
  PROVE  CronInv'
<1>1. /\ spec' = spec /\ from' = from /\ sched' = sched /\ t' = t
      /\ found = Searching /\ t >= limit /\ found' = Zero
  BY Zenon DEF GiveUp
<1>2. /\ t \in Nat /\ from \in Instants
      /\ \A m \in Start(from)..(t - 1) : m < limit => ~ Fires(m)
  BY <1>1, Zenon DEF CronInv
<1>3. Start(from) \in Nat /\ limit \in Nat
  BY <1>2, SearchRange, Zenon
<1>4. \A m \in Start(from)..(limit - 1) : ~ Fires(m)
  <2>1. \A m \in Start(from)..(limit - 1) : m \in Start(from)..(t - 1) /\ m < limit
    BY <1>1, <1>2, <1>3
  <2> QED BY <1>2, <2>1, Zenon
<1>5. limit' = limit /\ Start(from)' = Start(from) /\ (\A m : Fires(m)' <=> Fires(m))
  BY <1>1, SameSpec, Zenon
<1>6. (\A m \in Start(from)..(limit - 1) : ~ Fires(m))'
  BY <1>4, <1>5, Zenon
<1>7. FirstFiring'
  BY <1>1, <1>6, Zenon DEF FirstFiring
<1>8. found' # Searching
  BY <1>1, SpecAssumption, Zenon
<1> QED BY <1>1, <1>7, <1>8, Zenon DEF CronInv

\* Next returns the first minute after the time asked for in which the
\* specification fires, or the zero time if there is none within the limit,
\* for every specification (ranges of days that end in Week set aside), time,
\* calendar and search limit.
THEOREM NextIsFirst == CronSpec => []FirstFiring
<1>1. CronInv /\ [CronNext]_cronVars => CronInv'
  <2> SUFFICES ASSUME CronInv, [CronNext]_cronVars PROVE CronInv'
    BY Zenon
  <2>1. CASE UNCHANGED cronVars
    <3>1. spec' = spec /\ from' = from /\ sched' = sched /\ t' = t /\ found' = found
      BY <2>1, Zenon DEF cronVars
    <3>2. FirstFiring'
      BY <3>1, Zenon DEF CronInv, FirstFiring, Fires, limit, Start, SundayAsEnd
    <3>3. /\ Start(from)' = Start(from) /\ limit' = limit /\ (Parsed => Parsed')
          /\ \A m : Fires(m)' <=> Fires(m)
      BY <3>1, SameSpec, Zenon
    <3>4. found = Searching => (\A m \in Start(from)..(t - 1) : m < limit => ~ Fires(m))'
      BY <3>1, <3>3, Zenon DEF CronInv
    <3> QED BY <3>1, <3>2, <3>3, <3>4, Zenon DEF CronInv
  <2> QED BY <2>1, SkipKeeps, FireKeeps, GiveUpKeeps, Zenon DEF CronNext
<1>2. CronInit => SearchInv
  BY CronStart, Zenon DEF SearchInv
<1>3. SearchInv /\ [CronNext]_cronVars => SearchInv'
  <2>1. [CronNext]_cronVars => spec' = spec
    BY Zenon DEF CronNext, Skip, Fire, GiveUp, cronVars
  <2>2. [CronNext]_cronVars => (SundayAsEnd(spec)' <=> SundayAsEnd(spec))
    BY <2>1, Zenon DEF SundayAsEnd
  <2> QED BY <1>1, <2>2, Zenon DEF SearchInv
<1>4. SearchInv => FirstFiring
  BY Zenon DEF SearchInv, CronInv, FirstFiring
<1> QED BY <1>2, <1>3, <1>4, PTL DEF CronSpec

-----------------------------------------------------------------------------
(* The shares of the queues.                                               *)
INSTANCE FiniteSetTheorems

\* The library's theorem on intervals.
LEMMA IntervalsCounted == IntervalSize
<1> SUFFICES ASSUME NEW a \in Int, NEW b \in Int, a <= b
             PROVE  Cardinality(a..b) = b - a + 1
  BY Zenon DEF IntervalSize
<1>1. ~ (a > b)
  OBVIOUS
<1> QED BY <1>1, FS_Interval

\* In every draw each queue left gets the share of the random numbers that
\* its weight asks for, whatever was drawn before.
THEOREM SharesFair == SelectorSpec => []FairShare
<1>1. SelectorInv /\ [SelectorNext]_selectorVars => SelectorInv'
  BY SelectorStep, Zenon
<1>2. SelectorInv => FairShare
  BY IntervalsCounted, ShareFair, Zenon
<1> QED BY <1>1, <1>2, SelectorStart, PTL DEF SelectorSpec
=============================================================================
