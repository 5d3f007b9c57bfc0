------------------------- MODULE RedisScriptProofs --------------------------
(***************************************************************************)
(* Every script of the Redis broker preserves its invariant.  First, what  *)
(* appending, concatenating, popping from the head and listing a finite    *)
(* set do to the elements of a list, and what an arrival, a claim and a    *)
(* recovery or release do to the ready lists of all the queues.  Then the  *)
(* scripts: enqueue and claim; those fenced by a lease (acknowledge, retry,*)
(* kill, extend); the loss of an envelope, the clock, the reaper and the   *)
(* promoter.                                                               *)
(***************************************************************************)
EXTENDS RedisBroker, TLAPS

\* Appending (RPUSH of one element) adds that element.
LEMMA AppendFacts ==
  ASSUME NEW S, NEW s \in Seq(S), NEW e \in S
  PROVE  /\ Append(s, e) \in Seq(S)
         /\ Range(Append(s, e)) = Range(s) \cup {e}
         /\ IsInjective(s) /\ e \notin Range(s) => IsInjective(Append(s, e))
<1>1. /\ Append(s, e) \in Seq(S) /\ Len(s) \in Nat /\ DOMAIN s = 1..Len(s)
      /\ DOMAIN Append(s, e) = 1..(Len(s) + 1)
      /\ \A i \in 1..Len(s) : Append(s, e)[i] = s[i]
      /\ Append(s, e)[Len(s) + 1] = e
  OBVIOUS
<1>2. Range(Append(s, e)) = Range(s) \cup {e}
  BY <1>1 DEF Range
<1>3. IsInjective(s) /\ e \notin Range(s) => IsInjective(Append(s, e))
  BY <1>1 DEF Range, IsInjective
<1> QED BY <1>1, <1>2, <1>3, Zenon

\* Concatenation (LPUSH or RPUSH of several elements) adds their elements.
LEMMA ConcatFacts ==
  ASSUME NEW S, NEW s \in Seq(S), NEW t \in Seq(S)
  PROVE  /\ s \o t \in Seq(S)
         /\ Range(s \o t) = Range(s) \cup Range(t)
         /\ IsInjective(s) /\ IsInjective(t) /\ Range(s) \cap Range(t) = {}
              => IsInjective(s \o t)
<1>1. /\ s \o t \in Seq(S)
      /\ Len(s \o t) = Len(s) + Len(t)
      /\ \A i \in 1..(Len(s) + Len(t)) :
           (s \o t)[i] = IF i <= Len(s) THEN s[i] ELSE t[i - Len(s)]
  <2>1. s \o t \in Seq(S) /\ Len(s \o t) = Len(s) + Len(t)
    OBVIOUS
  <2>2. \A i \in 1..(Len(s) + Len(t)) :
          (s \o t)[i] = IF i <= Len(s) THEN s[i] ELSE t[i - Len(s)]
    OBVIOUS
  <2> QED BY <2>1, <2>2, Zenon
<1>2. Range(s \o t) = Range(s) \cup Range(t)
  <2>1. /\ Len(s) \in Nat /\ Len(t) \in Nat
        /\ DOMAIN s = 1..Len(s) /\ DOMAIN t = 1..Len(t)
        /\ DOMAIN (s \o t) = 1..(Len(s) + Len(t))
    BY <1>1
  <2>2. ASSUME NEW i \in DOMAIN (s \o t) PROVE (s \o t)[i] \in Range(s) \cup Range(t)
    BY <1>1, <2>1 DEF Range
  <2>3. ASSUME NEW i \in DOMAIN s PROVE s[i] \in Range(s \o t)
    BY <1>1, <2>1 DEF Range
  <2>4. ASSUME NEW i \in DOMAIN t PROVE t[i] \in Range(s \o t)
    <3>1. /\ Len(s) + i \in DOMAIN (s \o t) /\ ~ (Len(s) + i <= Len(s))
          /\ (Len(s) + i) - Len(s) = i
      BY <2>1
    <3>2. (s \o t)[Len(s) + i] = t[i]
      BY <1>1, <2>1, <3>1, Zenon
    <3> QED BY <3>1, <3>2, Zenon DEF Range
  <2> QED BY <2>2, <2>3, <2>4, Zenon DEF Range
<1>3. ASSUME IsInjective(s), IsInjective(t), Range(s) \cap Range(t) = {}
      PROVE  IsInjective(s \o t)
  <2>1. /\ Len(s) \in Nat /\ Len(t) \in Nat
        /\ DOMAIN s = 1..Len(s) /\ DOMAIN t = 1..Len(t)
        /\ DOMAIN (s \o t) = 1..(Len(s) + Len(t))
    BY <1>1
  <2>2. \A i \in 1..Len(s), k \in 1..Len(t) : s[i] # t[k]
    BY <1>3, <2>1, Zenon DEF Range
  <2>3. /\ \A i, k \in 1..Len(s) : s[i] = s[k] => i = k
        /\ \A i, k \in 1..Len(t) : t[i] = t[k] => i = k
    BY <1>3, <2>1, Zenon DEF IsInjective
  <2>4. ASSUME NEW i \in 1..(Len(s) + Len(t)), NEW k \in 1..(Len(s) + Len(t)),
               (s \o t)[i] = (s \o t)[k]
        PROVE  i = k
    <3>1. CASE i <= Len(s) /\ k <= Len(s)
      BY <1>1, <2>1, <2>3, <2>4, <3>1
    <3>2. CASE i > Len(s) /\ k > Len(s)
      <4>1. i - Len(s) \in 1..Len(t) /\ k - Len(s) \in 1..Len(t)
        BY <2>1, <3>2
      <4>2. t[i - Len(s)] = t[k - Len(s)]
        BY <1>1, <2>1, <2>4, <3>2
      <4> QED BY <2>1, <2>3, <4>1, <4>2
    <3>3. CASE i <= Len(s) /\ k > Len(s)
      BY <1>1, <2>1, <2>2, <2>4, <3>3
    <3>4. CASE i > Len(s) /\ k <= Len(s)
      BY <1>1, <2>1, <2>2, <2>4, <3>4
    <3> QED BY <2>1, <3>1, <3>2, <3>3, <3>4
  <2> QED BY <2>1, <2>4, Zenon DEF IsInjective
<1> QED BY <1>1, <1>2, <1>3, Zenon

Suffix(s, n) == SubSeq(s, n + 1, Len(s))

\* Popping n elements (LPOP) removes exactly the first n, and all others stay.
LEMMA SuffixFacts ==
  ASSUME NEW S, NEW s \in Seq(S), NEW n \in Nat
  PROVE  /\ Suffix(s, n) \in Seq(S)
         /\ Range(Suffix(s, n)) \subseteq Range(s)
         /\ \A x \in Range(s) \ Range(Suffix(s, n)) :
              \E i \in 1..Len(s) : i <= n /\ x = s[i]
         /\ IsInjective(s) => IsInjective(Suffix(s, n))
         /\ IsInjective(s) =>
              \A i \in 1..Len(s) : i <= n => s[i] \notin Range(Suffix(s, n))
<1> SUFFICES ASSUME NEW t, t = SubSeq(s, n + 1, Len(s))
      PROVE  /\ t \in Seq(S)
             /\ Range(t) \subseteq Range(s)
             /\ \A x \in Range(s) \ Range(t) : \E i \in 1..Len(s) : i <= n /\ x = s[i]
             /\ IsInjective(s) => IsInjective(t)
             /\ IsInjective(s) => \A i \in 1..Len(s) : i <= n => s[i] \notin Range(t)
  BY Zenon DEF Suffix
<1>1. Len(s) \in Nat /\ DOMAIN s = 1..Len(s) /\ \A i \in 1..Len(s) : s[i] \in S
  OBVIOUS
<1>2. /\ t \in Seq(S)
      /\ Len(t) = IF n + 1 <= Len(s) THEN Len(s) - n ELSE 0
      /\ \A i \in 1..(Len(s) - n) : t[i] = s[n + i]
  <2>1. \A i \in (n + 1)..Len(s) : s[i] \in S
    BY <1>1
  <2>2. /\ SubSeq(s, n + 1, Len(s)) \in Seq(S)
        /\ Len(SubSeq(s, n + 1, Len(s))) =
             IF n + 1 <= Len(s) THEN Len(s) - (n + 1) + 1 ELSE 0
        /\ \A i \in 1..(Len(s) - (n + 1) + 1) :
             SubSeq(s, n + 1, Len(s))[i] = s[(n + 1) + i - 1]
    BY <1>1, <2>1
  <2>3. /\ t \in Seq(S)
        /\ Len(t) = IF n + 1 <= Len(s) THEN Len(s) - (n + 1) + 1 ELSE 0
        /\ \A i \in 1..(Len(s) - (n + 1) + 1) : t[i] = s[(n + 1) + i - 1]
    BY <2>2, Zenon
  <2> QED BY <1>1, <2>3
<1>3. DOMAIN t = 1..Len(t)
  BY <1>2
<1>4. \A i \in 1..Len(t) : n + i \in 1..Len(s) /\ t[i] = s[n + i]
  BY <1>1, <1>2
<1>5. \A i \in 1..Len(s) : i > n => i - n \in 1..Len(t) /\ s[i] = t[i - n]
  <2>1. ASSUME NEW i \in 1..Len(s), i > n
        PROVE  i - n \in 1..(Len(s) - n) /\ n + (i - n) = i
    BY <1>1, <2>1, SMTT(30)
  <2> QED BY <1>1, <1>2, <2>1, SMTT(30)
<1>6. Range(t) \subseteq Range(s)
  <2> SUFFICES ASSUME NEW i \in DOMAIN t PROVE t[i] \in Range(s)
    BY Zenon DEF Range
  <2>1. n + i \in DOMAIN s /\ t[i] = s[n + i]
    BY <1>1, <1>3, <1>4, Zenon
  <2> QED BY <2>1, Zenon DEF Range
<1>7. \A x \in Range(s) \ Range(t) : \E i \in 1..Len(s) : i <= n /\ x = s[i]
  <2> SUFFICES ASSUME NEW i \in 1..Len(s), s[i] \notin Range(t) PROVE i <= n
    BY <1>1, Zenon DEF Range
  <2>1. CASE i > n
    <3>1. i - n \in DOMAIN t /\ s[i] = t[i - n]
      BY <1>3, <1>5, <2>1, Zenon
    <3> QED BY <3>1, Zenon DEF Range
  <2> QED BY <1>1, <2>1
<1>8. IsInjective(s) => IsInjective(t)
  <2> SUFFICES ASSUME IsInjective(s), NEW i \in 1..Len(t), NEW k \in 1..Len(t), t[i] = t[k]
               PROVE  i = k
    BY <1>3, Zenon DEF IsInjective
  <2>1. n + i \in DOMAIN s /\ n + k \in DOMAIN s /\ s[n + i] = s[n + k]
    BY <1>1, <1>4, Zenon
  <2>2. n + i = n + k
    BY <2>1, Zenon DEF IsInjective
  <2> QED BY <1>2, <2>2
<1>9. ASSUME IsInjective(s), NEW i \in 1..Len(s), i <= n
      PROVE  s[i] \notin Range(t)
  <2> SUFFICES ASSUME NEW k \in 1..Len(t), s[i] = t[k] PROVE FALSE
    BY <1>3, Zenon DEF Range
  <2>1. n + k \in DOMAIN s /\ s[i] = s[n + k] /\ i \in DOMAIN s
    BY <1>1, <1>4, Zenon
  <2>2. i = n + k
    BY <1>9, <2>1, Zenon DEF IsInjective
  <2> QED BY <1>9, <2>2
<1> QED BY <1>2, <1>6, <1>7, <1>8, <1>9, Zenon

\* A bijection from 1..|S| lists the finite set S without repetition.
LEMMA ListingFacts ==
  ASSUME NEW J, NEW S \in SUBSET J, Cardinality(S) \in Nat,
         NEW s \in Bijection(1..Cardinality(S), S)
  PROVE  s \in Seq(J) /\ Range(s) = S /\ IsInjective(s)
<1>2. s \in [1..Cardinality(S) -> S] /\ IsInjective(s)
  BY Zenon DEF Bijection, Injection
<1>3. Range(s) = S
  BY <1>2, Zenon DEF Range, Bijection, Surjection
<1>4. s \in [1..Cardinality(S) -> J]
  BY <1>2, Zenon
<1>5. s \in Seq(J)
  BY <1>4
<1> QED BY <1>2, <1>3, <1>5, Zenon

-----------------------------------------------------------------------------
\* How sets of jobs are counted, there being finitely many.
JobsCount ==
  /\ Cardinality({}) = 0
  /\ \A S \in SUBSET Job :
       /\ IsFiniteSet(S) /\ Cardinality(S) \in Nat
       /\ \A j \in Job \ S : Cardinality(S \cup {j}) = Cardinality(S) + 1
       /\ \A T \in SUBSET Job :
            S \cap T = {} => Cardinality(S \cup T) = Cardinality(S) + Cardinality(T)

\* A batch read from a sorted set consists of due members of it.
LEMMA BatchFacts ==
  ASSUME NEW z, NEW n, NEW batch \in DueBatches(z, n)
  PROVE  batch \subseteq Job /\ \A j \in batch : z[j] # NoScore /\ z[j] <= now
BY Zenon DEF DueBatches, Due

\* A new job goes to the end of the ready list of its queue.
LEMMA EnqueueReady ==
  ASSUME TypeOK, Fresh, NoStrays, NoRepeats,
         NEW j \in Job, NEW q \in Queue, state[j] = "none",
         ready' = [ready EXCEPT ![q] = Append(@, j)]
  PROVE  /\ ready' \in [Queue -> Seq(Job)]
         /\ Range(ready'[q]) = Range(ready[q]) \cup {j}
         /\ \A x \in Queue \ {q} : ready'[x] = ready[x]
         /\ NoRepeats'
<1>1. ready[q] \in Seq(Job) /\ ready'[q] = Append(ready[q], j)
  BY Zenon DEF TypeOK
<1>2. j \notin Range(ready[q])
  BY RedisAssumption, Zenon DEF Fresh, NoStrays
<1>3. /\ ready'[q] \in Seq(Job)
      /\ Range(ready'[q]) = Range(ready[q]) \cup {j}
      /\ IsInjective(ready'[q])
  BY <1>1, <1>2, AppendFacts DEF NoRepeats
<1>4. \A x \in Queue \ {q} : ready'[x] = ready[x]
  BY Zenon DEF TypeOK
<1>5. ready' \in [Queue -> Seq(Job)]
  BY <1>3, <1>4, Zenon DEF TypeOK
<1> QED BY <1>3, <1>4, <1>5, Zenon DEF NoRepeats

\* t is what is left of the list s without its first n IDs.
Drops(t, s, n) ==
  /\ t \in Seq(Job)
  /\ IsInjective(t)
  /\ Range(t) \subseteq Range(s)
  /\ \A x \in Range(s) \ Range(t) : \E i \in 1..Len(s) : i <= n /\ x = s[i]
  /\ \A i \in 1..Len(s) : i <= n => s[i] \notin Range(t)

\* Popping n IDs off a ready list.
LEMMA DropFacts ==
  ASSUME TypeOK, NoRepeats, NEW q \in Queue, NEW n \in Nat
  PROVE  Drops(DropFirst(q, n), ready[q], n)
<1>1. ready[q] \in Seq(Job) /\ IsInjective(ready[q])
  BY Zenon DEF TypeOK, NoRepeats
<1>2. DropFirst(q, n) = Suffix(ready[q], n)
  BY Zenon DEF DropFirst, Suffix
<1>3. Drops(Suffix(ready[q], n), ready[q], n)
  BY <1>1, SuffixFacts, Zenon DEF Drops
<1> QED BY <1>2, <1>3, Zenon

\* Of the stored jobs, the ready lists lose j, which was in the list of q.
LosesOnly(j, q) ==
  /\ j \in Job /\ j \in Range(ready[q])
  /\ ready' \in [Queue -> Seq(Job)] /\ NoRepeats'
  /\ j \notin Range(ready'[q])
  /\ \A x \in Queue : Range(ready'[x]) \subseteq Range(ready[x])
  /\ \A x \in Queue, k \in Job \ {j} :
       Exists(k) /\ k \in Range(ready[x]) => k \in Range(ready'[x])

\* A claim removes the claimed job and otherwise only purged IDs.
LEMMA ClaimReady ==
  ASSUME TypeOK, NoRepeats,
         NEW w, NEW vt, NEW q \in Queue, NEW passed, NEW skip \in 0..(SkipLimit - 1),
         Claim(w, q, passed, skip, vt)
  PROVE  LosesOnly(ready[q][skip + 1], q)
<1> SUFFICES ASSUME NEW j, j = ready[q][skip + 1] PROVE LosesOnly(j, q)
  BY Zenon
<1>1. /\ ready[q] \in Seq(Job) /\ Len(ready[q]) \in Nat
      /\ skip \in Nat /\ skip + 1 \in Nat /\ SkipLimit \in Nat
      /\ skip + 1 \in 1..Len(ready[q]) /\ DOMAIN ready[q] = 1..Len(ready[q])
  BY RedisAssumption DEF TypeOK, Claim
<1>2. j \in Job /\ j \in Range(ready[q])
  BY <1>1 DEF Range
<1>3. \A x \in Queue : ready'[x] = IF x = q THEN DropFirst(x, skip + 1)
                                   ELSE IF x \in passed THEN DropFirst(x, SkipLimit)
                                   ELSE ready[x]
  BY Zenon DEF Claim
<1>4. Drops(ready'[q], ready[q], skip + 1)
  BY <1>1, <1>3, DropFacts, Zenon
<1>5. \A x \in passed \cap Queue : x # q => Drops(ready'[x], ready[x], SkipLimit)
  BY <1>1, <1>3, DropFacts, Zenon
<1>6. \A x \in Queue \ passed : x # q => ready'[x] = ready[x]
  BY <1>3, Zenon
<1>7. ASSUME NEW x \in Queue
      PROVE  /\ ready'[x] \in Seq(Job) /\ IsInjective(ready'[x])
             /\ Range(ready'[x]) \subseteq Range(ready[x])
  BY <1>4, <1>5, <1>6, ZenonT(40) DEF TypeOK, NoRepeats, Drops
<1>8. ready' \in [Queue -> Seq(Job)]
  BY <1>7, Zenon DEF Claim
<1>9. j \notin Range(ready'[q])
  BY <1>1, <1>4 DEF Drops
<1>10. ASSUME NEW x \in Queue, NEW k \in Job \ {j}, Exists(k), k \in Range(ready[x]),
              k \notin Range(ready'[x])
       PROVE  FALSE
  <2>1. CASE x = q
    <3>1. PICK i \in 1..Len(ready[q]) : i <= skip + 1 /\ k = ready[q][i]
      BY <1>4, <1>10, <2>1, Zenon DEF Drops
    <3>2. i \in 1..skip
      BY <1>1, <1>10, <3>1
    <3> QED BY <1>10, <3>1, <3>2, Zenon DEF Claim
  <2>2. CASE x # q /\ x \in passed
    <3>1. PICK i \in 1..Len(ready[x]) : i <= SkipLimit /\ k = ready[x][i]
      BY <1>5, <1>10, <2>2, Zenon DEF Drops
    <3>2. Barren(x)
      BY <2>2, Zenon DEF Claim
    <3> QED BY <1>10, <3>1, <3>2, Zenon DEF Barren
  <2> QED BY <1>6, <1>10, <2>1, <2>2, Zenon
<1> QED BY <1>2, <1>7, <1>8, <1>9, <1>10, Zenon DEF NoRepeats, LosesOnly

\* A claim that finds nothing removes only purged IDs.
LEMMA NoneReady ==
  ASSUME TypeOK, NoRepeats, NEW order, DequeueNone(order)
  PROVE  /\ ready' \in [Queue -> Seq(Job)] /\ NoRepeats'
         /\ \A x \in Queue : Range(ready'[x]) \subseteq Range(ready[x])
         /\ \A x \in Queue, k \in Job :
              Exists(k) /\ k \in Range(ready[x]) => k \in Range(ready'[x])
<1>1. \A x \in Queue : ready'[x] = IF x \in Range(order) THEN DropFirst(x, SkipLimit)
                                   ELSE ready[x]
  BY Zenon DEF DequeueNone
<1>2. \A x \in Queue \cap Range(order) : Drops(ready'[x], ready[x], SkipLimit)
  BY <1>1, DropFacts, RedisAssumption, Zenon
<1>3. \A x \in Queue \ Range(order) : ready'[x] = ready[x]
  BY <1>1, Zenon
<1>4. ASSUME NEW x \in Queue
      PROVE  /\ ready'[x] \in Seq(Job) /\ IsInjective(ready'[x])
             /\ Range(ready'[x]) \subseteq Range(ready[x])
  BY <1>2, <1>3, Zenon DEF TypeOK, NoRepeats, Drops
<1>5. ready' \in [Queue -> Seq(Job)]
  BY <1>4, Zenon DEF DequeueNone
<1>6. ASSUME NEW x \in Queue, NEW k \in Job, Exists(k), k \in Range(ready[x]),
             k \notin Range(ready'[x])
      PROVE  FALSE
  <2>1. x \in Range(order)
    BY <1>3, <1>6, Zenon
  <2>2. PICK i \in 1..Len(ready[x]) : i <= SkipLimit /\ k = ready[x][i]
    BY <1>2, <1>6, <2>1, Zenon DEF Drops
  <2>3. Barren(x)
    BY <2>1, Zenon DEF DequeueNone
  <2> QED BY <1>6, <2>2, <2>3, Zenon DEF Barren
<1> QED BY <1>4, <1>5, <1>6, Zenon DEF NoRepeats

\* The members of a batch of expired leases that are still stored are active
\* jobs of that queue.
LEMMA OrphanFacts ==
  ASSUME TypeOK, Placement, NEW q \in Queue,
         NEW batch \in DueBatches(active[q], ReapLimit), NEW j \in batch, Exists(j)
  PROVE  /\ j \in Job /\ queue[j] = q /\ state[j] = "active"
         /\ active[q][j] <= now /\ j \notin Range(ready[q]) /\ j \notin dead
<1>1. j \in Job /\ active[q][j] # NoScore /\ active[q][j] <= now
  BY BatchFacts, Zenon
<1>2. queue[j] = q
  BY <1>1, Zenon DEF Placement, NoStrays
<1> QED BY <1>1, <1>2, Zenon DEF Placement, InPlace

\* The ready lists gain the jobs of S, each in the list of its queue.
Gains(S) ==
  /\ ready' \in [Queue -> Seq(Job)] /\ NoRepeats'
  /\ \A x \in Queue : Range(ready'[x]) = Range(ready[x]) \cup {j \in S : queue[j] = x}

\* A step that adds jobs to the lists of their own queues, and leases none,
\* leaves no job in the wrong queue.
LEMMA StraysKept ==
  ASSUME NoStrays, NEW S, Gains(S), queue' = queue,
         \A x \in Queue, k \in Job : active[x][k] = NoScore => active'[x][k] = NoScore
  PROVE  NoStrays'
<1> SUFFICES ASSUME NEW k \in Job, NEW x \in Queue, x # queue[k]
             PROVE  k \notin Range(ready'[x]) /\ active'[x][k] = NoScore
  BY Zenon DEF NoStrays
<1>1. k \notin Range(ready[x]) /\ active[x][k] = NoScore
  BY Zenon DEF NoStrays
<1>2. Range(ready'[x]) = Range(ready[x]) \cup {j \in S : queue[j] = x}
  BY Zenon DEF Gains
<1> QED BY <1>1, <1>2, Zenon

\* Recovery puts the jobs that have attempts left in front of the list.
LEMMA RecoverReady ==
  ASSUME JobsCount, TypeOK, Placement, NEW q \in Queue,
         NEW batch \in DueBatches(active[q], ReapLimit), Recover(q, batch)
  PROVE  Gains({j \in batch : Exists(j) /\ ~ Exhausted(j)})
<1> SUFFICES ASSUME NEW back, back = {j \in batch : Exists(j) /\ ~ Exhausted(j)}
             PROVE  Gains(back)
  BY Zenon
<1>1. back \in SUBSET Job /\ Cardinality(back) \in Nat /\ back \cap Range(ready[q]) = {}
  <2>1. back \in SUBSET Job /\ back \cap Range(ready[q]) = {}
    BY OrphanFacts, Zenon
  <2> QED BY <2>1, Zenon DEF JobsCount
<1>2. {j \in batch : Exists(j)} \ {j \in {k \in batch : Exists(k)} : Exhausted(j)} = back
  BY Zenon
<1>3. PICK s \in Descending(active[q], back) : ready' = [ready EXCEPT ![q] = s \o @]
  BY <1>2, Zenon DEF Recover
<1>4. s \in Seq(Job) /\ Range(s) = back /\ IsInjective(s)
  BY <1>1, <1>3, ListingFacts, Zenon DEF Descending
<1>5. ready[q] \in Seq(Job) /\ IsInjective(ready[q])
  BY Zenon DEF TypeOK, Placement, NoRepeats
<1>6. ready'[q] = s \o ready[q] /\ \A x \in Queue \ {q} : ready'[x] = ready[x]
  BY <1>3, Zenon DEF TypeOK
<1>7. /\ ready'[q] \in Seq(Job) /\ IsInjective(ready'[q])
      /\ Range(ready'[q]) = back \cup Range(ready[q])
  BY <1>1, <1>4, <1>5, <1>6, ConcatFacts
<1>8. ready' \in [Queue -> Seq(Job)]
  BY <1>3, <1>6, <1>7, Zenon DEF TypeOK
<1>9. NoRepeats'
  BY <1>6, <1>7, Zenon DEF Placement, NoRepeats
<1>10. \A j \in back : queue[j] = q
  BY OrphanFacts, Zenon
<1>11. \A x \in Queue : Range(ready'[x]) = Range(ready[x]) \cup {j \in back : queue[j] = x}
  BY <1>6, <1>7, <1>10, Zenon
<1> QED BY <1>8, <1>9, <1>11, Zenon DEF Gains

\* What Arrivals delivers to a queue is a list of the jobs released to it.
LEMMA ArrivalFacts ==
  ASSUME JobsCount, NEW z, NEW S \in SUBSET Job, NEW f \in Arrivals(z, S), NEW q \in Queue
  PROVE  f[q] \in Seq(Job) /\ IsInjective(f[q]) /\ Range(f[q]) = {j \in S : queue[j] = q}
<1>1. f[q] \in Bijection(1..Cardinality({j \in S : queue[j] = q}), {j \in S : queue[j] = q})
  BY Zenon DEF Arrivals, Ascending
<1>2. {j \in S : queue[j] = q} \in SUBSET Job /\ Cardinality({j \in S : queue[j] = q}) \in Nat
  BY Zenon DEF JobsCount
<1> QED BY <1>1, <1>2, ListingFacts, Zenon

\* Members of a due batch of the delayed or the retry set that are still
\* stored are scheduled, respectively retrying, jobs.
LEMMA ReleaseFacts ==
  ASSUME TypeOK, Placement, NEW n, NEW m,
         NEW first \in DueBatches(delayed, n), NEW second \in DueBatches(retry, m)
  PROVE  /\ first \subseteq Job /\ second \subseteq Job
         /\ \A j \in first : Exists(j) => state[j] = "scheduled"
         /\ \A j \in second : Exists(j) => state[j] = "retry"
         /\ \A j \in first \cup second : Exists(j) =>
              queue[j] \in Queue /\ \A q \in Queue : j \notin Range(ready[q])
<1>1. /\ first \subseteq Job /\ \A j \in first : delayed[j] # NoScore
      /\ second \subseteq Job /\ \A j \in second : retry[j] # NoScore
  BY BatchFacts, Zenon
<1>2. \A j \in first : Exists(j) => state[j] = "scheduled"
  BY <1>1, Zenon DEF Placement, InPlace
<1>3. \A j \in second : Exists(j) => state[j] = "retry"
  BY <1>1, Zenon DEF Placement, InPlace
<1>4. \A j \in first \cup second : Exists(j) =>
        queue[j] \in Queue /\ \A q \in Queue : j \notin Range(ready[q])
  BY <1>1, <1>2, <1>3, Zenon DEF Placement, InPlace, NoStrays
<1> QED BY <1>1, <1>2, <1>3, <1>4, Zenon

\* Promotion puts the released jobs at the end of the lists of their queues.
LEMMA ReleaseReady ==
  ASSUME JobsCount, TypeOK, Placement, NEW n, NEW m,
         NEW first \in DueBatches(delayed, n), NEW second \in DueBatches(retry, m),
         Release(first, second)
  PROVE  Gains({j \in first \cup second : Exists(j)})
<1> SUFFICES ASSUME NEW moved, moved = {j \in first \cup second : Exists(j)}
             PROVE  Gains(moved)
  BY Zenon
<1> DEFINE woken == {j \in first : Exists(j)}
           again == {j \in second : Exists(j)}
<1>1. /\ woken \in SUBSET Job /\ again \in SUBSET Job
      /\ woken \cap again = {} /\ moved = woken \cup again
      /\ \A j \in moved, q \in Queue : j \notin Range(ready[q])
  BY ReleaseFacts, ZenonT(40)
<1>2. PICK f \in Arrivals(delayed, woken), g \in Arrivals(retry, again) :
        ready' = [q \in Queue |-> (ready[q] \o f[q]) \o g[q]]
  BY Zenon DEF Release
<1> HIDE DEF woken, again
<1>3. ASSUME NEW q \in Queue
      PROVE  /\ ready'[q] \in Seq(Job) /\ IsInjective(ready'[q])
             /\ Range(ready'[q]) = Range(ready[q]) \cup {j \in moved : queue[j] = q}
  <2>1. ready[q] \in Seq(Job) /\ IsInjective(ready[q])
    BY Zenon DEF TypeOK, Placement, NoRepeats
  <2>2. f[q] \in Seq(Job) /\ IsInjective(f[q]) /\ Range(f[q]) = {j \in woken : queue[j] = q}
    BY <1>1, <1>2, ArrivalFacts
  <2>3. g[q] \in Seq(Job) /\ IsInjective(g[q]) /\ Range(g[q]) = {j \in again : queue[j] = q}
    BY <1>1, <1>2, ArrivalFacts
  <2>4. /\ ready[q] \o f[q] \in Seq(Job) /\ IsInjective(ready[q] \o f[q])
        /\ Range(ready[q] \o f[q]) = Range(ready[q]) \cup Range(f[q])
    <3>1. Range(ready[q]) \cap Range(f[q]) = {}
      BY <1>1, <2>2, Zenon
    <3> QED BY <2>1, <2>2, <3>1, ConcatFacts
  <2>5. /\ (ready[q] \o f[q]) \o g[q] \in Seq(Job)
        /\ IsInjective((ready[q] \o f[q]) \o g[q])
        /\ Range((ready[q] \o f[q]) \o g[q]) = Range(ready[q] \o f[q]) \cup Range(g[q])
    <3>1. Range(ready[q] \o f[q]) \cap Range(g[q]) = {}
      BY <1>1, <2>2, <2>3, <2>4, Zenon
    <3> DEFINE h == ready[q] \o f[q]
    <3>2. h \in Seq(Job) /\ IsInjective(h) /\ Range(h) \cap Range(g[q]) = {}
      BY <2>4, <3>1, Zenon
    <3> HIDE DEF h
    <3>3. h \o g[q] \in Seq(Job) /\ IsInjective(h \o g[q])
          /\ Range(h \o g[q]) = Range(h) \cup Range(g[q])
      BY <2>3, <3>2, ConcatFacts
    <3> QED BY <3>3, Zenon DEF h
  <2>6. ready'[q] = (ready[q] \o f[q]) \o g[q]
    BY <1>2, Zenon
  <2>7. Range(ready'[q]) = Range(ready[q]) \cup {j \in moved : queue[j] = q}
    BY <1>1, <2>2, <2>3, <2>4, <2>5, <2>6, Zenon
  <2> QED BY <2>5, <2>6, <2>7, Zenon
<1>4. ready' \in [Queue -> Seq(Job)]
  BY <1>2, <1>3, Zenon
<1> QED BY <1>3, <1>4, Zenon DEF NoRepeats, Gains

-----------------------------------------------------------------------------
(* Preservation of IInv, one lemma per action.                             *)

-----------------------------------------------------------------------------
(* Enqueue and the claim preserve the invariant.                           *)

\* An accepted job is stored with its ID in one place; a refused one changes
\* nothing.
LEMMA EnqueueInv ==
  ASSUME IInv, NEW j \in Job, NEW q \in Queue, NEW max \in Budgets,
         NEW runAt \in 0..MaxTime, NEW key \in Key, NEW ttl \in Nat,
         Enqueue(j, q, max, runAt, key, ttl)
  PROVE  IInv'
<1>0. /\ TypeOK /\ Fresh /\ Placement /\ LeaseClock /\ AttemptBudget
      /\ FailedCountsDead /\ KeyWindows /\ UniqueWindow
  BY Zenon DEF IInv
<1>1. state[j] = "none" /\ now \in Nat /\ runAt \in Nat /\ ttl \in Nat /\ max \in Nat \ {0}
  BY <1>0, RedisAssumption DEF Enqueue, TypeOK
<1>2. /\ queue' = [queue EXCEPT ![j] = q]
      /\ maxAttempts' = [maxAttempts EXCEPT ![j] = max]
      /\ queues' = queues \cup {q}
      /\ UNCHANGED <<owner, attempt, recoveries, deadline, active, retry, dead,
                     processed, failed, now>>
  BY <1>0, Zenon DEF Enqueue
<1>3. /\ queue[j] = NoQueue /\ attempt[j] = 0 /\ owner[j] = NoOwner
      /\ delayed[j] = NoScore /\ retry[j] = NoScore /\ j \notin dead
      /\ window[j].key = NoKey
      /\ \A x \in Queue : j \notin Range(ready[x]) /\ active[x][j] = NoScore
  BY <1>0, <1>1, RedisAssumption, Zenon DEF Fresh, Placement, NoStrays
<1>4. \/ /\ state' = [state EXCEPT ![j] = "scheduled"]
         /\ delayed' = [delayed EXCEPT ![j] = runAt]
         /\ ready' = ready
      \/ /\ state' = [state EXCEPT ![j] = "pending"]
         /\ ready' = [ready EXCEPT ![q] = Append(@, j)]
         /\ delayed' = delayed
  BY Zenon DEF Enqueue
<1>5. \A k \in Job :
        /\ state'[k] = IF k = j THEN state'[j] ELSE state[k]
        /\ \/ state'[j] = "scheduled" /\ delayed'[j] = runAt
           \/ state'[j] = "pending" /\ delayed'[j] = delayed[j]
        /\ delayed'[k] = IF k = j THEN delayed'[j] ELSE delayed[k]
        /\ queue'[k] = IF k = j THEN q ELSE queue[k]
        /\ maxAttempts'[k] = IF k = j THEN max ELSE maxAttempts[k]
  <2>1. /\ state \in [Job -> {"none", "scheduled", "retry", "pending", "active",
                             "completed", "dead", "gone"}]
        /\ delayed \in [Job -> Nat \cup {NoScore}]
        /\ queue \in [Job -> Queue \cup {NoQueue}] /\ maxAttempts \in [Job -> Nat]
    BY <1>0, Zenon DEF TypeOK, ZSet
  <2>2. \A k \in Job : /\ queue'[k] = IF k = j THEN q ELSE queue[k]
                       /\ maxAttempts'[k] = IF k = j THEN max ELSE maxAttempts[k]
    BY <1>2, <2>1, Zenon
  <2>3. CASE state' = [state EXCEPT ![j] = "scheduled"] /\ delayed' = [delayed EXCEPT ![j] = runAt]
    BY <2>1, <2>2, <2>3, Zenon
  <2>4. CASE state' = [state EXCEPT ![j] = "pending"] /\ delayed' = delayed
    BY <2>1, <2>2, <2>4, Zenon
  <2> QED BY <1>4, <2>3, <2>4, Zenon
<1>6. /\ ready' \in [Queue -> Seq(Job)] /\ NoRepeats'
      /\ \A x \in Queue, k \in Job : k \in Range(ready'[x]) <=>
           k \in Range(ready[x]) \/ (k = j /\ x = q /\ state'[j] = "pending")
  <2>1. CASE ready' = ready /\ state'[j] = "scheduled"
    BY <1>0, <2>1, Zenon DEF TypeOK, Placement, NoRepeats
  <2>2. CASE ready' = [ready EXCEPT ![q] = Append(@, j)] /\ state'[j] = "pending"
    <3>1. NoStrays /\ NoRepeats
      BY <1>0, Zenon DEF Placement
    <3>2. /\ ready' \in [Queue -> Seq(Job)] /\ NoRepeats'
          /\ Range(ready'[q]) = Range(ready[q]) \cup {j}
          /\ \A x \in Queue \ {q} : ready'[x] = ready[x]
      BY <1>0, <1>1, <2>2, <3>1, EnqueueReady, Zenon
    <3> QED BY <2>2, <3>2, Zenon
  <2> QED BY <1>0, <1>4, <2>1, <2>2, Zenon DEF TypeOK
<1>7. /\ unique' \in [Key -> Nat]
      /\ window' \in [Job -> [key : Key \cup {NoKey}, from : Nat, until : Nat]]
  <2> DEFINE R == [key : Key \cup {NoKey}, from : Nat, until : Nat]
             r == [key |-> key, from |-> now, until |-> now + ttl]
  <2>1. unique \in [Key -> Nat] /\ window \in [Job -> R] /\ now + ttl \in Nat /\ r \in R
    BY <1>0, <1>1 DEF TypeOK
  <2>2. \/ unique' = unique /\ window' = window
        \/ /\ unique' = [unique EXCEPT ![key] = now + ttl]
           /\ window' = [window EXCEPT ![j] = r]
    BY Zenon DEF Enqueue
  <2> HIDE DEF R, r
  <2>3. unique' \in [Key -> Nat] /\ window' \in [Job -> R]
    BY <2>1, <2>2, Zenon
  <2> QED BY <2>3, Zenon DEF R
<1>8. TypeOK'
  <2>1. state' \in [Job -> {"none", "scheduled", "retry", "pending", "active",
                            "completed", "dead", "gone"}]
    BY <1>0, <1>4, Zenon DEF TypeOK
  <2>2. delayed' \in ZSet
    BY <1>0, <1>1, <1>4, Zenon DEF TypeOK, ZSet
  <2>3. queue' \in [Job -> Queue \cup {NoQueue}] /\ maxAttempts' \in [Job -> Nat]
    BY <1>0, <1>1, <1>2, Zenon DEF TypeOK
  <2> QED BY <1>0, <1>2, <1>6, <1>7, <2>1, <2>2, <2>3, Zenon DEF TypeOK, ZSet
<1>9. Placement'
  <2>1. ASSUME NEW k \in Job, Exists(k)' PROVE InPlace(k)'
    <3>1. CASE k = j
      BY <1>1, <1>2, <1>3, <1>5, <1>6, <3>1, SMTT(30) DEF InPlace, NoScore
    <3>2. CASE k # j
      <4>1. Exists(k) /\ InPlace(k)
        BY <1>0, <1>5, <2>1, <3>2, Zenon DEF Exists, Placement
      <4> QED BY <1>2, <1>5, <1>6, <3>2, <4>1, ZenonT(40) DEF InPlace
    <3> QED BY <3>1, <3>2, Zenon
  <2>2. NoStrays'
    BY <1>0, <1>2, <1>3, <1>5, <1>6, SMTT(30) DEF NoStrays, Placement
  <2> QED BY <1>6, <2>1, <2>2, Zenon DEF Placement
<1>10. Fresh'
  <2>1. \A k \in Job \ {j} : window'[k] = window[k]
    BY <1>0, Zenon DEF Enqueue, TypeOK
  <2> QED BY <1>0, <1>2, <1>5, <2>1, ZenonT(40) DEF Fresh
<1>11. LeaseClock'
  BY <1>0, <1>2, <1>5, SMTT(30) DEF LeaseClock
<1>12. AttemptBudget'
  BY <1>0, <1>1, <1>2, <1>3, <1>5 DEF AttemptBudget, Contract!AttemptBudget
<1>13. FailedCountsDead'
  BY <1>0, <1>2, Zenon DEF FailedCountsDead
<1>14. KeyWindows' /\ UniqueWindow'
  <2>1. CASE ttl = 0
    BY <1>0, <1>2, <2>1 DEF Enqueue, KeyWindows, UniqueWindow
  <2>2. CASE ttl > 0
    <3>1. /\ unique[key] <= now /\ unique[key] \in Nat
          /\ unique' = [unique EXCEPT ![key] = now + ttl]
          /\ window' = [window EXCEPT ![j] = [key |-> key, from |-> now, until |-> now + ttl]]
      BY <1>0, <2>2 DEF Enqueue, TypeOK
    <3>2. /\ window'[j] = [key |-> key, from |-> now, until |-> now + ttl]
          /\ \A k \in Job \ {j} : window'[k] = window[k]
          /\ unique'[key] = now + ttl /\ \A x \in Key \ {key} : unique'[x] = unique[x]
      BY <1>0, <3>1, Zenon DEF TypeOK
    <3>3. \A k \in Job : /\ window[k].key \in Key \cup {NoKey}
                         /\ window[k].from \in Nat /\ window[k].until \in Nat
      BY <1>0, Zenon DEF TypeOK
    <3>4. KeyWindows'
      BY <1>0, <1>1, <1>2, <2>2, <3>1, <3>2, <3>3, SMTT(30) DEF KeyWindows
    <3>5. \A k \in Job \ {j} : window[k].key = key => window[k].until <= now
      BY <1>0, <1>1, <3>1, <3>3, RedisAssumption, SMTT(30) DEF KeyWindows
    <3>6. UniqueWindow'
      BY <1>0, <3>2, <3>5 DEF UniqueWindow
    <3> QED BY <1>0, <3>4, <3>6, Zenon
  <2> QED BY <1>0, <1>1, <2>1, <2>2, SMTT(30)
<1> QED BY <1>8, <1>9, <1>10, <1>11, <1>12, <1>13, <1>14, Zenon DEF IInv

\* Claiming a job: it leaves its ready list and gets a lease.
LEMMA ClaimInv ==
  ASSUME IInv, NEW w \in Worker, NEW q \in Queue, NEW passed,
         NEW skip \in 0..(SkipLimit - 1), NEW vt \in VisibilityTimeouts,
         Claim(w, q, passed, skip, vt)
  PROVE  IInv'
<1>0. /\ TypeOK /\ Fresh /\ Placement /\ LeaseClock /\ AttemptBudget
      /\ FailedCountsDead /\ KeyWindows /\ UniqueWindow
  BY Zenon DEF IInv
<1> SUFFICES ASSUME NEW j, j = ready[q][skip + 1] PROVE IInv'
  BY Zenon
<1>1. /\ j \in Job /\ j \in Range(ready[q])
      /\ ready' \in [Queue -> Seq(Job)] /\ NoRepeats'
      /\ j \notin Range(ready'[q])
      /\ \A x \in Queue : Range(ready'[x]) \subseteq Range(ready[x])
      /\ \A x \in Queue, k \in Job \ {j} :
           Exists(k) /\ k \in Range(ready[x]) => k \in Range(ready'[x])
  <2>1. NoRepeats
    BY <1>0, Zenon DEF Placement
  <2>2. LosesOnly(ready[q][skip + 1], q)
    BY <1>0, <2>1, ClaimReady, Zenon
  <2>3. LosesOnly(j, q)
    BY <2>2, Zenon
  <2> QED BY <2>3, Zenon DEF LosesOnly
<1>2. Exists(j) /\ queue[j] = q /\ state[j] = "pending" /\ now + vt \in Nat
  <2>1. Exists(j)
    BY Zenon DEF Claim
  <2>2. queue[j] = q
    BY <1>0, <1>1, Zenon DEF Placement, NoStrays
  <2>3. now + vt \in Nat
    BY <1>0, RedisAssumption DEF TypeOK
  <2> QED BY <1>0, <1>1, <2>1, <2>2, <2>3, Zenon DEF Placement, InPlace
<1>3. /\ state' = [state EXCEPT ![j] = "active"]
      /\ owner' = [owner EXCEPT ![j] = w]
      /\ attempt' = [attempt EXCEPT ![j] = @ + 1]
      /\ deadline' = [deadline EXCEPT ![j] = now + vt]
      /\ active' = [active EXCEPT ![q][j] = now + vt]
      /\ UNCHANGED <<maxAttempts, queue, recoveries, delayed, retry, dead,
                     queues, unique, window, processed, failed, now>>
  BY Zenon DEF Claim
<1>4. /\ state \in [Job -> {"none", "scheduled", "retry", "pending", "active",
                            "completed", "dead", "gone"}]
      /\ owner \in [Job -> Worker \cup {NoOwner}]
      /\ attempt \in [Job -> Nat] /\ deadline \in [Job -> Nat]
      /\ active \in [Queue -> [Job -> Nat \cup {NoScore}]]
  BY <1>0, Zenon DEF TypeOK, ZSet
<1>5. \A k \in Job : /\ state'[k] = IF k = j THEN "active" ELSE state[k]
                     /\ owner'[k] = IF k = j THEN w ELSE owner[k]
                     /\ attempt'[k] = IF k = j THEN attempt[j] + 1 ELSE attempt[k]
                     /\ deadline'[k] = IF k = j THEN now + vt ELSE deadline[k]
  BY <1>1, <1>3, <1>4, Zenon
<1>6. \A x \in Queue, k \in Job :
        active'[x][k] = IF x = q /\ k = j THEN now + vt ELSE active[x][k]
  BY <1>1, <1>3, <1>4, Zenon
<1>7. TypeOK'
  <2>1. state' \in [Job -> {"none", "scheduled", "retry", "pending", "active",
                            "completed", "dead", "gone"}]
    BY <1>3, <1>4, Zenon
  <2>2. owner' \in [Job -> Worker \cup {NoOwner}]
    BY <1>3, <1>4, ZenonT(30)
  <2>3. attempt' \in [Job -> Nat] /\ deadline' \in [Job -> Nat]
    BY <1>1, <1>2, <1>3, <1>4
  <2>4. active' \in [Queue -> [Job -> Nat \cup {NoScore}]]
    BY <1>1, <1>2, <1>3, <1>4, Zenon
  <2> QED BY <1>0, <1>1, <1>3, <2>1, <2>2, <2>3, <2>4, Zenon DEF TypeOK, ZSet
<1>8. Placement'
  <2>1. ASSUME NEW k \in Job, Exists(k)' PROVE InPlace(k)'
    <3>1. CASE k = j
      <4>1. InPlace(j)
        BY <1>0, <1>1, <1>2, Zenon DEF Placement
      <4>2. /\ q \in Queue /\ delayed[j] = NoScore /\ retry[j] = NoScore /\ j \notin dead
        BY <1>2, <4>1, Zenon DEF InPlace
      <4>3. state'[j] = "active" /\ active'[q][j] = now + vt
        BY <1>1, <1>5, <1>6, <4>2, ZenonT(30)
      <4>4. queue' = queue /\ delayed' = delayed /\ retry' = retry /\ dead' = dead
        BY <1>3, Zenon
      <4>5. now + vt # NoScore
        BY <1>2 DEF NoScore
      <4> QED BY <1>1, <1>2, <3>1, <4>2, <4>3, <4>4, <4>5, Zenon DEF InPlace
    <3>2. CASE k # j
      <4>1. Exists(k) /\ InPlace(k)
        BY <1>0, <1>5, <2>1, <3>2, Zenon DEF Exists, Placement
      <4>2. k \in Range(ready'[queue[k]]) <=> k \in Range(ready[queue[k]])
        BY <1>1, <3>2, <4>1, ZenonT(30) DEF InPlace
      <4> QED BY <1>3, <1>5, <1>6, <3>2, <4>1, <4>2 DEF InPlace
    <3> QED BY <3>1, <3>2, Zenon
  <2>2. NoStrays'
    BY <1>0, <1>1, <1>2, <1>3, <1>6, SMTT(30) DEF NoStrays, Placement
  <2> QED BY <1>1, <2>1, <2>2, Zenon DEF Placement
<1>9. Fresh'
  BY <1>0, <1>3, <1>5 DEF Fresh
<1>10. LeaseClock'
  <2> SUFFICES ASSUME NEW k \in Job, state'[k] = "active"
               PROVE  active'[queue'[k]][k] = deadline'[k]
    BY ZenonT(30) DEF LeaseClock
  <2>1. CASE k = j
    BY <1>2, <1>3, <1>5, <1>6, <2>1, SMTT(30)
  <2>2. CASE k # j
    <3>1. state[k] = "active" /\ queue[k] \in Queue
      BY <1>0, <1>5, <2>2, ZenonT(30) DEF Placement, Exists, InPlace
    <3> QED BY <1>0, <1>3, <1>5, <1>6, <2>2, <3>1, SMTT(30) DEF LeaseClock
  <2> QED BY <2>1, <2>2, Zenon
<1>11. AttemptBudget'
  <2>1. attempt[j] < maxAttempts[j] /\ attempt[j] \in Nat /\ maxAttempts[j] \in Nat
    BY <1>0, <1>1, <1>2, Zenon DEF AttemptBudget, Contract!AttemptBudget, TypeOK
  <2>2. w # NoOwner
    BY RedisAssumption, Zenon
  <2> QED BY <1>0, <1>3, <1>5, <2>1, <2>2, SMTT(30) DEF AttemptBudget, Contract!AttemptBudget
<1>12. FailedCountsDead' /\ KeyWindows' /\ UniqueWindow'
  BY <1>0, <1>3, Zenon DEF FailedCountsDead, KeyWindows, UniqueWindow
<1> QED BY <1>7, <1>8, <1>9, <1>10, <1>11, <1>12, Zenon DEF IInv

\* Popping the IDs of purged jobs keeps the invariant.
LEMMA DequeueNoneInv ==
  ASSUME IInv, NEW order, DequeueNone(order)
  PROVE  IInv'
<1>0. /\ TypeOK /\ Fresh /\ Placement /\ LeaseClock /\ AttemptBudget
      /\ FailedCountsDead /\ KeyWindows /\ UniqueWindow
  BY Zenon DEF IInv
<1>1. /\ ready' \in [Queue -> Seq(Job)] /\ NoRepeats'
      /\ \A x \in Queue : Range(ready'[x]) \subseteq Range(ready[x])
      /\ \A x \in Queue, k \in Job :
           Exists(k) /\ k \in Range(ready[x]) => k \in Range(ready'[x])
  <2>1. NoRepeats
    BY <1>0, Zenon DEF Placement
  <2> QED BY <1>0, <2>1, NoneReady, Zenon
<1>2. UNCHANGED <<state, owner, attempt, maxAttempts, queue, recoveries, deadline, active,
                  delayed, retry, dead, queues, unique, window, processed, failed, now>>
  BY Zenon DEF DequeueNone, hash
<1>3. TypeOK'
  BY <1>0, <1>1, <1>2, Zenon DEF TypeOK, ZSet
<1>4. Placement'
  <2>1. ASSUME NEW k \in Job, Exists(k)' PROVE InPlace(k)'
    <3>1. Exists(k) /\ InPlace(k)
      BY <1>0, <1>2, <2>1, Zenon DEF Exists, Placement
    <3> QED BY <1>1, <1>2, <3>1, Zenon DEF InPlace
  <2>2. NoStrays'
    BY <1>0, <1>1, <1>2, Zenon DEF NoStrays, Placement
  <2> QED BY <1>1, <2>1, <2>2, Zenon DEF Placement
<1>5. Fresh' /\ LeaseClock' /\ AttemptBudget' /\ FailedCountsDead'
  BY <1>0, <1>2, Zenon DEF Fresh, LeaseClock, AttemptBudget, Contract!AttemptBudget, FailedCountsDead
<1>6. KeyWindows' /\ UniqueWindow'
  BY <1>0, <1>2, Zenon DEF KeyWindows, UniqueWindow
<1> QED BY <1>3, <1>4, <1>5, <1>6, Zenon DEF IInv

-----------------------------------------------------------------------------
(* The scripts fenced by a lease, and those of the maintenance loops.      *)

\* Whatever a fenced script turns a leased job into, the invariant survives if
\* the retry and dead-letter sets follow the new state.
LEMMA EndLeaseInv ==
  ASSUME JobsCount, IInv, NEW w \in Worker, NEW j \in Job,
         NEW to \in {"completed", "gone", "retry", "dead"}, EndLease(w, j, to),
         retry' \in ZSet, \A k \in Job \ {j} : retry'[k] = retry[k],
         to = "retry" => retry'[j] # NoScore /\ ~ Exhausted(j),
         to # "retry" => retry'[j] = retry[j],
         dead' = IF to = "dead" THEN dead \cup {j} ELSE dead,
         failed' = IF to = "dead" THEN failed + 1 ELSE failed,
         processed' \in Nat
  PROVE  IInv'
<1>0. /\ TypeOK /\ Fresh /\ Placement /\ LeaseClock /\ AttemptBudget
      /\ FailedCountsDead /\ KeyWindows /\ UniqueWindow
  BY Zenon DEF IInv
<1>1. /\ state[j] = "active" /\ owner[j] = w
      /\ active' = [active EXCEPT ![queue[j]][j] = NoScore]
      /\ state' = [state EXCEPT ![j] = to]
      /\ owner' = [owner EXCEPT ![j] = NoOwner]
      /\ UNCHANGED <<attempt, maxAttempts, queue, recoveries, deadline, ready,
                     delayed, queues, unique, window, now>>
  BY Zenon DEF EndLease, Holds
<1>2. /\ queue[j] \in Queue /\ j \notin Range(ready[queue[j]]) /\ j \notin dead
      /\ delayed[j] = NoScore /\ retry[j] = NoScore
  BY <1>0, <1>1, Zenon DEF Placement, Exists, InPlace
<1>3. /\ state \in [Job -> {"none", "scheduled", "retry", "pending", "active",
                            "completed", "dead", "gone"}]
      /\ owner \in [Job -> Worker \cup {NoOwner}]
      /\ active \in [Queue -> [Job -> Nat \cup {NoScore}]]
  BY <1>0, Zenon DEF TypeOK, ZSet
<1>4. /\ \A k \in Job : /\ state'[k] = IF k = j THEN to ELSE state[k]
                        /\ owner'[k] = IF k = j THEN NoOwner ELSE owner[k]
      /\ \A x \in Queue, k \in Job :
           active'[x][k] = IF x = queue[j] /\ k = j THEN NoScore ELSE active[x][k]
  BY <1>1, <1>2, <1>3, Zenon
<1>5. TypeOK'
  <2>1. state' \in [Job -> {"none", "scheduled", "retry", "pending", "active",
                            "completed", "dead", "gone"}]
    BY <1>1, <1>3, Zenon
  <2>2. owner' \in [Job -> Worker \cup {NoOwner}]
    BY <1>1, <1>3, Zenon
  <2>3. active' \in [Queue -> [Job -> Nat \cup {NoScore}]]
    BY <1>1, <1>2, <1>3, Zenon
  <2>4. dead' \subseteq Job /\ failed' \in Nat
    BY <1>0 DEF TypeOK
  <2> QED BY <1>0, <1>1, <2>1, <2>2, <2>3, <2>4, Zenon DEF TypeOK, ZSet
<1>6. Placement'
  <2>1. ASSUME NEW k \in Job, Exists(k)' PROVE InPlace(k)'
    <3>1. CASE k = j
      BY <1>1, <1>2, <1>4, <2>1, <3>1 DEF InPlace, Exists
    <3>2. CASE k # j
      <4>1. Exists(k) /\ InPlace(k)
        BY <1>0, <1>4, <2>1, <3>2, Zenon DEF Exists, Placement
      <4>2. retry'[k] = retry[k] /\ (k \in dead' <=> k \in dead)
        BY <3>2, Zenon
      <4> QED BY <1>1, <1>4, <3>2, <4>1, <4>2 DEF InPlace
    <3> QED BY <3>1, <3>2, Zenon
  <2>2. NoStrays' /\ NoRepeats'
    BY <1>0, <1>1, <1>4 DEF NoStrays, NoRepeats, Placement
  <2> QED BY <2>1, <2>2, Zenon DEF Placement
<1>7. Fresh'
  <2>1. \A k \in Job : state'[k] = "none" => k # j /\ state[k] = "none"
    BY <1>4, Zenon
  <2> QED BY <1>0, <1>1, <1>4, <2>1, ZenonT(30) DEF Fresh
<1>8. LeaseClock'
  <2> SUFFICES ASSUME NEW k \in Job, state'[k] = "active"
               PROVE  active'[queue'[k]][k] = deadline'[k]
    BY Zenon DEF LeaseClock
  <2>1. k # j /\ state[k] = "active" /\ queue[k] \in Queue
    BY <1>0, <1>4, Zenon DEF Placement, Exists, InPlace
  <2> QED BY <1>0, <1>1, <1>4, <2>1 DEF LeaseClock
<1>9. AttemptBudget'
  <2>1. attempt[j] \in 1..maxAttempts[j] /\ attempt[j] \in Nat /\ maxAttempts[j] \in Nat
    BY <1>0, <1>1, Zenon DEF AttemptBudget, Contract!AttemptBudget, TypeOK
  <2>2. to = "retry" => attempt[j] < maxAttempts[j]
    BY <2>1 DEF Exhausted
  <2> QED BY <1>0, <1>1, <1>4, <2>1, <2>2 DEF AttemptBudget, Contract!AttemptBudget
<1>10. FailedCountsDead'
  <2>1. dead \in SUBSET Job
    BY <1>0, Zenon DEF TypeOK
  <2> QED BY <1>0, <1>2, <2>1, Zenon DEF FailedCountsDead, JobsCount
<1>11. KeyWindows' /\ UniqueWindow'
  BY <1>0, <1>1, Zenon DEF KeyWindows, UniqueWindow
<1> QED BY <1>5, <1>6, <1>7, <1>8, <1>9, <1>10, <1>11, Zenon DEF IInv

\* A completed job keeps no lease.
LEMMA AckInv ==
  ASSUME JobsCount, IInv, NEW w \in Worker, NEW j \in Job, Ack(w, j)
  PROVE  IInv'
<1>1. TypeOK
  BY Zenon DEF IInv
<1> DEFINE to == IF CompletedTTL > 0 THEN "completed" ELSE "gone"
<1>2. to \in {"completed", "gone"} /\ EndLease(w, j, to)
  BY Zenon DEF Ack
<1>3. retry' = retry /\ dead' = dead /\ failed' = failed /\ processed' = processed + 1
  BY Zenon DEF Ack
<1> HIDE DEF to
<1>4. retry' \in ZSet /\ processed' \in Nat
  BY <1>1, <1>3 DEF TypeOK
<1> QED BY <1>2, <1>3, <1>4, EndLeaseInv, Zenon

\* A job dead-lettered by its holder is counted once.
LEMMA DeadLetterInv ==
  ASSUME JobsCount, IInv, NEW w \in Worker, NEW j \in Job, DeadLetter(w, j)
  PROVE  IInv'
<1>1. /\ EndLease(w, j, "dead") /\ dead' = dead \cup {j} /\ failed' = failed + 1
      /\ retry' = retry /\ processed' = processed
  BY Zenon DEF DeadLetter
<1>2. retry' \in ZSet /\ processed' \in Nat
  BY <1>1, Zenon DEF IInv, TypeOK
<1> QED BY <1>1, <1>2, EndLeaseInv, Zenon

\* A job whose handler failed waits in the retry set only with an attempt left.
LEMMA NackInv ==
  ASSUME JobsCount, IInv, NEW w \in Worker, NEW j \in Job, NEW retryAt \in 0..MaxTime,
         Nack(w, j, retryAt)
  PROVE  IInv'
<1>1. CASE DeadLetter(w, j)
  BY <1>1, DeadLetterInv, Zenon
<1>2. CASE ~ DeadLetter(w, j)
  <2>1. /\ ~ Exhausted(j) /\ EndLease(w, j, "retry")
        /\ retry' = [retry EXCEPT ![j] = retryAt]
        /\ dead' = dead /\ failed' = failed /\ processed' = processed
    BY <1>2, Zenon DEF Nack
  <2>2. retry \in [Job -> Nat \cup {NoScore}] /\ retryAt \in Nat /\ processed' \in Nat
    BY <2>1, RedisAssumption DEF IInv, TypeOK, ZSet
  <2>3. retry' \in [Job -> Nat \cup {NoScore}]
    BY <2>1, <2>2, Zenon
  <2>4. retry'[j] = retryAt /\ \A k \in Job \ {j} : retry'[k] = retry[k]
    BY <2>1, <2>2, Zenon
  <2>5. retryAt # NoScore
    BY <2>2 DEF NoScore
  <2>6. retry' \in ZSet
    BY <2>3, Zenon DEF ZSet
  <2> QED BY <2>1, <2>2, <2>4, <2>5, <2>6, EndLeaseInv, Zenon
<1> QED BY <1>1, <1>2, Zenon

\* Renewal moves the deadline on the envelope and in the active set together.
LEMMA ExtendInv ==
  ASSUME IInv, NEW w \in Worker, NEW ids \in SUBSET Job, NEW vt \in VisibilityTimeouts,
         Extend(w, ids, vt)
  PROVE  IInv'
<1>0. /\ TypeOK /\ Fresh /\ Placement /\ LeaseClock /\ AttemptBudget
      /\ FailedCountsDead /\ KeyWindows /\ UniqueWindow
  BY Zenon DEF IInv
<1> DEFINE held == {j \in ids : Holds(w, j)}
<1>1. /\ deadline' = [j \in Job |-> IF j \in held THEN now + vt ELSE deadline[j]]
      /\ active' = [q \in Queue |-> [j \in Job |->
                      IF j \in held /\ queue[j] = q THEN now + vt ELSE active[q][j]]]
      /\ UNCHANGED <<state, owner, attempt, maxAttempts, queue, recoveries, ready,
                     delayed, retry, dead, queues, unique, window, processed, failed, now>>
  BY Zenon DEF Extend
<1>2. held \subseteq Job /\ \A j \in held : state[j] = "active"
  BY Zenon DEF Holds
<1> HIDE DEF held
<1>3. now + vt \in Nat /\ now + vt # NoScore
  BY <1>0, RedisAssumption DEF TypeOK, NoScore
<1>4. /\ \A j \in Job : deadline'[j] = IF j \in held THEN now + vt ELSE deadline[j]
      /\ \A q \in Queue, j \in Job :
           active'[q][j] = IF j \in held /\ queue[j] = q THEN now + vt ELSE active[q][j]
  BY <1>1, Zenon
<1>5. TypeOK'
  <2>1. deadline' \in [Job -> Nat]
    BY <1>0, <1>1, <1>3, Zenon DEF TypeOK
  <2>2. active \in [Queue -> [Job -> Nat \cup {NoScore}]]
    BY <1>0, Zenon DEF TypeOK, ZSet
  <2>3. active' \in [Queue -> [Job -> Nat \cup {NoScore}]]
    BY <1>1, <1>3, <2>2, Zenon
  <2> QED BY <1>0, <1>1, <2>1, <2>3, Zenon DEF TypeOK, ZSet
<1>6. Placement'
  <2>1. ASSUME NEW k \in Job, Exists(k)' PROVE InPlace(k)'
    <3>1. Exists(k) /\ InPlace(k)
      BY <1>0, <1>1, <2>1, Zenon DEF Exists, Placement
    <3> QED BY <1>1, <1>2, <1>3, <1>4, <3>1, Zenon DEF InPlace
  <2>2. NoStrays' /\ NoRepeats'
    BY <1>0, <1>1, <1>4, Zenon DEF NoStrays, NoRepeats, Placement
  <2> QED BY <2>1, <2>2, Zenon DEF Placement
<1>7. LeaseClock'
  <2> SUFFICES ASSUME NEW k \in Job, state'[k] = "active"
               PROVE  active'[queue'[k]][k] = deadline'[k]
    BY Zenon DEF LeaseClock
  <2>1. state[k] = "active" /\ queue[k] \in Queue
    BY <1>0, <1>1, Zenon DEF Placement, Exists, InPlace
  <2> QED BY <1>0, <1>1, <1>4, <2>1, Zenon DEF LeaseClock
<1>8. Fresh' /\ FailedCountsDead' /\ KeyWindows' /\ UniqueWindow'
  BY <1>0, <1>1, Zenon DEF Fresh, FailedCountsDead, KeyWindows, UniqueWindow
<1>9. AttemptBudget'
  BY <1>0, <1>1, Zenon DEF AttemptBudget, Contract!AttemptBudget
<1> QED BY <1>5, <1>6, <1>7, <1>8, <1>9, Zenon DEF IInv

\* A purged envelope leaves its IDs behind, which the invariant allows.
LEMMA PurgeInv ==
  ASSUME IInv, NEW j \in Job, Purge(j)
  PROVE  IInv'
<1>0. /\ TypeOK /\ Fresh /\ Placement /\ LeaseClock /\ AttemptBudget
      /\ FailedCountsDead /\ KeyWindows /\ UniqueWindow
  BY Zenon DEF IInv
<1>1. /\ Exists(j)
      /\ state' = [state EXCEPT ![j] = "gone"]
      /\ owner' = [owner EXCEPT ![j] = NoOwner]
      /\ UNCHANGED <<attempt, maxAttempts, queue, recoveries, deadline, ready, active,
                     delayed, retry, dead, queues, unique, window, processed, failed, now>>
  BY Zenon DEF Purge
<1>2. /\ state \in [Job -> {"none", "scheduled", "retry", "pending", "active",
                            "completed", "dead", "gone"}]
      /\ owner \in [Job -> Worker \cup {NoOwner}]
  BY <1>0, Zenon DEF TypeOK
<1>3. \A k \in Job : /\ state'[k] = IF k = j THEN "gone" ELSE state[k]
                     /\ owner'[k] = IF k = j THEN NoOwner ELSE owner[k]
  BY <1>1, <1>2, Zenon
<1>4. TypeOK'
  <2>1. /\ state' \in [Job -> {"none", "scheduled", "retry", "pending", "active",
                               "completed", "dead", "gone"}]
        /\ owner' \in [Job -> Worker \cup {NoOwner}]
    BY <1>1, <1>2, Zenon
  <2> QED BY <1>0, <1>1, <2>1, Zenon DEF TypeOK
<1>5. Placement'
  <2>1. ASSUME NEW k \in Job, Exists(k)' PROVE InPlace(k)'
    <3>1. k # j /\ Exists(k) /\ InPlace(k)
      BY <1>0, <1>3, <2>1, Zenon DEF Exists, Placement
    <3> QED BY <1>1, <1>3, <3>1, Zenon DEF InPlace
  <2>2. NoStrays' /\ NoRepeats'
    BY <1>0, <1>1, ZenonT(30) DEF NoStrays, NoRepeats, Placement
  <2> QED BY <2>1, <2>2, Zenon DEF Placement
<1>6. Fresh' /\ LeaseClock'
  BY <1>0, <1>1, <1>3 DEF Fresh, LeaseClock
<1>7. AttemptBudget'
  BY <1>0, <1>1, <1>3 DEF AttemptBudget, Contract!AttemptBudget
<1>8. FailedCountsDead' /\ KeyWindows' /\ UniqueWindow'
  BY <1>0, <1>1, Zenon DEF FailedCountsDead, KeyWindows, UniqueWindow
<1> QED BY <1>4, <1>5, <1>6, <1>7, <1>8, Zenon DEF IInv

\* Only KeyWindows mentions the clock, and it is preserved as the clock grows.
LEMMA TickInv ==
  ASSUME IInv, Tick
  PROVE  IInv'
<1>0. /\ TypeOK /\ Fresh /\ Placement /\ LeaseClock /\ AttemptBudget
      /\ FailedCountsDead /\ KeyWindows /\ UniqueWindow
  BY Zenon DEF IInv
<1>1. /\ now' = now + 1
      /\ UNCHANGED <<state, owner, attempt, maxAttempts, queue, recoveries, deadline,
                     ready, active, delayed, retry, dead, queues, unique, window,
                     processed, failed>>
  BY Zenon DEF Tick, hash
<1>2. TypeOK'
  BY <1>0, <1>1 DEF TypeOK
<1>3. Placement'
  BY <1>0, <1>1, Zenon DEF Placement, InPlace, Exists, NoStrays, NoRepeats
<1>4. Fresh' /\ LeaseClock' /\ FailedCountsDead' /\ UniqueWindow'
  BY <1>0, <1>1, Zenon DEF Fresh, LeaseClock, FailedCountsDead, UniqueWindow
<1>5. AttemptBudget'
  BY <1>0, <1>1, ZenonT(40) DEF AttemptBudget, Contract!AttemptBudget
<1>6. KeyWindows'
  <2>1. \A j \in Job : window[j].from \in Nat /\ now \in Nat
    BY <1>0, Zenon DEF TypeOK
  <2> QED BY <1>0, <1>1, <2>1 DEF KeyWindows
<1> QED BY <1>2, <1>3, <1>4, <1>5, <1>6, Zenon DEF IInv

-----------------------------------------------------------------------------
\* Recovery ends leases: an expired job goes back to its ready list or, with
\* no attempt left, to the dead-letter set.
LEMMA RecoverInv ==
  ASSUME JobsCount, IInv, NEW q \in Queue, NEW batch \in DueBatches(active[q], ReapLimit),
         Recover(q, batch)
  PROVE  IInv'
<1>0. /\ TypeOK /\ Fresh /\ Placement /\ LeaseClock /\ AttemptBudget
      /\ FailedCountsDead /\ KeyWindows /\ UniqueWindow
  BY Zenon DEF IInv
<1> DEFINE back == {j \in batch : Exists(j) /\ ~ Exhausted(j)}
           spent == {j \in batch : Exists(j) /\ Exhausted(j)}
<1>1. /\ \A j \in back \cup spent : /\ j \in Job /\ queue[j] = q /\ state[j] = "active"
                                   /\ j \notin dead /\ Exists(j) /\ j \in batch
      /\ \A j \in spent : Exhausted(j)
      /\ \A j \in back : ~ Exhausted(j) /\ j \notin spent
      /\ \A j \in batch : Exists(j) => j \in back \cup spent
  BY <1>0, OrphanFacts, Zenon
<1>2. Gains(back)
  BY <1>0, RecoverReady, Zenon
<1>3. /\ {j \in batch : Exists(j)} = back \cup spent
      /\ {j \in {k \in batch : Exists(k)} : Exhausted(j)} = spent
      /\ {j \in batch : Exists(j)} \ {j \in {k \in batch : Exists(k)} : Exhausted(j)} = back
  BY Zenon
<1>4. /\ active' = [active EXCEPT ![q] = ZRem(@, batch)]
      /\ recoveries' = [j \in Job |-> IF j \in back \cup spent THEN recoveries[j] + 1
                                      ELSE recoveries[j]]
      /\ owner' = [j \in Job |-> IF j \in back \cup spent THEN NoOwner ELSE owner[j]]
      /\ state' = [j \in Job |-> IF j \in spent THEN "dead"
                                 ELSE IF j \in back THEN "pending" ELSE state[j]]
      /\ dead' = dead \cup spent
      /\ failed' = failed + Cardinality(spent)
      /\ UNCHANGED <<attempt, maxAttempts, queue, deadline, delayed, retry,
                     queues, unique, window, processed, now>>
  BY <1>3, Zenon DEF Recover
<1> HIDE DEF back, spent
<1>5. /\ state \in [Job -> {"none", "scheduled", "retry", "pending", "active",
                            "completed", "dead", "gone"}]
      /\ owner \in [Job -> Worker \cup {NoOwner}]
      /\ active \in [Queue -> [Job -> Nat \cup {NoScore}]]
      /\ recoveries \in [Job -> Nat]
  BY <1>0, Zenon DEF TypeOK, ZSet
<1>6. /\ \A k \in Job : /\ state'[k] = IF k \in spent THEN "dead"
                                       ELSE IF k \in back THEN "pending" ELSE state[k]
                        /\ owner'[k] = IF k \in back \cup spent THEN NoOwner ELSE owner[k]
      /\ \A x \in Queue, k \in Job :
           active'[x][k] = IF x = q /\ k \in batch THEN NoScore ELSE active[x][k]
  BY <1>4, <1>5, Zenon DEF ZRem
<1>7. /\ dead \in SUBSET Job /\ spent \in SUBSET Job /\ dead \cap spent = {}
      /\ Cardinality(dead) \in Nat /\ Cardinality(spent) \in Nat
  <2>1. dead \in SUBSET Job /\ spent \in SUBSET Job
    BY <1>0, <1>1, Zenon DEF TypeOK
  <2> QED BY <1>1, <2>1, Zenon DEF JobsCount
<1>8. TypeOK'
  <2>1. state' \in [Job -> {"none", "scheduled", "retry", "pending", "active",
                            "completed", "dead", "gone"}]
    BY <1>4, <1>5, Zenon
  <2>2. owner' \in [Job -> Worker \cup {NoOwner}] /\ recoveries' \in [Job -> Nat]
    BY <1>4, <1>5
  <2>3. active' \in [Queue -> [Job -> Nat \cup {NoScore}]]
    BY <1>4, <1>5, ZenonT(30) DEF ZRem
  <2>4. dead' \subseteq Job
    BY <1>0, <1>1, <1>4, Zenon DEF TypeOK
  <2>5. failed' \in Nat
    BY <1>0, <1>4, <1>7, SMTT(30) DEF TypeOK
  <2>6. ready' \in [Queue -> Seq(Job)]
    BY <1>2, Zenon DEF Gains
  <2> QED BY <1>0, <1>4, <2>1, <2>2, <2>3, <2>4, <2>5, <2>6, Zenon DEF TypeOK, ZSet
<1>9. Placement'
  <2>1. ASSUME NEW k \in Job, Exists(k)' PROVE InPlace(k)'
    <3>1. Exists(k) /\ InPlace(k)
      BY <1>0, <1>1, <1>6, <2>1, Zenon DEF Exists, Placement
    <3>2. k \in Range(ready'[queue[k]]) <=> k \in Range(ready[queue[k]]) \/ k \in back
      BY <1>2, <3>1, ZenonT(40) DEF Gains, InPlace
    <3>3. CASE k \in back \cup spent
      <4>1. /\ queue'[k] = queue[k] /\ queue[k] = q /\ state[k] = "active" /\ k \notin dead
            /\ delayed'[k] = delayed[k] /\ retry'[k] = retry[k] /\ k \in batch
        BY <1>1, <1>4, <3>3, Zenon
      <4>2. active'[q][k] = NoScore
        BY <1>6, <4>1, Zenon
      <4>3. /\ k \in spent => state'[k] = "dead" /\ k \notin back
            /\ k \notin spent => state'[k] = "pending" /\ k \in back
            /\ k \in dead' <=> k \in spent
        BY <1>1, <1>4, <1>6, <3>3, <4>1, Zenon
      <4> QED BY <3>1, <3>2, <4>1, <4>2, <4>3, SMTT(30) DEF InPlace
    <3>4. CASE k \notin back \cup spent
      <4>1. k \notin batch
        BY <1>1, <3>1, <3>4, ZenonT(40)
      <4>2. queue[k] \in Queue
        BY <3>1, Zenon DEF InPlace
      <4>3. /\ queue'[k] = queue[k] /\ delayed'[k] = delayed[k] /\ retry'[k] = retry[k]
            /\ k \in dead' <=> k \in dead
        BY <1>4, <3>4, Zenon
      <4>4. state'[k] = state[k] /\ active'[queue[k]][k] = active[queue[k]][k]
        BY <1>6, <3>4, <4>1, <4>2, Zenon
      <4>5. k \in Range(ready'[queue[k]]) <=> k \in Range(ready[queue[k]])
        BY <3>2, <3>4, Zenon
      <4> QED BY <3>1, <4>2, <4>3, <4>4, <4>5, ZenonT(40) DEF InPlace
    <3> QED BY <3>3, <3>4, Zenon
  <2>2. NoStrays'
    <3>1. NoStrays /\ queue' = queue
      BY <1>0, <1>4, Zenon DEF Placement
    <3>2. \A x \in Queue, k \in Job : active[x][k] = NoScore => active'[x][k] = NoScore
      BY <1>6, Zenon
    <3> QED BY <1>2, <3>1, <3>2, StraysKept, Zenon
  <2> QED BY <1>2, <2>1, <2>2, Zenon DEF Placement, Gains
<1>10. Fresh'
  <2>1. \A k \in Job : state'[k] = "none" =>
          state[k] = "none" /\ k \notin back \cup spent
    BY <1>6, ZenonT(40)
  <2> QED BY <1>0, <1>4, <1>6, <2>1, Zenon DEF Fresh
<1>11. LeaseClock'
  <2> SUFFICES ASSUME NEW k \in Job, state'[k] = "active"
               PROVE  active'[queue'[k]][k] = deadline'[k]
    BY Zenon DEF LeaseClock
  <2>1. state[k] = "active" /\ Exists(k) /\ k \notin back \cup spent
    BY <1>6, Zenon DEF Exists
  <2>2. queue[k] \in Queue /\ k \notin batch
    BY <1>0, <1>1, <2>1, Zenon DEF Placement, InPlace
  <2>3. active[queue[k]][k] = deadline[k]
    BY <1>0, <2>1, Zenon DEF LeaseClock
  <2>4. active'[queue[k]][k] = active[queue[k]][k]
    BY <1>6, <2>2, Zenon
  <2> QED BY <1>4, <2>3, <2>4, Zenon
<1>12. AttemptBudget'
  <2>1. \A k \in Job : attempt[k] \in Nat /\ maxAttempts[k] \in Nat
    BY <1>0, Zenon DEF TypeOK
  <2>2. \A k \in back \cup spent : attempt[k] \in 1..maxAttempts[k]
    BY <1>0, <1>1, Zenon DEF AttemptBudget, Contract!AttemptBudget
  <2>3. \A k \in back : attempt[k] < maxAttempts[k]
    BY <1>1, <2>1, SMTT(30) DEF Exhausted
  <2> QED BY <1>0, <1>4, <1>6, <2>1, <2>2, <2>3, Zenon DEF AttemptBudget, Contract!AttemptBudget
<1>13. FailedCountsDead'
  <2>1. Cardinality(dead \cup spent) = Cardinality(dead) + Cardinality(spent)
    BY <1>7, Zenon DEF JobsCount
  <2> QED BY <1>0, <1>4, <2>1, Zenon DEF FailedCountsDead
<1>14. KeyWindows' /\ UniqueWindow'
  BY <1>0, <1>4, Zenon DEF KeyWindows, UniqueWindow
<1> QED BY <1>8, <1>9, <1>10, <1>11, <1>12, <1>13, <1>14, Zenon DEF IInv

\* Promotion moves due jobs to the ready lists of their queues.
LEMMA ReleaseInv ==
  ASSUME JobsCount, IInv, NEW n, NEW m,
         NEW first \in DueBatches(delayed, n), NEW second \in DueBatches(retry, m),
         Release(first, second)
  PROVE  IInv'
<1>0. /\ TypeOK /\ Fresh /\ Placement /\ LeaseClock /\ AttemptBudget
      /\ FailedCountsDead /\ KeyWindows /\ UniqueWindow
  BY Zenon DEF IInv
<1> DEFINE moved == {j \in first \cup second : Exists(j)}
<1>1. /\ \A j \in moved : /\ j \in Job /\ Exists(j) /\ j \in first \cup second
                          /\ j \in first => state[j] = "scheduled"
                          /\ j \in second => state[j] = "retry"
      /\ \A j \in first \cup second : Exists(j) => j \in moved
  BY <1>0, ReleaseFacts, Zenon
<1>2. Gains(moved)
  BY <1>0, ReleaseReady, Zenon
<1>3. {j \in first : Exists(j)} \cup {j \in second : Exists(j)} = moved
  BY Zenon
<1>4. /\ delayed' = ZRem(delayed, first)
      /\ retry' = ZRem(retry, second)
      /\ state' = [j \in Job |-> IF j \in moved THEN "pending" ELSE state[j]]
      /\ owner' = [j \in Job |-> IF j \in moved THEN NoOwner ELSE owner[j]]
      /\ UNCHANGED <<attempt, maxAttempts, queue, recoveries, deadline,
                     active, dead, queues, unique, window, processed, failed, now>>
  BY <1>3, Zenon DEF Release
<1> HIDE DEF moved
<1>5. /\ state \in [Job -> {"none", "scheduled", "retry", "pending", "active",
                            "completed", "dead", "gone"}]
      /\ owner \in [Job -> Worker \cup {NoOwner}]
      /\ delayed \in [Job -> Nat \cup {NoScore}]
      /\ retry \in [Job -> Nat \cup {NoScore}]
  BY <1>0, Zenon DEF TypeOK, ZSet
<1>6. \A k \in Job : /\ state'[k] = IF k \in moved THEN "pending" ELSE state[k]
                     /\ owner'[k] = IF k \in moved THEN NoOwner ELSE owner[k]
                     /\ delayed'[k] = IF k \in first THEN NoScore ELSE delayed[k]
                     /\ retry'[k] = IF k \in second THEN NoScore ELSE retry[k]
  BY <1>4, Zenon DEF ZRem
<1>7. TypeOK'
  <2>1. state' \in [Job -> {"none", "scheduled", "retry", "pending", "active",
                            "completed", "dead", "gone"}]
    BY <1>4, <1>5, Zenon
  <2>2. owner' \in [Job -> Worker \cup {NoOwner}]
    BY <1>4, <1>5, Zenon
  <2>3. delayed' \in ZSet /\ retry' \in ZSet
    BY <1>4, <1>5, Zenon DEF ZRem, ZSet
  <2>4. ready' \in [Queue -> Seq(Job)]
    BY <1>2, Zenon DEF Gains
  <2> QED BY <1>0, <1>4, <2>1, <2>2, <2>3, <2>4, Zenon DEF TypeOK
<1>8. Placement'
  <2>1. ASSUME NEW k \in Job, Exists(k)' PROVE InPlace(k)'
    <3>1. Exists(k) /\ InPlace(k)
      BY <1>0, <1>1, <1>6, <2>1, Zenon DEF Exists, Placement
    <3>2. k \in Range(ready'[queue[k]]) <=> k \in Range(ready[queue[k]]) \/ k \in moved
      BY <1>2, <3>1, Zenon DEF Gains, InPlace
    <3>3. CASE k \in moved
      BY <1>1, <1>4, <1>6, <3>1, <3>2, <3>3, Zenon DEF InPlace
    <3>4. CASE k \notin moved
      <4>1. k \notin first /\ k \notin second
        BY <1>1, <3>1, <3>4, ZenonT(40)
      <4> QED BY <1>4, <1>6, <3>1, <3>2, <3>4, <4>1, Zenon DEF InPlace
    <3> QED BY <3>3, <3>4, Zenon
  <2>2. NoStrays'
    <3>1. NoStrays /\ queue' = queue /\ active' = active
      BY <1>0, <1>4, Zenon DEF Placement
    <3> QED BY <1>2, <3>1, StraysKept, Zenon
  <2> QED BY <1>2, <2>1, <2>2, Zenon DEF Placement, Gains
<1>9. Fresh' /\ LeaseClock'
  <2>1. \A k \in Job : state'[k] \in {"none", "active"} =>
          state'[k] = state[k] /\ k \notin moved
    BY <1>6, Zenon
  <2> QED BY <1>0, <1>4, <1>6, <2>1, Zenon DEF Fresh, LeaseClock
<1>10. AttemptBudget'
  BY <1>0, <1>1, <1>4, <1>6, Zenon DEF AttemptBudget, Contract!AttemptBudget
<1>11. FailedCountsDead' /\ KeyWindows' /\ UniqueWindow'
  BY <1>0, <1>4, Zenon DEF FailedCountsDead, KeyWindows, UniqueWindow
<1> QED BY <1>7, <1>8, <1>9, <1>10, <1>11, Zenon DEF IInv
=============================================================================
