------------------------- MODULE MemoryBrokerProofs -------------------------
(***************************************************************************)
(* The theorems about the memory broker.  MInv is inductive: what stored   *)
(* jobs can be found, what unique windows are disjoint, and, until an      *)
(* operator has replayed a job twice in one call, that every structure     *)
(* holds exactly the jobs whose state names it.                            *)
(***************************************************************************)
EXTENDS MemoryBroker, TLAPS

ZSet == [Job -> Nat \cup {NoScore}]
States == {"none", "scheduled", "retry", "pending", "active", "dead", "gone"}

\* The types of the jobs, of the lists, and of the rest of the broker.
JobTypes ==
  /\ state \in [Job -> States]
  /\ owner \in [Job -> Worker \cup {NoOwner}]
  /\ attempt \in [Job -> Nat] /\ maxAttempts \in [Job -> Nat]
  /\ queue \in [Job -> Queue \cup {NoQueue}]
  /\ recoveries \in [Job -> Nat] /\ deadline \in [Job -> Nat]
ListTypes ==
  /\ pending \in [Queue -> Seq(Job)] /\ dead \in Seq(Job)
  /\ active \in ZSet /\ scheduled \in ZSet /\ retry \in ZSet
RestTypes ==
  /\ unique \in [Key -> Nat]
  /\ window \in [Job -> [key : Key \cup {NoKey}, from : Nat, until : Nat]]
  /\ now \in Nat /\ repeated \in BOOLEAN

\* A stored job names its queue.
Queued == \A j \in Job : Exists(j) => queue[j] \in Queue

\* A job is only where its state says, and there once.
Placed(j) ==
  /\ \A q \in Queue : j \in Range(pending[q]) => state[j] = "pending" /\ queue[j] = q
  /\ active[j] # NoScore => state[j] = "active" /\ active[j] = deadline[j]
  /\ scheduled[j] # NoScore => state[j] = "scheduled"
  /\ retry[j] # NoScore => state[j] = "retry"
  /\ j \in Range(dead) => state[j] = "dead"
  /\ state[j] # "active" => owner[j] = NoOwner
Tidy ==
  /\ \A j \in Job : Placed(j)
  /\ IsInjective(dead) /\ \A q \in Queue : IsInjective(pending[q])

\* A unique key outlives the window of every job accepted under it.
Keys ==
  \A j \in Job :
    /\ state[j] = "none" => window[j].key = NoKey
    /\ window[j].key # NoKey =>
         window[j].from <= now /\ window[j].until <= unique[window[j].key]

MInv ==
  /\ JobTypes /\ ListTypes /\ RestTypes /\ Queued /\ NothingLost
  /\ ~ repeated => Tidy
  /\ Keys /\ UniqueWindow

-----------------------------------------------------------------------------
(* Lists.                                                                  *)

\* How finite sets are counted: the lemmas assume it, and it is shown before
\* the theorems.
Counting ==
  /\ Cardinality({}) = 0 /\ \A x : Cardinality({x}) = 1
  /\ \A n \in Nat : IsFiniteSet(1..n) /\ Cardinality(1..n) = n
  /\ \A S : IsFiniteSet(S) =>
       /\ Cardinality(S) \in Nat /\ (Cardinality(S) = 0 => S = {})
       /\ \A T \in SUBSET S :
            /\ IsFiniteSet(T) /\ Cardinality(T) <= Cardinality(S)
            /\ Cardinality(S) = Cardinality(T) => S = T
       /\ \A T, f : f \in Injection(T, S) /\ Cardinality(T) = Cardinality(S) =>
            f \in Surjection(T, S)

\* Appending adds that element.
LEMMA AppendFacts ==
  ASSUME NEW S, NEW s \in Seq(S), NEW e \in S
  PROVE  /\ Append(s, e) \in Seq(S)
         /\ Range(Append(s, e)) = Range(s) \cup {e}
         /\ IsInjective(s) /\ e \notin Range(s) => IsInjective(Append(s, e))
<1>1. /\ Append(s, e) \in Seq(S) /\ Len(s) \in Nat /\ DOMAIN s = 1..Len(s)
      /\ DOMAIN Append(s, e) = 1..(Len(s) + 1)
      /\ \A i \in 1..Len(s) : Append(s, e)[i] = s[i]
      /\ Append(s, e)[Len(s) + 1] = e
  OBVIOUS
<1>2. Range(Append(s, e)) = Range(s) \cup {e}
  BY <1>1 DEF Range
<1>3. IsInjective(s) /\ e \notin Range(s) => IsInjective(Append(s, e))
  BY <1>1 DEF Range, IsInjective
<1> QED BY <1>1, <1>2, <1>3, Zenon

\* Concatenation adds the elements of the second list.
LEMMA ConcatFacts ==
  ASSUME NEW S, NEW s \in Seq(S), NEW t \in Seq(S)
  PROVE  /\ s \o t \in Seq(S)
         /\ Range(s \o t) = Range(s) \cup Range(t)
         /\ IsInjective(s) /\ IsInjective(t) /\ Range(s) \cap Range(t) = {}
              => IsInjective(s \o t)
<1>1. /\ s \o t \in Seq(S)
      /\ Len(s \o t) = Len(s) + Len(t)
      /\ \A i \in 1..(Len(s) + Len(t)) :
           (s \o t)[i] = IF i <= Len(s) THEN s[i] ELSE t[i - Len(s)]
  <2>1. s \o t \in Seq(S) /\ Len(s \o t) = Len(s) + Len(t)
    OBVIOUS
  <2>2. \A i \in 1..(Len(s) + Len(t)) :
          (s \o t)[i] = IF i <= Len(s) THEN s[i] ELSE t[i - Len(s)]
    OBVIOUS
  <2> QED BY <2>1, <2>2, Zenon
<1>2. Range(s \o t) = Range(s) \cup Range(t)
  <2>1. /\ Len(s) \in Nat /\ Len(t) \in Nat
        /\ DOMAIN s = 1..Len(s) /\ DOMAIN t = 1..Len(t)
        /\ DOMAIN (s \o t) = 1..(Len(s) + Len(t))
    BY <1>1
  <2>2. ASSUME NEW i \in DOMAIN (s \o t) PROVE (s \o t)[i] \in Range(s) \cup Range(t)
    BY <1>1, <2>1 DEF Range
  <2>3. ASSUME NEW i \in DOMAIN s PROVE s[i] \in Range(s \o t)
    BY <1>1, <2>1 DEF Range
  <2>4. ASSUME NEW i \in DOMAIN t PROVE t[i] \in Range(s \o t)
    <3>1. /\ Len(s) + i \in DOMAIN (s \o t) /\ ~ (Len(s) + i <= Len(s))
          /\ (Len(s) + i) - Len(s) = i
      BY <2>1
    <3>2. (s \o t)[Len(s) + i] = t[i]
      BY <1>1, <2>1, <3>1, Zenon
    <3> QED BY <3>1, <3>2, Zenon DEF Range
  <2> QED BY <2>2, <2>3, <2>4, Zenon DEF Range
<1>3. ASSUME IsInjective(s), IsInjective(t), Range(s) \cap Range(t) = {}
      PROVE  IsInjective(s \o t)
  <2>1. /\ Len(s) \in Nat /\ Len(t) \in Nat
        /\ DOMAIN s = 1..Len(s) /\ DOMAIN t = 1..Len(t)
        /\ DOMAIN (s \o t) = 1..(Len(s) + Len(t))
    BY <1>1
  <2>2. \A i \in 1..Len(s), k \in 1..Len(t) : s[i] # t[k]
    BY <1>3, <2>1, Zenon DEF Range
  <2>3. /\ \A i, k \in 1..Len(s) : s[i] = s[k] => i = k
        /\ \A i, k \in 1..Len(t) : t[i] = t[k] => i = k
    BY <1>3, <2>1, Zenon DEF IsInjective
  <2>4. ASSUME NEW i \in 1..(Len(s) + Len(t)), NEW k \in 1..(Len(s) + Len(t)),
               (s \o t)[i] = (s \o t)[k]
        PROVE  i = k
    <3>1. CASE i <= Len(s) /\ k <= Len(s)
      BY <1>1, <2>1, <2>3, <2>4, <3>1
    <3>2. CASE i > Len(s) /\ k > Len(s)
      <4>1. i - Len(s) \in 1..Len(t) /\ k - Len(s) \in 1..Len(t)
        BY <2>1, <3>2
      <4>2. t[i - Len(s)] = t[k - Len(s)]
        BY <1>1, <2>1, <2>4, <3>2
      <4> QED BY <2>1, <2>3, <4>1, <4>2
    <3>3. CASE i <= Len(s) /\ k > Len(s)
      BY <1>1, <2>1, <2>2, <2>4, <3>3
    <3>4. CASE i > Len(s) /\ k <= Len(s)
      BY <1>1, <2>1, <2>2, <2>4, <3>4
    <3> QED BY <2>1, <3>1, <3>2, <3>3, <3>4
  <2> QED BY <2>1, <2>4, Zenon DEF IsInjective
<1> QED BY <1>1, <1>2, <1>3, Zenon

\* A bijection from 1..|S| lists the finite set S without repetition.
LEMMA ListingFacts ==
  ASSUME NEW J, NEW S \in SUBSET J, Cardinality(S) \in Nat,
         NEW s \in Bijection(1..Cardinality(S), S)
  PROVE  s \in Seq(J) /\ Range(s) = S /\ IsInjective(s)
<1>2. s \in [1..Cardinality(S) -> S] /\ IsInjective(s)
  BY Zenon DEF Bijection, Injection
<1>3. Range(s) = S
  BY <1>2, Zenon DEF Range, Bijection, Surjection
<1>4. s \in [1..Cardinality(S) -> J]
  BY <1>2, Zenon
<1>5. s \in Seq(J)
  BY <1>4
<1> QED BY <1>2, <1>3, <1>5, Zenon

\* Taking the head off a list removes it, and everything else stays.
LEMMA TailFacts ==
  ASSUME NEW S, NEW s \in Seq(S), s # <<>>
  PROVE  /\ Tail(s) \in Seq(S) /\ Head(s) \in S /\ Head(s) \in Range(s)
         /\ Range(Tail(s)) \subseteq Range(s)
         /\ \A x \in Range(s) : x # Head(s) => x \in Range(Tail(s))
         /\ IsInjective(s) => IsInjective(Tail(s)) /\ Head(s) \notin Range(Tail(s))
<1>1. /\ Tail(s) \in Seq(S) /\ Head(s) \in S /\ Len(Tail(s)) = Len(s) - 1
      /\ \A i \in 1..Len(Tail(s)) : Tail(s)[i] = s[i + 1]
  OBVIOUS
<1>2. /\ Len(s) \in Nat \ {0} /\ DOMAIN s = 1..Len(s) /\ DOMAIN Tail(s) = 1..(Len(s) - 1)
      /\ Head(s) = s[1]
  BY <1>1
<1>3. \A i \in 1..(Len(s) - 1) : Tail(s)[i] = s[i + 1] /\ i + 1 \in 1..Len(s) /\ i + 1 # 1
  BY <1>1, <1>2
<1>4. \A i \in 1..Len(s) : i # 1 => i - 1 \in 1..(Len(s) - 1) /\ s[i] = Tail(s)[i - 1]
  BY <1>2, <1>3, SMTT(30)
<1>5. Head(s) \in Range(s) /\ Range(Tail(s)) \subseteq Range(s)
  <2>1. 1 \in DOMAIN s
    BY <1>2
  <2>2. \A i \in DOMAIN Tail(s) : i + 1 \in DOMAIN s /\ Tail(s)[i] = s[i + 1]
    BY <1>2, <1>3, Zenon
  <2> QED BY <1>2, <2>1, <2>2, Zenon DEF Range
<1>6. \A x \in Range(s) : x # Head(s) => x \in Range(Tail(s))
  <2>1. \A i \in DOMAIN s : i # 1 => i - 1 \in DOMAIN Tail(s) /\ s[i] = Tail(s)[i - 1]
    BY <1>2, <1>4, Zenon
  <2> SUFFICES ASSUME NEW i \in DOMAIN s, s[i] # Head(s) PROVE s[i] \in Range(Tail(s))
    BY Zenon DEF Range
  <2>2. i # 1
    BY <1>2, Zenon
  <2> QED BY <2>1, <2>2, Zenon DEF Range
<1>7. IsInjective(s) => IsInjective(Tail(s)) /\ Head(s) \notin Range(Tail(s))
  <2> SUFFICES ASSUME IsInjective(s)
               PROVE  IsInjective(Tail(s)) /\ Head(s) \notin Range(Tail(s))
    BY Zenon
  <2>1. \A i, k \in 1..Len(s) : s[i] = s[k] => i = k
    BY <1>2, Zenon DEF IsInjective
  <2>2. \A i, k \in 1..(Len(s) - 1) : Tail(s)[i] = Tail(s)[k] => i + 1 = k + 1
    BY <1>3, <2>1, Zenon
  <2>3. \A i, k \in 1..(Len(s) - 1) : Tail(s)[i] = Tail(s)[k] => i = k
    BY <1>2, <2>2
  <2>4. \A i \in 1..(Len(s) - 1) : Tail(s)[i] # s[1]
    <3>1. 1 \in 1..Len(s)
      BY <1>2
    <3> QED BY <1>3, <2>1, <3>1, Zenon
  <2> QED BY <1>2, <2>3, <2>4, Zenon DEF IsInjective, Range
<1> QED BY <1>1, <1>5, <1>6, <1>7, Zenon

\* Counting the positions of P up to each of them numbers P from 1.
LEMMA RankFacts ==
  ASSUME Counting, NEW n \in Nat, NEW P \in SUBSET (1..n)
  PROVE  /\ IsFiniteSet(P) /\ Cardinality(P) \in Nat
         /\ \A i \in P : Rank(P, i) \in 1..Cardinality(P)
         /\ \A i, k \in P : Rank(P, i) = Rank(P, k) => i = k
         /\ \A m \in 1..Cardinality(P) : \E i \in P : Rank(P, i) = m
<1>1. IsFiniteSet(P) /\ Cardinality(P) \in Nat /\ P \subseteq Nat
  <2>1. IsFiniteSet(1..n) /\ P \subseteq Nat
    <3>1. IsFiniteSet(1..n)
      BY Zenon DEF Counting
    <3>2. P \subseteq Nat
      OBVIOUS
    <3> QED BY <3>1, <3>2, Zenon
  <2>2. IsFiniteSet(P)
    BY <2>1, Zenon DEF Counting
  <2> QED BY <2>1, <2>2, Zenon DEF Counting
<1>2. ASSUME NEW i \in P
      PROVE  /\ IsFiniteSet({k \in P : k <= i}) /\ Rank(P, i) \in 1..Cardinality(P)
  <2>1. {k \in P : k <= i} \in SUBSET P /\ i \in {k \in P : k <= i}
    BY <1>1
  <2>2. /\ IsFiniteSet({k \in P : k <= i})
        /\ Cardinality({k \in P : k <= i}) <= Cardinality(P)
    BY <1>1, <2>1, Zenon DEF Counting
  <2>3. Cardinality({k \in P : k <= i}) \in Nat /\ Cardinality({k \in P : k <= i}) # 0
    BY <2>1, <2>2, Zenon DEF Counting
  <2> QED BY <1>1, <2>2, <2>3 DEF Rank
<1>3. ASSUME NEW i \in P, NEW k \in P, Rank(P, i) = Rank(P, k), i <= k
      PROVE  i = k
  <2>1. {m \in P : m <= i} \in SUBSET {m \in P : m <= k}
    <3>1. \A m \in P : m <= i => m <= k
      BY <1>1, <1>3
    <3> QED BY <3>1, Zenon
  <2>2. {m \in P : m <= k} = {m \in P : m <= i}
    BY <1>2, <1>3, <2>1, Zenon DEF Counting, Rank
  <2>3. k \in {m \in P : m <= i}
    BY <1>1, <2>2
  <2> QED BY <1>1, <1>3, <2>3
<1>4. \A i, k \in P : Rank(P, i) = Rank(P, k) => i = k
  BY <1>1, <1>3
<1>5. \A m \in 1..Cardinality(P) : \E i \in P : Rank(P, i) = m
  <2> DEFINE f == [i \in P |-> Rank(P, i)]
  <2>1. f \in Injection(P, 1..Cardinality(P))
    BY <1>2, <1>4, Zenon DEF Injection, IsInjective
  <2>2. IsFiniteSet(1..Cardinality(P)) /\ Cardinality(1..Cardinality(P)) = Cardinality(P)
    BY <1>1, Zenon DEF Counting
  <2>3. f \in Surjection(P, 1..Cardinality(P))
    BY <2>1, <2>2, Zenon DEF Counting
  <2> QED BY <2>3, Zenon DEF Surjection
<1> QED BY <1>1, <1>2, <1>4, <1>5, Zenon

\* A sublist has the elements at its positions, each as often as the list.
LEMMA SublistFacts ==
  ASSUME Counting, NEW S, NEW s \in Seq(S), NEW P \in SUBSET DOMAIN s
  PROVE  /\ Sublist(s, P) \in Seq(S)
         /\ Range(Sublist(s, P)) = {s[i] : i \in P}
         /\ IsInjective(s) => IsInjective(Sublist(s, P))
<1> DEFINE at(m) == CHOOSE i \in P : Rank(P, i) = m
           t == Sublist(s, P)
<1>1. Len(s) \in Nat /\ DOMAIN s = 1..Len(s) /\ \A i \in DOMAIN s : s[i] \in S
  OBVIOUS
<1>2. /\ IsFiniteSet(P) /\ Cardinality(P) \in Nat
      /\ \A i \in P : Rank(P, i) \in 1..Cardinality(P)
      /\ \A i, k \in P : Rank(P, i) = Rank(P, k) => i = k
      /\ \A m \in 1..Cardinality(P) : \E i \in P : Rank(P, i) = m
  BY <1>1, RankFacts, Zenon
<1>3. \A m \in 1..Cardinality(P) : at(m) \in P /\ Rank(P, at(m)) = m
  BY <1>2, Zenon
<1>4. \A i \in P : at(Rank(P, i)) = i
  BY <1>2, <1>3, Zenon
<1>5. t = [m \in 1..Cardinality(P) |-> s[at(m)]]
  BY Zenon DEF Sublist
<1>6. DOMAIN t = 1..Cardinality(P) /\ \A m \in 1..Cardinality(P) : t[m] = s[at(m)]
  BY <1>5, Zenon
<1> HIDE DEF at, t
<1>7. t \in Seq(S)
  <2>1. t \in [1..Cardinality(P) -> S]
    BY <1>1, <1>3, <1>5, Zenon
  <2> QED BY <1>2, <2>1
<1>8. Range(t) = {s[i] : i \in P}
  <2>1. ASSUME NEW i \in P PROVE s[i] \in Range(t)
    <3>1. Rank(P, i) \in DOMAIN t /\ t[Rank(P, i)] = s[i]
      BY <1>2, <1>4, <1>6, Zenon
    <3> QED BY <3>1, Zenon DEF Range
  <2>2. ASSUME NEW m \in DOMAIN t PROVE t[m] \in {s[i] : i \in P}
    BY <1>3, <1>6, Zenon
  <2> QED BY <2>1, <2>2, Zenon DEF Range
<1>9. IsInjective(s) => IsInjective(t)
  <2> SUFFICES ASSUME IsInjective(s), NEW m \in 1..Cardinality(P), NEW n \in 1..Cardinality(P),
                      t[m] = t[n]
               PROVE  m = n
    BY <1>6, Zenon DEF IsInjective
  <2>1. at(m) = at(n)
    BY <1>3, <1>6, Zenon DEF IsInjective
  <2> QED BY <1>3, <2>1, Zenon
<1> QED BY <1>7, <1>8, <1>9, Zenon DEF t

\* What is left of a list when only the elements of T are kept.
LEMMA OnlyFacts ==
  ASSUME Counting, NEW S, NEW s \in Seq(S), NEW T
  PROVE  /\ Only(s, T) \in Seq(S)
         /\ Range(Only(s, T)) = Range(s) \cap T
         /\ IsInjective(s) => IsInjective(Only(s, T))
<1> DEFINE P == {i \in DOMAIN s : s[i] \in T}
<1>1. {s[i] : i \in P} = Range(s) \cap T
  BY Zenon DEF Range
<1>2. P \in SUBSET DOMAIN s
  BY Zenon
<1> HIDE DEF P
<1>3. /\ Sublist(s, P) \in Seq(S)
      /\ Range(Sublist(s, P)) = {s[i] : i \in P}
      /\ IsInjective(s) => IsInjective(Sublist(s, P))
  BY <1>2, SublistFacts, Zenon
<1> QED BY <1>1, <1>3, Zenon DEF Only, P

\* Removing IDs from the dead-letter list times times leaves the jobs it is not
\* asked to remove, and none of the others that is there once.
LEMMA RemoveFacts ==
  ASSUME Counting, dead \in Seq(Job), NEW times \in [Job -> Nat]
  PROVE  /\ removeDead(times) \in Seq(Job)
         /\ Range(removeDead(times)) \subseteq Range(dead)
         /\ \A j \in Range(dead) : times[j] = 0 => j \in Range(removeDead(times))
         /\ IsInjective(dead) =>
              /\ IsInjective(removeDead(times))
              /\ \A j \in Job : times[j] > 0 => j \notin Range(removeDead(times))
<1> DEFINE nth(i) == {k \in 1..i : dead[k] = dead[i]}
           P == {i \in DOMAIN dead : Cardinality(nth(i)) > times[dead[i]]}
<1>1. Len(dead) \in Nat /\ DOMAIN dead = 1..Len(dead) /\ \A i \in DOMAIN dead : dead[i] \in Job
  OBVIOUS
<1>2. ASSUME NEW i \in DOMAIN dead
      PROVE  /\ IsFiniteSet(nth(i)) /\ Cardinality(nth(i)) \in Nat \ {0}
             /\ IsInjective(dead) => Cardinality(nth(i)) = 1
  <2>1. i \in Nat /\ i \in 1..i
    BY <1>1
  <2>2. IsFiniteSet(1..i)
    BY <2>1, Zenon DEF Counting
  <2>3. IsFiniteSet(nth(i)) /\ i \in nth(i)
    <3>1. nth(i) \in SUBSET (1..i) /\ i \in nth(i)
      BY <2>1, Zenon
    <3> QED BY <2>2, <3>1, Zenon DEF Counting
  <2>4. Cardinality(nth(i)) \in Nat /\ Cardinality(nth(i)) # 0
    BY <2>3, Zenon DEF Counting
  <2>5. ASSUME IsInjective(dead) PROVE nth(i) = {i}
    <3>1. \A k \in 1..i : k \in DOMAIN dead
      BY <1>1
    <3>2. \A k \in nth(i) : k = i
      BY <2>5, <3>1, Zenon DEF IsInjective
    <3> QED BY <2>3, <3>2, Zenon
  <2> QED BY <2>3, <2>4, <2>5, ZenonT(30) DEF Counting
<1>3. removeDead(times) = Sublist(dead, P) /\ P \in SUBSET DOMAIN dead
  BY Zenon DEF removeDead
<1>4. \A i \in DOMAIN dead : times[dead[i]] \in Nat /\ (times[dead[i]] = 0 => i \in P)
  <2> SUFFICES ASSUME NEW i \in DOMAIN dead
               PROVE  times[dead[i]] \in Nat /\ (times[dead[i]] = 0 => i \in P)
    BY Zenon
  <2>1. times[dead[i]] \in Nat
    BY <1>1, Zenon
  <2>2. Cardinality(nth(i)) > 0
    BY <1>2
  <2> QED BY <2>1, <2>2, Zenon
<1>5. ASSUME IsInjective(dead), NEW i \in P PROVE times[dead[i]] = 0
  <2>1. i \in DOMAIN dead /\ Cardinality(nth(i)) > times[dead[i]]
    BY Zenon
  <2>2. Cardinality(nth(i)) = 1 /\ times[dead[i]] \in Nat
    BY <1>1, <1>2, <1>5, <2>1, Zenon
  <2> QED BY <2>1, <2>2
<1> HIDE DEF P
<1>6. /\ removeDead(times) \in Seq(Job)
      /\ Range(removeDead(times)) = {dead[i] : i \in P}
      /\ IsInjective(dead) => IsInjective(removeDead(times))
  <2>1. /\ Sublist(dead, P) \in Seq(Job)
        /\ Range(Sublist(dead, P)) = {dead[i] : i \in P}
        /\ IsInjective(dead) => IsInjective(Sublist(dead, P))
    BY <1>3, SublistFacts, Zenon
  <2> QED BY <1>3, <2>1, Zenon
<1>7. Range(removeDead(times)) \subseteq Range(dead)
  BY <1>3, <1>6, Zenon DEF Range
<1>8. \A j \in Range(dead) : times[j] = 0 => j \in Range(removeDead(times))
  BY <1>4, <1>6, Zenon DEF Range
<1>9. IsInjective(dead) => \A j \in Job : times[j] > 0 => j \notin Range(removeDead(times))
  <2> SUFFICES ASSUME IsInjective(dead), NEW i \in P, times[dead[i]] > 0 PROVE FALSE
    BY <1>6, Zenon
  <2> QED BY <1>5
<1> QED BY <1>6, <1>7, <1>8, <1>9, Zenon

-----------------------------------------------------------------------------
(* The pending lists.                                                      *)

\* Popping takes the head off a list that has one.
LEMMA PoppedFacts ==
  ASSUME pending \in [Queue -> Seq(Job)], NEW q \in Queue
  PROVE  /\ Popped(q) \in Seq(Job)
         /\ Range(Popped(q)) \subseteq Range(pending[q])
         /\ \A k \in Range(pending[q]) : k \notin Range(Popped(q)) =>
              pending[q] # <<>> /\ k = Head(pending[q])
         /\ IsInjective(pending[q]) =>
              /\ IsInjective(Popped(q))
              /\ pending[q] # <<>> => Head(pending[q]) \notin Range(Popped(q))
<1>1. pending[q] \in Seq(Job)
  BY Zenon
<1>2. CASE pending[q] = <<>>
  <2>1. Popped(q) = pending[q]
    BY <1>2, Zenon DEF Popped
  <2> QED BY <1>1, <1>2, <2>1, Zenon
<1>3. CASE pending[q] # <<>>
  <2>1. Popped(q) = Tail(pending[q])
    BY <1>3, Zenon DEF Popped
  <2>2. /\ Tail(pending[q]) \in Seq(Job)
        /\ Range(Tail(pending[q])) \subseteq Range(pending[q])
        /\ \A x \in Range(pending[q]) : x # Head(pending[q]) => x \in Range(Tail(pending[q]))
        /\ IsInjective(pending[q]) =>
             IsInjective(Tail(pending[q])) /\ Head(pending[q]) \notin Range(Tail(pending[q]))
    BY <1>1, <1>3, TailFacts, Zenon
  <2> QED BY <1>3, <2>1, <2>2, Zenon
<1> QED BY <1>2, <1>3, Zenon

\* What a claim leaves of the lists.
LEMMA PopFacts ==
  ASSUME pending \in [Queue -> Seq(Job)], NEW Q,
         pending' = [q \in Queue |-> IF q \in Q THEN Popped(q) ELSE pending[q]]
  PROVE  /\ pending' \in [Queue -> Seq(Job)]
         /\ \A q \in Queue :
              /\ Range(pending'[q]) \subseteq Range(pending[q])
              /\ \A k \in Range(pending[q]) : k \notin Range(pending'[q]) =>
                   q \in Q /\ pending[q] # <<>> /\ k = Head(pending[q])
              /\ IsInjective(pending[q]) =>
                   /\ IsInjective(pending'[q])
                   /\ q \in Q /\ pending[q] # <<>> => Head(pending[q]) \notin Range(pending'[q])
<1>1. pending' \in [Queue -> Seq(Job)]
  BY PoppedFacts, Zenon
<1>2. ASSUME NEW q \in Queue, q \in Q PROVE pending'[q] = Popped(q)
  BY <1>2, Zenon
<1>3. ASSUME NEW q \in Queue, q \notin Q PROVE pending'[q] = pending[q]
  BY <1>3, Zenon
<1> QED BY <1>1, <1>2, <1>3, PoppedFacts, Zenon

\* What pushing the list s, each ID onto its own queue, does to the lists.
Pushed(s) ==
  /\ pending' \in [Queue -> Seq(Job)]
  /\ \A q \in Queue, k \in Job :
       k \in Range(pending'[q]) <=> k \in Range(pending[q]) \/ (k \in Range(s) /\ queue[k] = q)
  /\ \A q \in Queue :
       IsInjective(s) /\ IsInjective(pending[q]) /\ Range(s) \cap Range(pending[q]) = {} =>
         IsInjective(pending'[q])

\* Promote, Reap and RetryDead push IDs that way.
LEMMA PushFacts ==
  ASSUME Counting, pending \in [Queue -> Seq(Job)], NEW s \in Seq(Job),
         \/ pending' = [q \in Queue |-> Only(s, ofQueue(q)) \o pending[q]]
         \/ pending' = [q \in Queue |-> pending[q] \o Only(s, ofQueue(q))]
  PROVE  Pushed(s)
<1>1. ASSUME NEW q \in Queue
      PROVE  /\ Only(s, ofQueue(q)) \in Seq(Job)
             /\ Range(Only(s, ofQueue(q))) = Range(s) \cap ofQueue(q)
             /\ IsInjective(s) => IsInjective(Only(s, ofQueue(q)))
  BY OnlyFacts, Zenon
<1>2. ASSUME NEW q \in Queue
      PROVE  /\ pending'[q] \in Seq(Job)
             /\ Range(pending'[q]) = Range(pending[q]) \cup (Range(s) \cap ofQueue(q))
             /\ IsInjective(s) /\ IsInjective(pending[q]) /\ Range(s) \cap Range(pending[q]) = {} =>
                  IsInjective(pending'[q])
  <2> DEFINE t == Only(s, ofQueue(q))
  <2>1. /\ pending[q] \in Seq(Job) /\ t \in Seq(Job)
        /\ Range(t) = Range(s) \cap ofQueue(q) /\ (IsInjective(s) => IsInjective(t))
    BY <1>1, Zenon
  <2>2. pending'[q] = t \o pending[q] \/ pending'[q] = pending[q] \o t
    BY Zenon
  <2> HIDE DEF t
  <2>3. Range(s) \cap Range(pending[q]) = {} =>
          Range(t) \cap Range(pending[q]) = {} /\ Range(pending[q]) \cap Range(t) = {}
    BY <2>1, Zenon
  <2>4. CASE pending'[q] = t \o pending[q]
    <3>1. /\ t \o pending[q] \in Seq(Job)
          /\ Range(t \o pending[q]) = Range(t) \cup Range(pending[q])
          /\ IsInjective(t) /\ IsInjective(pending[q]) /\ Range(t) \cap Range(pending[q]) = {}
               => IsInjective(t \o pending[q])
      BY <2>1, ConcatFacts, Zenon
    <3> QED BY <2>1, <2>3, <2>4, <3>1, Zenon
  <2>5. CASE pending'[q] = pending[q] \o t
    <3>1. /\ pending[q] \o t \in Seq(Job)
          /\ Range(pending[q] \o t) = Range(pending[q]) \cup Range(t)
          /\ IsInjective(pending[q]) /\ IsInjective(t) /\ Range(pending[q]) \cap Range(t) = {}
               => IsInjective(pending[q] \o t)
      BY <2>1, ConcatFacts, Zenon
    <3> QED BY <2>1, <2>3, <2>5, <3>1, Zenon
  <2> QED BY <2>2, <2>4, <2>5, Zenon
<1>3. \E f : pending' = [q \in Queue |-> f[q]]
  <2>1. CASE pending' = [q \in Queue |-> Only(s, ofQueue(q)) \o pending[q]]
    BY <2>1, Zenon
  <2>2. CASE pending' = [q \in Queue |-> pending[q] \o Only(s, ofQueue(q))]
    BY <2>2, Zenon
  <2> QED BY <2>1, <2>2, Zenon
<1>4. pending' \in [Queue -> Seq(Job)]
  BY <1>2, <1>3, Zenon
<1> QED BY <1>2, <1>4, Zenon DEF Pushed, ofQueue

\* A listing of jobs in the order of their times.
LEMMA SortedFacts ==
  ASSUME Counting, NEW z, NEW S \in SUBSET Job, NEW s \in Ascending(z, S) \cup Descending(z, S)
  PROVE  s \in Seq(Job) /\ Range(s) = S /\ IsInjective(s)
<1>1. Cardinality(S) \in Nat
  BY MemoryAssumption, Zenon DEF Counting
<1>2. s \in Bijection(1..Cardinality(S), S)
  BY Zenon DEF Ascending, Descending
<1> QED BY <1>1, <1>2, ListingFacts, Zenon

\* A scan processes due members only.
LEMMA ScanFacts ==
  ASSUME NEW z, NEW n
  PROVE  Batch(z, n) \in SUBSET Job /\ \A j \in Batch(z, n) : z[j] # NoScore /\ z[j] <= now
BY Zenon DEF Batch, Due

-----------------------------------------------------------------------------
(* Every operation preserves the invariant.                                *)

\* Only Enqueue touches keys and windows.
LEMMA KeysKept ==
  ASSUME MInv, UNCHANGED <<unique, window>>, now' \in {now, now + 1},
         \A j \in Job : state'[j] = "none" => state[j] = "none"
  PROVE  Keys' /\ UniqueWindow'
<1>1. RestTypes /\ Keys /\ UniqueWindow
  BY Zenon DEF MInv
<1>2. UniqueWindow'
  BY <1>1, Zenon DEF UniqueWindow
<1>3. \A j \in Job : window[j].from \in Nat /\ now \in Nat
  BY <1>1, Zenon DEF RestTypes
<1>4. \A j \in Job : window[j].from <= now => window[j].from <= now'
  BY <1>3
<1>5. Keys'
  BY <1>1, <1>4, Zenon DEF Keys
<1> QED BY <1>2, <1>5, Zenon

\* Enqueue stores a new job where its run time says.
LEMMA EnqueueInv ==
  ASSUME MInv, NEW j \in Job, NEW q \in Queue, NEW max \in Budgets, NEW runAt \in 0..MaxTime,
         NEW key \in Key, NEW ttl \in UniqueTTLs, Enqueue(j, q, max, runAt, key, ttl)
  PROVE  MInv'
<1>1. /\ JobTypes /\ ListTypes /\ RestTypes /\ Queued /\ NothingLost
      /\ ~ repeated => Tidy
      /\ Keys /\ UniqueWindow
  BY Zenon DEF MInv
<1>2. /\ state[j] = "none" /\ TakeUnique(j, key, ttl)
      /\ queue' = [queue EXCEPT ![j] = q]
      /\ maxAttempts' = [maxAttempts EXCEPT ![j] = max]
      /\ UNCHANGED <<owner, attempt, recoveries, deadline, active, retry, dead, repeated, now>>
  BY Zenon DEF Enqueue, mode
<1>3. now \in Nat /\ runAt \in Nat /\ ttl \in Nat /\ max \in Nat
  BY <1>1, MemoryAssumption DEF RestTypes
<1>4. PICK to \in {"scheduled", "pending"} :
        /\ state' = [state EXCEPT ![j] = to]
        /\ to = "scheduled" => scheduled' = [scheduled EXCEPT ![j] = runAt] /\ UNCHANGED pending
        /\ to = "pending" => pending' = [pending EXCEPT ![q] = Append(@, j)] /\ UNCHANGED scheduled
  BY Zenon DEF Enqueue
<1>5. \A k \in Job : /\ state'[k] = IF k = j THEN to ELSE state[k]
                     /\ queue'[k] = IF k = j THEN q ELSE queue[k]
  BY <1>1, <1>2, <1>4, Zenon DEF JobTypes
<1>6. JobTypes'
  <2>1. state' \in [Job -> States] /\ queue' \in [Job -> Queue \cup {NoQueue}]
    BY <1>1, <1>2, <1>4, Zenon DEF JobTypes, States
  <2>2. maxAttempts' \in [Job -> Nat]
    BY <1>1, <1>2, <1>3, Zenon DEF JobTypes
  <2> QED BY <1>1, <1>2, <2>1, <2>2, Zenon DEF JobTypes
<1>7. /\ scheduled' \in ZSet
      /\ \A k \in Job : scheduled'[k] = IF k = j /\ to = "scheduled" THEN runAt ELSE scheduled[k]
  BY <1>1, <1>3, <1>4, Zenon DEF ListTypes, ZSet
<1>8. /\ pending' \in [Queue -> Seq(Job)]
      /\ \A x \in Queue, k \in Job :
           k \in Range(pending'[x]) <=> k \in Range(pending[x]) \/ (k = j /\ x = q /\ to = "pending")
      /\ \A x \in Queue : IsInjective(pending[x]) /\ j \notin Range(pending[x]) =>
           IsInjective(pending'[x])
  <2>1. pending \in [Queue -> Seq(Job)]
    BY <1>1, Zenon DEF ListTypes
  <2>2. CASE to = "scheduled"
    BY <1>4, <2>1, <2>2, Zenon
  <2>3. CASE to = "pending"
    <3>1. pending' = [pending EXCEPT ![q] = Append(@, j)]
      BY <1>4, <2>3, Zenon
    <3>2. pending[q] \in Seq(Job)
      BY <2>1, Zenon
    <3>3. /\ Append(pending[q], j) \in Seq(Job)
          /\ Range(Append(pending[q], j)) = Range(pending[q]) \cup {j}
          /\ IsInjective(pending[q]) /\ j \notin Range(pending[q]) =>
               IsInjective(Append(pending[q], j))
      BY <3>2, AppendFacts, Zenon
    <3>4. \A x \in Queue : pending'[x] = IF x = q THEN Append(pending[q], j) ELSE pending[x]
      BY <2>1, <3>1, Zenon
    <3>5. pending' \in [Queue -> Seq(Job)]
      BY <2>1, <3>1, <3>3, Zenon
    <3> QED BY <2>3, <3>3, <3>4, <3>5, Zenon
  <2> QED BY <2>2, <2>3, Zenon
<1>9. ListTypes'
  BY <1>1, <1>2, <1>7, <1>8, Zenon DEF ListTypes
<1>10. Queued'
  BY <1>1, <1>5, Zenon DEF Queued, Exists
<1>11. NothingLost'
  <2> SUFFICES ASSUME NEW k \in Job PROVE Found(k)'
    BY Zenon DEF NothingLost
  <2>1. Found(k) /\ (k # j /\ state[k] = "pending" => queue[k] \in Queue)
    BY <1>1, Zenon DEF NothingLost, Queued, Exists
  <2>2. CASE k = j
    <3>1. scheduled'[k] # NoScore \/ to = "pending"
      BY <1>3, <1>4, <1>7, <2>2 DEF NoScore
    <3> QED BY <1>4, <1>5, <1>8, <2>2, <3>1, Zenon DEF Found
  <2>3. CASE k # j
    BY <1>2, <1>5, <1>7, <1>8, <2>1, <2>3, Zenon DEF Found
  <2> QED BY <2>2, <2>3, Zenon
<1>12. ~ repeated' => Tidy'
  <2> SUFFICES ASSUME ~ repeated PROVE Tidy'
    BY <1>2, Zenon
  <2>1. /\ \A k \in Job : Placed(k)
        /\ IsInjective(dead) /\ \A x \in Queue : IsInjective(pending[x])
    BY <1>1, Zenon DEF Tidy
  <2>2. \A x \in Queue : j \notin Range(pending[x])
    BY <1>2, <2>1, Zenon DEF Placed
  <2>3. ASSUME NEW k \in Job PROVE Placed(k)'
    <3>1. Placed(k)
      BY <2>1, Zenon
    <3>2. CASE k = j
      <4>1. /\ active[j] = NoScore /\ scheduled[j] = NoScore /\ retry[j] = NoScore
            /\ j \notin Range(dead) /\ owner[j] = NoOwner
        BY <1>2, <3>1, <3>2, Zenon DEF Placed
      <4> QED BY <1>2, <1>4, <1>5, <1>7, <1>8, <2>2, <3>2, <4>1, Zenon DEF Placed
    <3>3. CASE k # j
      BY <1>2, <1>5, <1>7, <1>8, <3>1, <3>3, Zenon DEF Placed
    <3> QED BY <3>2, <3>3, Zenon
  <2> QED BY <1>2, <1>8, <2>1, <2>2, <2>3, Zenon DEF Tidy
<1>13. RestTypes' /\ Keys' /\ UniqueWindow'
  <2>1. CASE ttl = 0 /\ UNCHANGED <<unique, window>>
    <3>1. \A k \in Job : state'[k] = "none" => state[k] = "none"
      BY <1>2, <1>5, Zenon
    <3> QED BY <1>1, <1>2, <2>1, <3>1, KeysKept, Zenon DEF RestTypes
  <2>2. CASE /\ unique[key] <= now
             /\ unique' = [unique EXCEPT ![key] = now + ttl]
             /\ window' = [window EXCEPT ![j] = [key |-> key, from |-> now, until |-> now + ttl]]
    <3>1. /\ \A k \in Job : window'[k] = IF k = j
               THEN [key |-> key, from |-> now, until |-> now + ttl] ELSE window[k]
          /\ \A x \in Key : unique'[x] = IF x = key THEN now + ttl ELSE unique[x]
      BY <1>1, <2>2, Zenon DEF RestTypes
    <3>2. /\ window'[j].key = key /\ window'[j].from = now /\ window'[j].until = now + ttl
      BY <3>1
    <3>3. RestTypes'
      BY <1>1, <1>2, <1>3, <2>2, SMTT(30) DEF RestTypes
    <3>4. \A k \in Job : /\ window[k].key \in Key \cup {NoKey}
                         /\ window[k].from \in Nat /\ window[k].until \in Nat
      BY <1>1, Zenon DEF RestTypes
    <3>5. Keys'
      <4> SUFFICES ASSUME NEW k \in Job
                   PROVE  /\ state'[k] = "none" => window'[k].key = NoKey
                          /\ window'[k].key # NoKey =>
                               /\ window'[k].from <= now
                               /\ window'[k].until <= unique'[window'[k].key]
        BY <1>2, Zenon DEF Keys
      <4>1. CASE k = j
        <5>1. state'[k] # "none"
          BY <1>4, <1>5, <4>1, Zenon
        <5>2. window'[k].from <= now /\ window'[k].until <= unique'[window'[k].key]
          BY <1>3, <3>1, <3>2, <4>1
        <5> QED BY <5>1, <5>2, Zenon
      <4>2. CASE k # j
        <5>1. window'[k] = window[k] /\ state'[k] = state[k]
          BY <1>5, <3>1, <4>2, Zenon
        <5>2. /\ state[k] = "none" => window[k].key = NoKey
              /\ window[k].key # NoKey =>
                   window[k].from <= now /\ window[k].until <= unique[window[k].key]
          BY <1>1, Zenon DEF Keys
        <5>3. window[k].key # NoKey => window[k].until <= unique'[window[k].key]
          <6>1. unique[key] \in Nat /\ (window[k].key # NoKey => window[k].key \in Key)
            BY <1>1, <3>4, Zenon DEF RestTypes
          <6>2. CASE window[k].key = key
            <7>1. unique'[window[k].key] = now + ttl /\ window[k].until <= unique[key]
              BY <3>1, <5>2, <6>2, MemoryAssumption, Zenon
            <7> QED BY <1>3, <2>2, <3>4, <6>1, <7>1
          <6>3. CASE window[k].key # key
            BY <3>1, <5>2, <6>1, <6>3, Zenon
          <6> QED BY <6>2, <6>3, Zenon
        <5> QED BY <5>1, <5>2, <5>3, Zenon
      <4> QED BY <4>1, <4>2, Zenon
    <3>6. UniqueWindow'
      <4>1. \A k \in Job : k # j /\ window[k].key = key => window[k].until <= now
        <5> SUFFICES ASSUME NEW k \in Job, window[k].key = key PROVE window[k].until <= now
          BY Zenon
        <5>1. key # NoKey
          BY MemoryAssumption, Zenon
        <5>2. window[k].until <= unique[key]
          BY <1>1, <5>1, Zenon DEF Keys
        <5>3. unique[key] \in Nat
          BY <1>1, Zenon DEF RestTypes
        <5> QED BY <1>3, <2>2, <3>4, <5>2, <5>3
      <4> SUFFICES ASSUME NEW i \in Job, NEW k \in Job, i # k,
                          window'[i].key = window'[k].key, window'[i].key # NoKey
                   PROVE  window'[i].until <= window'[k].from \/ window'[k].until <= window'[i].from
        BY Zenon DEF UniqueWindow
      <4>2. CASE i = j
        BY <3>1, <3>2, <4>1, <4>2, Zenon
      <4>3. CASE k = j
        BY <3>1, <3>2, <4>1, <4>3, Zenon
      <4>4. CASE i # j /\ k # j
        <5>1. window'[i] = window[i] /\ window'[k] = window[k]
          BY <3>1, <4>4, Zenon
        <5> QED BY <1>1, <5>1, Zenon DEF UniqueWindow
      <4> QED BY <4>2, <4>3, <4>4, Zenon
    <3> QED BY <3>3, <3>5, <3>6, Zenon
  <2> QED BY <1>2, <2>1, <2>2, Zenon DEF TakeUnique
<1> QED BY <1>6, <1>9, <1>10, <1>11, <1>12, <1>13, Zenon DEF MInv

\* The queues a worker asks for are queues.
LEMMA OrderFacts ==
  ASSUME NEW order \in Orders
  PROVE  \A p \in DOMAIN order : order[p] \in Queue
<1>1. PICK Q \in SUBSET Queue : order \in Bijection(1..Cardinality(Q), Q)
  BY Zenon DEF Orders
<1>2. order \in [1..Cardinality(Q) -> Q]
  BY <1>1, Zenon DEF Bijection, Injection
<1> QED BY <1>2, Zenon

\* Job j is claimed at the head of queue q; the queues in Q are popped.
ClaimOf(w, q, Q, j, vt) ==
  /\ j = Head(pending[q]) /\ pending[q] # <<>> /\ Exists(j) /\ q \in Q
  /\ \A x \in Q : x # q => Barren(x)
  /\ pending' = [x \in Queue |-> IF x \in Q THEN Popped(x) ELSE pending[x]]
  /\ state' = [state EXCEPT ![j] = "active"]
  /\ owner' = [owner EXCEPT ![j] = w]
  /\ attempt' = [attempt EXCEPT ![j] = @ + 1]
  /\ deadline' = [deadline EXCEPT ![j] = now + vt]
  /\ active' = [active EXCEPT ![j] = now + vt]
  /\ UNCHANGED <<maxAttempts, queue, recoveries, scheduled, retry, dead, unique,
                 window, repeated, now>>

\* A claim is the claim of a job.
LEMMA ClaimFacts ==
  ASSUME pending \in [Queue -> Seq(Job)], NEW w, NEW order \in Orders, NEW vt,
         Dequeue(w, order, vt)
  PROVE  \E q \in Queue, Q \in SUBSET Queue, j \in Job :
           ClaimOf(w, q, Q, j, vt)
<1>1. PICK p \in DOMAIN order :
        /\ \A x \in {order[i] : i \in 1..(p - 1)} : Barren(x)
        /\ ~ Barren(order[p]) /\ pending[order[p]] # <<>>
        /\ pending' = [x \in Queue |->
                         IF x \in {order[i] : i \in 1..(p - 1)} \cup {order[p]} THEN Popped(x)
                         ELSE pending[x]]
        /\ state' = [state EXCEPT ![Head(pending[order[p]])] = "active"]
        /\ owner' = [owner EXCEPT ![Head(pending[order[p]])] = w]
        /\ attempt' = [attempt EXCEPT ![Head(pending[order[p]])] = @ + 1]
        /\ deadline' = [deadline EXCEPT ![Head(pending[order[p]])] = now + vt]
        /\ active' = [active EXCEPT ![Head(pending[order[p]])] = now + vt]
        /\ UNCHANGED <<maxAttempts, queue, recoveries, scheduled, retry, dead, unique,
                       window, repeated, now>>
  BY Zenon DEF Dequeue, mode
<1> DEFINE q == order[p]
           Q == ({order[i] : i \in 1..(p - 1)} \cup {order[p]}) \cap Queue
<1>2. q \in Queue /\ q \in Q /\ Q \in SUBSET Queue /\ \A x \in Q : x # q => Barren(x)
  BY <1>1, OrderFacts, Zenon
<1>3. Exists(Head(pending[q]))
  BY <1>1, Zenon DEF Barren
<1>4. pending' = [x \in Queue |-> IF x \in Q THEN Popped(x) ELSE pending[x]]
  BY <1>1, Zenon
<1>5. Head(pending[q]) \in Job
  BY <1>1, <1>2, TailFacts, Zenon
<1>6. PICK x \in Queue, X \in SUBSET Queue, j \in Job : x = q /\ X = Q /\ j = Head(pending[q])
  BY <1>2, <1>5, Zenon
<1>7. /\ state' = [state EXCEPT ![j] = "active"]
      /\ owner' = [owner EXCEPT ![j] = w]
      /\ attempt' = [attempt EXCEPT ![j] = @ + 1]
      /\ deadline' = [deadline EXCEPT ![j] = now + vt]
      /\ active' = [active EXCEPT ![j] = now + vt]
  BY <1>1, <1>6, Zenon
<1>8. pending[q] # <<>> /\ UNCHANGED <<maxAttempts, queue, recoveries, scheduled, retry, dead,
                                       unique, window, repeated, now>>
  BY <1>1, Zenon
<1> HIDE DEF q, Q
<1> WITNESS x \in Queue, X \in SUBSET Queue, j \in Job
<1> QED BY <1>2, <1>3, <1>4, <1>6, <1>7, <1>8, Zenon DEF ClaimOf

\* Dequeue moves the head of a queue into the lease map.
LEMMA DequeueInv ==
  ASSUME MInv, NEW w \in Worker, NEW order \in Orders, NEW vt \in VisibilityTimeouts,
         Dequeue(w, order, vt)
  PROVE  MInv'
<1>0. PICK q \in Queue, Q \in SUBSET Queue, j \in Job : ClaimOf(w, q, Q, j, vt)
  <2>1. pending \in [Queue -> Seq(Job)]
    BY Zenon DEF MInv, ListTypes
  <2> QED BY <2>1, ClaimFacts, Zenon
<1>1. /\ j = Head(pending[q]) /\ pending[q] # <<>> /\ Exists(j) /\ q \in Q
      /\ \A x \in Q : x # q => Barren(x)
      /\ pending' = [x \in Queue |-> IF x \in Q THEN Popped(x) ELSE pending[x]]
      /\ state' = [state EXCEPT ![j] = "active"]
      /\ owner' = [owner EXCEPT ![j] = w]
      /\ attempt' = [attempt EXCEPT ![j] = @ + 1]
      /\ deadline' = [deadline EXCEPT ![j] = now + vt]
      /\ active' = [active EXCEPT ![j] = now + vt]
      /\ UNCHANGED <<maxAttempts, queue, recoveries, scheduled, retry, dead, unique,
                     window, repeated, now>>
  BY <1>0, Zenon DEF ClaimOf
<1>2. /\ JobTypes /\ ListTypes /\ RestTypes /\ Queued /\ NothingLost
      /\ ~ repeated => Tidy
  BY Zenon DEF MInv
<1>3. now \in Nat /\ vt \in Nat /\ now + vt \in Nat
  BY <1>2, MemoryAssumption DEF RestTypes
<1>4. pending \in [Queue -> Seq(Job)] /\ pending[q] \in Seq(Job)
  BY <1>2, Zenon DEF ListTypes
<1>5. j \in Range(pending[q])
  BY <1>1, <1>4, TailFacts, Zenon
<1>6. /\ pending' \in [Queue -> Seq(Job)]
      /\ \A x \in Queue :
           /\ Range(pending'[x]) \subseteq Range(pending[x])
           /\ \A k \in Range(pending[x]) : k \notin Range(pending'[x]) =>
                x \in Q /\ pending[x] # <<>> /\ k = Head(pending[x])
           /\ IsInjective(pending[x]) =>
                /\ IsInjective(pending'[x])
                /\ x \in Q /\ pending[x] # <<>> => Head(pending[x]) \notin Range(pending'[x])
  BY <1>1, <1>4, PopFacts, Zenon
<1>7. \A k \in Job : /\ state'[k] = IF k = j THEN "active" ELSE state[k]
                     /\ owner'[k] = IF k = j THEN w ELSE owner[k]
                     /\ deadline'[k] = IF k = j THEN now + vt ELSE deadline[k]
                     /\ active'[k] = IF k = j THEN now + vt ELSE active[k]
  BY <1>1, <1>2, Zenon DEF JobTypes, ListTypes, ZSet
<1>8. JobTypes'
  <2>1. attempt' \in [Job -> Nat]
    BY <1>1, <1>2 DEF JobTypes
  <2>2. state' \in [Job -> States] /\ owner' \in [Job -> Worker \cup {NoOwner}]
    BY <1>1, <1>2, Zenon DEF JobTypes, States
  <2>3. deadline' \in [Job -> Nat]
    BY <1>1, <1>2, <1>3, Zenon DEF JobTypes
  <2> QED BY <1>1, <1>2, <2>1, <2>2, <2>3, ZenonT(30) DEF JobTypes
<1>9. ListTypes'
  <2>1. active' \in ZSet
    BY <1>1, <1>2, <1>3, Zenon DEF ListTypes, ZSet
  <2> QED BY <1>1, <1>2, <1>6, <2>1, Zenon DEF ListTypes
<1>10. RestTypes' /\ Keys' /\ UniqueWindow'
  <2>1. \A k \in Job : state'[k] = "none" => state[k] = "none"
    BY <1>7, Zenon
  <2> QED BY <1>1, <1>2, <2>1, KeysKept, Zenon DEF RestTypes
<1>11. Queued'
  BY <1>1, <1>2, <1>7, Zenon DEF Queued, Exists
<1>12. NothingLost'
  <2> SUFFICES ASSUME NEW k \in Job PROVE Found(k)'
    BY Zenon DEF NothingLost
  <2>1. Found(k) /\ (state[k] = "pending" => queue[k] \in Queue /\ Exists(k))
    BY <1>2, Zenon DEF NothingLost, Queued, Exists
  <2>2. CASE k = j
    <3>1. state'[k] = "active" /\ active'[k] # NoScore
      BY <1>3, <1>7, <2>2 DEF NoScore
    <3> QED BY <3>1, Zenon DEF Found
  <2>3. CASE k # j
    <3>1. state[k] = "pending" => k \in Range(pending'[queue[k]])
      <4> SUFFICES ASSUME state[k] = "pending", k \notin Range(pending'[queue[k]]) PROVE FALSE
        BY Zenon
      <4>1. queue[k] \in Queue /\ Exists(k) /\ k \in Range(pending[queue[k]])
        BY <2>1, Zenon DEF Found
      <4>2. queue[k] \in Q /\ pending[queue[k]] # <<>> /\ k = Head(pending[queue[k]])
        BY <1>6, <4>1, Zenon
      <4>3. Barren(queue[k])
        BY <1>1, <2>3, <4>2, Zenon
      <4> QED BY <4>1, <4>2, <4>3, Zenon DEF Barren
    <3> QED BY <1>1, <1>7, <2>1, <2>3, <3>1, Zenon DEF Found
  <2> QED BY <2>2, <2>3, Zenon
<1>13. ~ repeated' => Tidy'
  <2> SUFFICES ASSUME ~ repeated PROVE Tidy'
    BY <1>1, Zenon
  <2>1. /\ \A k \in Job : Placed(k)
        /\ IsInjective(dead) /\ \A x \in Queue : IsInjective(pending[x])
    BY <1>2, Zenon DEF Tidy
  <2>2. ASSUME NEW k \in Job PROVE Placed(k)'
    <3>1. Placed(k)
      BY <2>1, Zenon
    <3>2. CASE k = j
      <4>1. /\ scheduled[j] = NoScore /\ retry[j] = NoScore /\ j \notin Range(dead)
            /\ queue[j] = q
        BY <1>5, <3>1, <3>2, Zenon DEF Placed
      <4>2. \A x \in Queue : j \notin Range(pending'[x])
        <5>1. j \notin Range(pending'[q])
          BY <1>1, <1>6, <2>1, Zenon
        <5>2. ASSUME NEW x \in Queue, j \in Range(pending'[x]) PROVE x = q
          <6>1. j \in Range(pending[x])
            BY <1>6, <5>2, Zenon
          <6> QED BY <3>1, <3>2, <4>1, <6>1, Zenon DEF Placed
        <5> QED BY <5>1, <5>2, Zenon
      <4> QED BY <1>1, <1>7, <3>2, <4>1, <4>2, ZenonT(30) DEF Placed
    <3>3. CASE k # j
      <4>1. /\ state'[k] = state[k] /\ owner'[k] = owner[k] /\ deadline'[k] = deadline[k]
            /\ active'[k] = active[k] /\ UNCHANGED <<queue, scheduled, retry, dead>>
        BY <1>1, <1>7, <3>3, Zenon
      <4>2. \A x \in Queue : k \in Range(pending'[x]) => k \in Range(pending[x])
        BY <1>6, Zenon
      <4> QED BY <3>1, <4>1, <4>2, Zenon DEF Placed
    <3> QED BY <3>2, <3>3, Zenon
  <2> QED BY <1>1, <1>6, <2>1, <2>2, Zenon DEF Tidy
<1> QED BY <1>8, <1>9, <1>10, <1>11, <1>12, <1>13, Zenon DEF MInv

\* A claim that finds nothing drops dangling IDs only.
LEMMA DequeueNoneInv ==
  ASSUME MInv, NEW order \in Orders, DequeueNone(order)
  PROVE  MInv'
<1>1. /\ \A q \in Range(order) : Barren(q)
      /\ pending' = [q \in Queue |-> IF q \in Range(order) THEN Popped(q) ELSE pending[q]]
      /\ UNCHANGED <<state, owner, attempt, maxAttempts, queue, recoveries, deadline, active,
                     scheduled, retry, dead, unique, window, repeated, now>>
  BY Zenon DEF DequeueNone, jobs, mode
<1>2. /\ JobTypes /\ ListTypes /\ RestTypes /\ Queued /\ NothingLost
      /\ ~ repeated => Tidy
  BY Zenon DEF MInv
<1>3. /\ pending' \in [Queue -> Seq(Job)]
      /\ \A x \in Queue :
           /\ Range(pending'[x]) \subseteq Range(pending[x])
           /\ \A k \in Range(pending[x]) : k \notin Range(pending'[x]) =>
                x \in Range(order) /\ pending[x] # <<>> /\ k = Head(pending[x])
           /\ IsInjective(pending[x]) => IsInjective(pending'[x])
  BY <1>1, <1>2, PopFacts, Zenon DEF ListTypes
<1>4. JobTypes' /\ ListTypes' /\ RestTypes' /\ Queued'
  BY <1>1, <1>2, <1>3, Zenon DEF JobTypes, ListTypes, RestTypes, Queued, Exists
<1>5. NothingLost'
  <2> SUFFICES ASSUME NEW k \in Job PROVE Found(k)'
    BY Zenon DEF NothingLost
  <2>1. Found(k) /\ (state[k] = "pending" => queue[k] \in Queue /\ Exists(k))
    BY <1>2, Zenon DEF NothingLost, Queued, Exists
  <2>2. state[k] = "pending" => k \in Range(pending'[queue[k]])
    <3> SUFFICES ASSUME state[k] = "pending", k \notin Range(pending'[queue[k]]) PROVE FALSE
      BY Zenon
    <3>1. queue[k] \in Queue /\ Exists(k) /\ k \in Range(pending[queue[k]])
      BY <2>1, Zenon DEF Found
    <3>2. queue[k] \in Range(order) /\ pending[queue[k]] # <<>> /\ k = Head(pending[queue[k]])
      BY <1>3, <3>1, Zenon
    <3> QED BY <1>1, <3>1, <3>2, Zenon DEF Barren
  <2> QED BY <1>1, <2>1, <2>2, Zenon DEF Found
<1>6. ~ repeated' => Tidy'
  <2> SUFFICES ASSUME ~ repeated PROVE Tidy'
    BY <1>1, Zenon
  <2>1. ASSUME NEW k \in Job PROVE Placed(k)'
    <3>1. Placed(k) /\ \A x \in Queue : k \in Range(pending'[x]) => k \in Range(pending[x])
      BY <1>2, <1>3, Zenon DEF Tidy
    <3> QED BY <1>1, <3>1, Zenon DEF Placed
  <2> QED BY <1>1, <1>2, <1>3, <2>1, Zenon DEF Tidy
<1>7. Keys' /\ UniqueWindow'
  BY <1>1, KeysKept, Zenon
<1> QED BY <1>4, <1>5, <1>6, <1>7, Zenon DEF MInv

\* Closing the broker and the passage of time change nothing else.
LEMMA QuietInv ==
  ASSUME MInv, UNCHANGED <<jobs, pending, active, scheduled, retry, dead, unique, window, repeated>>,
         now' \in {now, now + 1}
  PROVE  MInv'
<1>1. UNCHANGED <<state, owner, attempt, maxAttempts, queue, recoveries, deadline, pending,
                  active, scheduled, retry, dead, unique, window, repeated>>
  BY Zenon DEF jobs
<1>2. /\ JobTypes /\ ListTypes /\ RestTypes /\ Queued /\ NothingLost
      /\ ~ repeated => Tidy
  BY Zenon DEF MInv
<1>3. JobTypes' /\ ListTypes' /\ Queued'
  BY <1>1, <1>2, Zenon DEF JobTypes, ListTypes, Queued, Exists
<1>4. RestTypes'
  <2>1. now' \in Nat
    BY <1>2 DEF RestTypes
  <2> QED BY <1>1, <1>2, <2>1, Zenon DEF RestTypes
<1>5. NothingLost'
  BY <1>1, <1>2, Zenon DEF NothingLost, Found
<1>6. ~ repeated' => Tidy'
  <2>1. \A k \in Job : Placed(k) => Placed(k)'
    BY <1>1, Zenon DEF Placed
  <2>2. repeated' = repeated
    BY <1>1, Zenon
  <2>3. ~ repeated' => ~ repeated
    BY <2>2
  <2> SUFFICES ASSUME ~ repeated PROVE Tidy'
    BY <2>3, Zenon
  <2>4. /\ \A k \in Job : Placed(k)
        /\ IsInjective(dead) /\ \A q \in Queue : IsInjective(pending[q])
    BY <1>2, Zenon DEF Tidy
  <2>5. dead' = dead /\ pending' = pending
    BY <1>1, Zenon
  <2>6. IsInjective(dead') /\ \A q \in Queue : IsInjective(pending'[q])
    BY <2>4, <2>5, Zenon
  <2> QED BY <2>1, <2>4, <2>6, Zenon DEF Tidy
<1>7. Keys' /\ UniqueWindow'
  BY <1>1, KeysKept, Zenon
<1> QED BY <1>3, <1>4, <1>5, <1>6, <1>7, Zenon DEF MInv

\* A renewal writes the same deadline on the job and in the map of leases.
LEMMA ExtendInv ==
  ASSUME MInv, NEW w \in Worker, NEW ids \in SUBSET Job, NEW vt \in VisibilityTimeouts,
         Extend(w, ids, vt)
  PROVE  MInv'
<1> DEFINE held == {j \in ids : ownedActive(w, j)}
<1>1. /\ deadline' = [j \in Job |-> IF j \in held THEN now + vt ELSE deadline[j]]
      /\ active' = [j \in Job |-> IF j \in held THEN now + vt ELSE active[j]]
      /\ UNCHANGED <<state, owner, attempt, maxAttempts, queue, recoveries, pending,
                     scheduled, retry, dead, unique, window, repeated, now>>
  BY Zenon DEF Extend, mode
<1>2. /\ JobTypes /\ ListTypes /\ RestTypes /\ Queued /\ NothingLost
      /\ ~ repeated => Tidy
  BY Zenon DEF MInv
<1>3. \A j \in held : state[j] = "active"
  BY Zenon DEF ownedActive
<1> HIDE DEF held
<1>4. now \in Nat /\ vt \in Nat /\ now + vt \in Nat /\ now + vt # NoScore
  BY <1>2, MemoryAssumption DEF RestTypes, NoScore
<1>5. \A j \in Job : /\ deadline'[j] = IF j \in held THEN now + vt ELSE deadline[j]
                     /\ active'[j] = IF j \in held THEN now + vt ELSE active[j]
  BY <1>1, Zenon
<1>6. deadline' \in [Job -> Nat] /\ active' \in ZSet
  BY <1>1, <1>2, <1>4, Zenon DEF JobTypes, ListTypes, ZSet
<1>7. JobTypes' /\ ListTypes' /\ RestTypes' /\ Queued'
  BY <1>1, <1>2, <1>6, Zenon DEF JobTypes, ListTypes, RestTypes, Queued, Exists
<1>8. NothingLost'
  <2> SUFFICES ASSUME NEW k \in Job PROVE Found(k)'
    BY Zenon DEF NothingLost
  <2>1. Found(k) /\ (active[k] # NoScore => active'[k] # NoScore)
    BY <1>2, <1>4, <1>5, Zenon DEF NothingLost
  <2> QED BY <1>1, <2>1, Zenon DEF Found
<1>9. ~ repeated' => Tidy'
  <2> SUFFICES ASSUME ~ repeated PROVE Tidy'
    BY <1>1, Zenon
  <2>1. ASSUME NEW k \in Job PROVE Placed(k)'
    <3>1. Placed(k)
      BY <1>2, Zenon DEF Tidy
    <3>2. active'[k] # NoScore => state[k] = "active" /\ active'[k] = deadline'[k]
      BY <1>3, <1>5, <3>1, Zenon DEF Placed
    <3> QED BY <1>1, <3>1, <3>2, Zenon DEF Placed
  <2> QED BY <1>1, <1>2, <2>1, Zenon DEF Tidy
<1>10. Keys' /\ UniqueWindow'
  BY <1>1, KeysKept, Zenon
<1> QED BY <1>7, <1>8, <1>9, <1>10, Zenon DEF MInv

\* Whatever a fenced operation turns a leased job into, the invariant survives
\* if the retry map and the dead-letter list follow the new state.
LEMMA EndLeaseInv ==
  ASSUME MInv, NEW w \in Worker, NEW j \in Job, NEW to \in {"gone", "retry", "dead"},
         EndLease(w, j, to),
         retry' \in ZSet, \A k \in Job : k # j => retry'[k] = retry[k],
         to = "retry" => retry'[j] # NoScore, to # "retry" => retry'[j] = retry[j],
         dead' \in Seq(Job),
         \A k \in Job : k \in Range(dead') <=> k \in Range(dead) \/ (k = j /\ to = "dead"),
         IsInjective(dead) /\ j \notin Range(dead) => IsInjective(dead')
  PROVE  MInv'
<1>1. /\ state[j] = "active"
      /\ active' = ZRem(active, {j})
      /\ state' = [state EXCEPT ![j] = to]
      /\ owner' = [owner EXCEPT ![j] = NoOwner]
      /\ UNCHANGED <<attempt, maxAttempts, queue, recoveries, deadline, pending, scheduled,
                     unique, window, repeated, now>>
  BY Zenon DEF EndLease, ownedActive, mode
<1>2. /\ JobTypes /\ ListTypes /\ RestTypes /\ Queued /\ NothingLost
      /\ ~ repeated => Tidy
  BY Zenon DEF MInv
<1>3. \A k \in Job : /\ state'[k] = IF k = j THEN to ELSE state[k]
                     /\ owner'[k] = IF k = j THEN NoOwner ELSE owner[k]
                     /\ active'[k] = IF k = j THEN NoScore ELSE active[k]
  BY <1>1, <1>2, Zenon DEF JobTypes, ZRem
<1>4. JobTypes'
  <2>1. state' \in [Job -> States] /\ owner' \in [Job -> Worker \cup {NoOwner}]
    BY <1>1, <1>2, Zenon DEF JobTypes, States
  <2> QED BY <1>1, <1>2, <2>1, Zenon DEF JobTypes
<1>5. ListTypes'
  <2>1. active' \in ZSet
    BY <1>1, <1>2, Zenon DEF ListTypes, ZSet, ZRem
  <2> QED BY <1>1, <1>2, <2>1, Zenon DEF ListTypes
<1>6. RestTypes' /\ Keys' /\ UniqueWindow'
  <2>1. \A k \in Job : state'[k] = "none" => state[k] = "none"
    BY <1>3, Zenon
  <2> QED BY <1>1, <1>2, <2>1, KeysKept, Zenon DEF RestTypes
<1>7. Queued'
  BY <1>1, <1>2, <1>3, Zenon DEF Queued, Exists
<1>8. NothingLost'
  <2> SUFFICES ASSUME NEW k \in Job PROVE Found(k)'
    BY Zenon DEF NothingLost
  <2>1. Found(k)
    BY <1>2, Zenon DEF NothingLost
  <2>2. CASE k = j
    BY <1>3, <2>2, Zenon DEF Found
  <2>3. CASE k # j
    BY <1>1, <1>3, <2>1, <2>3, Zenon DEF Found
  <2> QED BY <2>2, <2>3, Zenon
<1>9. ~ repeated' => Tidy'
  <2> SUFFICES ASSUME ~ repeated PROVE Tidy'
    BY <1>1, Zenon
  <2>1. ASSUME NEW k \in Job PROVE Placed(k)'
    <3>1. Placed(k)
      BY <1>2, Zenon DEF Tidy
    <3>2. CASE k = j
      <4>1. /\ scheduled[j] = NoScore /\ retry[j] = NoScore /\ j \notin Range(dead)
            /\ \A q \in Queue : j \notin Range(pending[q])
        BY <1>1, <3>1, <3>2, Zenon DEF Placed
      <4> QED BY <1>1, <1>3, <3>2, <4>1, Zenon DEF Placed
    <3>3. CASE k # j
      BY <1>1, <1>3, <3>1, <3>3, Zenon DEF Placed
    <3> QED BY <3>2, <3>3, Zenon
  <2>2. IsInjective(dead')
    <3>1. j \notin Range(dead) /\ IsInjective(dead)
      BY <1>1, <1>2, Zenon DEF Tidy, Placed
    <3> QED BY <3>1, Zenon
  <2> QED BY <1>1, <1>2, <2>1, <2>2, Zenon DEF Tidy
<1> QED BY <1>4, <1>5, <1>6, <1>7, <1>8, <1>9, Zenon DEF MInv

\* A job that is dead-lettered joins the list.
LEMMA DeadLetterInv ==
  ASSUME MInv, NEW w \in Worker, NEW j \in Job, EndLease(w, j, "dead"), moveToDead(<<j>>),
         UNCHANGED retry
  PROVE  MInv'
<1>1. dead' = dead \o <<j>> /\ dead \in Seq(Job) /\ retry' \in ZSet
  BY Zenon DEF moveToDead, MInv, ListTypes
<1>2. <<j>> \in Seq(Job) /\ Range(<<j>>) = {j} /\ IsInjective(<<j>>)
  BY DEF Range, IsInjective
<1>3. /\ dead' \in Seq(Job) /\ Range(dead') = Range(dead) \cup {j}
      /\ IsInjective(dead) /\ Range(dead) \cap {j} = {} => IsInjective(dead')
  <2>1. /\ dead \o <<j>> \in Seq(Job) /\ Range(dead \o <<j>>) = Range(dead) \cup Range(<<j>>)
        /\ IsInjective(dead) /\ IsInjective(<<j>>) /\ Range(dead) \cap Range(<<j>>) = {}
             => IsInjective(dead \o <<j>>)
    BY <1>1, <1>2, ConcatFacts, ZenonT(30)
  <2> QED BY <1>1, <1>2, <2>1, Zenon
<1>4. IsInjective(dead) /\ j \notin Range(dead) => IsInjective(dead')
  BY <1>3, Zenon
<1> QED BY <1>1, <1>3, <1>4, EndLeaseInv, Zenon

\* Ack, Nack and Kill end a lease and store or drop its job.
LEMMA ReportInv ==
  ASSUME MInv, NEW w \in Worker, NEW j \in Job, NEW retryAt \in 0..MaxTime,
         Ack(w, j) \/ Nack(w, j, retryAt) \/ Kill(w, j)
  PROVE  MInv'
<1>1. retry \in ZSet /\ dead \in Seq(Job) /\ retryAt \in Nat
  BY MemoryAssumption DEF MInv, ListTypes
<1>2. CASE EndLease(w, j, "gone") /\ UNCHANGED <<retry, dead>>
  <2>1. /\ retry' \in ZSet /\ dead' \in Seq(Job) /\ retry' = retry /\ dead' = dead
    BY <1>1, <1>2, Zenon
  <2> QED BY <1>2, <2>1, EndLeaseInv, Zenon
<1>3. CASE EndLease(w, j, "retry") /\ retry' = [retry EXCEPT ![j] = retryAt] /\ UNCHANGED dead
  <2>1. retry' \in ZSet /\ \A k \in Job : retry'[k] = IF k = j THEN retryAt ELSE retry[k]
    BY <1>1, <1>3, Zenon DEF ZSet
  <2>2. retry'[j] # NoScore
    BY <1>1, <2>1 DEF NoScore
  <2> QED BY <1>1, <1>3, <2>1, <2>2, EndLeaseInv, Zenon
<1>4. CASE EndLease(w, j, "dead") /\ moveToDead(<<j>>) /\ UNCHANGED retry
  BY <1>4, DeadLetterInv, Zenon
<1> QED BY <1>2, <1>3, <1>4, Zenon DEF Ack, Nack, Kill

\* Jobs leave where they are at once: those of B become pending and are pushed
\* as the list s, those of D are dead-lettered, those of G are deleted.
Moved(B, D, G, s) ==
  /\ \A k \in B \cup D \cup G : Exists(k)
  /\ B \cap D = {} /\ B \cap G = {} /\ D \cap G = {}
  /\ UNCHANGED <<queue, unique, window, now>>
  /\ repeated => repeated'
  /\ \A k \in Job : state'[k] = IF k \in B THEN "pending" ELSE IF k \in D THEN "dead"
                                 ELSE IF k \in G THEN "gone" ELSE state[k]
  /\ \A k \in Job \ (B \cup D \cup G) :
       /\ owner'[k] = owner[k] /\ deadline'[k] = deadline[k] /\ active'[k] = active[k]
       /\ \/ scheduled'[k] = scheduled[k] /\ retry'[k] = retry[k]
          \/ ~ Exists(k) /\ scheduled'[k] = NoScore /\ retry'[k] = NoScore
       /\ k \in Range(dead') <=> k \in Range(dead)
  /\ s \in Seq(Job) /\ Range(s) = B /\ Pushed(s)
  /\ \A k \in D : k \in Range(dead')
  /\ ~ repeated' =>
       /\ IsInjective(s) /\ IsInjective(dead')
       /\ \A k \in B \cup D \cup G :
            /\ owner'[k] = NoOwner /\ active'[k] = NoScore
            /\ scheduled'[k] = NoScore /\ retry'[k] = NoScore
            /\ \A q \in Queue : k \notin Range(pending[q])
            /\ k \in B \cup G => k \notin Range(dead')

\* Such a move keeps the invariant.
LEMMA MoveInv ==
  ASSUME MInv, JobTypes', ListTypes', repeated' \in BOOLEAN,
         NEW B \in SUBSET Job, NEW D \in SUBSET Job, NEW G \in SUBSET Job, NEW s,
         Moved(B, D, G, s)
  PROVE  MInv'
<1> USE DEF Moved
<1>1. /\ JobTypes /\ ListTypes /\ RestTypes /\ Queued /\ NothingLost
      /\ ~ repeated => Tidy
  BY Zenon DEF MInv
<1>2. \A q \in Queue, k \in Job :
        k \in Range(pending'[q]) <=> k \in Range(pending[q]) \/ (k \in B /\ queue[k] = q)
  BY Zenon DEF Pushed
<1>3. RestTypes' /\ Keys' /\ UniqueWindow'
  <2>1. \A k \in Job : state'[k] = "none" => state[k] = "none"
    BY Zenon
  <2>2. RestTypes'
    BY <1>1, Zenon DEF RestTypes
  <2> QED BY <2>1, <2>2, KeysKept, Zenon
<1>4. Queued'
  <2> SUFFICES ASSUME NEW k \in Job, Exists(k)' PROVE queue[k] \in Queue
    BY Zenon DEF Queued
  <2>1. Exists(k)
    BY Zenon DEF Exists
  <2> QED BY <1>1, <2>1, Zenon DEF Queued
<1>5. NothingLost'
  <2> SUFFICES ASSUME NEW k \in Job PROVE Found(k)'
    BY Zenon DEF NothingLost
  <2>1. Found(k) /\ (Exists(k) => queue[k] \in Queue)
    BY <1>1, Zenon DEF NothingLost, Queued
  <2>2. CASE k \in B
    <3>1. state'[k] = "pending" /\ k \in Range(pending'[queue[k]])
      BY <1>2, <2>1, <2>2, Zenon
    <3> QED BY <3>1, Zenon DEF Found
  <2>3. CASE k \in D
    <3>1. state'[k] = "dead" /\ k \in Range(dead')
      BY <2>3, Zenon
    <3> QED BY <3>1, Zenon DEF Found
  <2>4. CASE k \in G
    <3>1. state'[k] = "gone"
      BY <2>4, Zenon
    <3> QED BY <3>1, Zenon DEF Found
  <2>5. CASE k \in Job \ (B \cup D \cup G)
    <3>1. /\ state'[k] = state[k] /\ active'[k] = active[k]
          /\ Exists(k) => scheduled'[k] = scheduled[k] /\ retry'[k] = retry[k]
          /\ k \in Range(dead) => k \in Range(dead')
      BY <2>5, Zenon
    <3>2. state[k] = "pending" => k \in Range(pending'[queue[k]])
      BY <1>2, <2>1, Zenon DEF Found, Exists
    <3> QED BY <2>1, <3>1, <3>2, Zenon DEF Found, Exists
  <2> QED BY <2>2, <2>3, <2>4, <2>5, Zenon
<1>6. ~ repeated' => Tidy'
  <2> SUFFICES ASSUME ~ repeated' PROVE Tidy'
    BY Zenon
  <2>1. /\ \A k \in Job : Placed(k)
        /\ \A x \in Queue : IsInjective(pending[x])
    BY <1>1, Zenon DEF Tidy
  <2>2. ASSUME NEW k \in B \cup D \cup G PROVE Placed(k)'
    <3>1. /\ k \in Job /\ owner'[k] = NoOwner /\ active'[k] = NoScore
          /\ scheduled'[k] = NoScore /\ retry'[k] = NoScore
          /\ \A q \in Queue : k \notin Range(pending[q])
      BY Zenon
    <3>2. \A q \in Queue : k \in Range(pending'[q]) => state'[k] = "pending" /\ queue[k] = q
      <4> SUFFICES ASSUME NEW q \in Queue, k \in Range(pending'[q])
                   PROVE  state'[k] = "pending" /\ queue[k] = q
        BY Zenon
      <4>1. k \in B /\ queue[k] = q
        BY <1>2, <3>1, Zenon
      <4> QED BY <3>1, <4>1, Zenon
    <3>3. k \in Range(dead') => state'[k] = "dead"
      <4> SUFFICES ASSUME k \in Range(dead') PROVE state'[k] = "dead"
        BY Zenon
      <4>1. k \in D /\ k \notin B
        BY Zenon
      <4> QED BY <3>1, <4>1, Zenon
    <3> QED BY <3>1, <3>2, <3>3, Zenon DEF Placed
  <2>3. ASSUME NEW k \in Job \ (B \cup D \cup G) PROVE Placed(k)'
    <3>1. Placed(k)
      BY <2>1, Zenon
    <3>2. /\ state'[k] = state[k] /\ owner'[k] = owner[k] /\ deadline'[k] = deadline[k]
          /\ active'[k] = active[k]
          /\ scheduled'[k] \in {scheduled[k], NoScore} /\ retry'[k] \in {retry[k], NoScore}
          /\ k \in Range(dead') <=> k \in Range(dead)
          /\ \A q \in Queue : k \in Range(pending'[q]) <=> k \in Range(pending[q])
      BY <1>2, Zenon
    <3> QED BY <3>1, <3>2, Zenon DEF Placed
  <2>4. ASSUME NEW q \in Queue PROVE IsInjective(pending'[q])
    <3>1. \A k \in Range(s) : k \notin Range(pending[q])
      BY Zenon
    <3>2. Range(s) \cap Range(pending[q]) = {}
      BY <3>1, Zenon
    <3> QED BY <2>1, <3>2, Zenon DEF Pushed
  <2> QED BY <2>2, <2>3, <2>4, Zenon DEF Tidy
<1> QED BY <1>3, <1>4, <1>5, <1>6, Zenon DEF MInv

\* What Reap takes: stored jobs whose lease has a deadline that has passed.
LEMMA ReapFacts ==
  ASSUME NEW want,
         NEW z, z = [j \in Job |-> IF Exists(j) /\ (want = {} \/ queue[j] \in want)
                                   THEN active[j] ELSE NoScore]
  PROVE  /\ Batch(z, ReapLimit) \in SUBSET Job
         /\ \A j \in Batch(z, ReapLimit) :
              Exists(j) /\ active[j] # NoScore /\ active[j] <= now
<1>1. /\ Batch(z, ReapLimit) \in SUBSET Job
      /\ \A j \in Batch(z, ReapLimit) : z[j] # NoScore /\ z[j] <= now
  BY ScanFacts, Zenon
<1>2. ASSUME NEW j \in Batch(z, ReapLimit)
      PROVE  Exists(j) /\ active[j] # NoScore /\ active[j] <= now
  <2>1. j \in Job /\ z[j] # NoScore /\ z[j] <= now
    BY <1>1, Zenon
  <2>2. z[j] = IF Exists(j) /\ (want = {} \/ queue[j] \in want) THEN active[j] ELSE NoScore
    BY <2>1, Zenon
  <2>3. Exists(j) /\ z[j] = active[j]
    BY <2>1, <2>2, Zenon
  <2> QED BY <2>1, <2>3, Zenon
<1> QED BY <1>1, <1>2, Zenon

\* The updates of Reap, for the batch S it takes and its exhausted part D.
Reaped(z, S, D) ==
  /\ active' = ZRem(active, S)
  /\ recoveries' = [j \in Job |-> IF j \in S THEN recoveries[j] + 1 ELSE recoveries[j]]
  /\ owner' = [j \in Job |-> IF j \in S THEN NoOwner ELSE owner[j]]
  /\ state' = [j \in Job |-> IF j \in D THEN "dead"
                             ELSE IF j \in S \ D THEN "pending" ELSE state[j]]
  /\ \E s \in Ascending(z, D) : moveToDead(s)
  /\ \E s \in Descending(z, S \ D) :
       pending' = [q \in Queue |-> Only(s, ofQueue(q)) \o pending[q]]
  /\ UNCHANGED <<attempt, maxAttempts, queue, deadline, scheduled, retry, unique,
                 window, mode, now>>

\* A reaping step is such an update of jobs whose lease has expired.
LEMMA ReapedFacts ==
  ASSUME NEW want, Reap(want)
  PROVE  \E z : \E S \in SUBSET Job :
           /\ Reaped(z, S, {j \in S : Exhausted(j)}) /\ S # {}
           /\ \A j \in S : Exists(j) /\ active[j] # NoScore /\ active[j] <= now
<1> DEFINE z == [j \in Job |-> IF Exists(j) /\ (want = {} \/ queue[j] \in want)
                               THEN active[j] ELSE NoScore]
           S == Batch(z, ReapLimit)
<1>1. S \in SUBSET Job /\ \A j \in S : Exists(j) /\ active[j] # NoScore /\ active[j] <= now
  <2> HIDE DEF z
  <2>1. z = [j \in Job |-> IF Exists(j) /\ (want = {} \/ queue[j] \in want)
                           THEN active[j] ELSE NoScore]
    BY Zenon DEF z
  <2> QED BY <2>1, ReapFacts, Zenon
<1>2. Reaped(z, S, {j \in S : Exhausted(j)}) /\ S # {}
  BY Zenon DEF Reap, Reaped
<1> HIDE DEF S
<1> QED BY <1>1, <1>2, Zenon

\* Orphans go to the head of their queue or to the dead-letter list.
LEMMA ReapInv ==
  ASSUME Counting, MInv, NEW want, Reap(want)
  PROVE  MInv'
<1>1. PICK z : \E S \in SUBSET Job :
        /\ Reaped(z, S, {j \in S : Exhausted(j)}) /\ S # {}
        /\ \A j \in S : Exists(j) /\ active[j] # NoScore /\ active[j] <= now
  BY ReapedFacts, Zenon
<1>2. PICK S \in SUBSET Job :
        /\ Reaped(z, S, {j \in S : Exhausted(j)}) /\ S # {}
        /\ \A j \in S : Exists(j) /\ active[j] # NoScore /\ active[j] <= now
  BY <1>1, Zenon
<1> DEFINE D == {j \in S : Exhausted(j)}
<1>3. /\ JobTypes /\ ListTypes /\ RestTypes
      /\ ~ repeated => Tidy
  BY Zenon DEF MInv
<1>4. Reaped(z, S, D) /\ D \in SUBSET Job /\ D \subseteq S /\ S \ D \in SUBSET Job
  BY <1>2, Zenon
<1> HIDE DEF D
<1>5. PICK t \in Ascending(z, D) : moveToDead(t)
  BY <1>4, Zenon DEF Reaped
<1>6. PICK s \in Descending(z, S \ D) :
        pending' = [q \in Queue |-> Only(s, ofQueue(q)) \o pending[q]]
  BY <1>4, Zenon DEF Reaped
<1>7. /\ t \in Seq(Job) /\ Range(t) = D /\ IsInjective(t)
      /\ s \in Seq(Job) /\ Range(s) = S \ D /\ IsInjective(s)
  BY <1>4, <1>5, <1>6, SortedFacts, Zenon
<1>8. /\ dead \in Seq(Job) /\ dead' = dead \o t
  BY <1>3, <1>5, Zenon DEF ListTypes, moveToDead
<1>9. /\ dead' \in Seq(Job) /\ Range(dead') = Range(dead) \cup D
      /\ IsInjective(dead) /\ Range(dead) \cap D = {} => IsInjective(dead')
  <2>1. /\ dead \o t \in Seq(Job) /\ Range(dead \o t) = Range(dead) \cup Range(t)
        /\ IsInjective(dead) /\ IsInjective(t) /\ Range(dead) \cap Range(t) = {}
             => IsInjective(dead \o t)
    BY <1>7, <1>8, ConcatFacts
  <2> QED BY <1>7, <1>8, <2>1, Zenon
<1>10. Pushed(s) /\ pending' \in [Queue -> Seq(Job)]
  <2>1. Pushed(s)
    BY <1>3, <1>6, <1>7, PushFacts, Zenon DEF ListTypes
  <2> QED BY <2>1, Zenon DEF Pushed
<1>11. JobTypes' /\ ListTypes'
  <2>1. /\ recoveries' \in [Job -> Nat]
        /\ active' \in ZSet
    BY <1>3, <1>4, SMT DEF Reaped, ZRem, JobTypes, ListTypes, ZSet, NoScore
  <2>2. state' \in [Job -> States]
    BY <1>3, <1>4, Zenon DEF Reaped, JobTypes, States
  <2>3. owner' \in [Job -> Worker \cup {NoOwner}]
    BY <1>3, <1>4, Zenon DEF Reaped, JobTypes
  <2> QED BY <1>3, <1>4, <1>9, <1>10, <2>1, <2>2, <2>3, Zenon DEF Reaped, JobTypes, ListTypes
<1>12. /\ \A k \in Job : state'[k] = IF k \in D THEN "dead"
                                     ELSE IF k \in S \ D THEN "pending" ELSE state[k]
       /\ \A k \in S : owner'[k] = NoOwner /\ active'[k] = NoScore
       /\ \A k \in Job \ S : owner'[k] = owner[k] /\ active'[k] = active[k]
       /\ UNCHANGED <<queue, deadline, scheduled, retry, unique, window, repeated, now>>
  BY <1>4, Zenon DEF Reaped, ZRem, mode
<1>13. ASSUME ~ repeated'
       PROVE  /\ IsInjective(dead')
              /\ \A k \in S : /\ scheduled'[k] = NoScore /\ retry'[k] = NoScore
                              /\ \A q \in Queue : k \notin Range(pending[q])
                              /\ k \notin Range(dead)
  <2>1. repeated' = repeated
    BY <1>12, Zenon
  <2>2. ~ repeated
    BY <1>13, <2>1, Zenon
  <2>3. Tidy
    BY <1>3, <2>2, Zenon
  <2>4. ASSUME NEW k \in S
        PROVE  /\ scheduled'[k] = NoScore /\ retry'[k] = NoScore
               /\ \A q \in Queue : k \notin Range(pending[q])
               /\ k \notin Range(dead)
    <3>1. k \in Job /\ Placed(k) /\ active[k] # NoScore
      BY <1>2, <2>3, Zenon DEF Tidy
    <3>2. state[k] = "active"
      BY <3>1, Zenon DEF Placed
    <3> QED BY <1>12, <3>1, <3>2, Zenon DEF Placed
  <2>5. Range(dead) \cap D = {}
    BY <1>4, <2>4, Zenon
  <2> QED BY <1>9, <2>3, <2>4, <2>5, Zenon DEF Tidy
<1> DEFINE B == S \ D
<1>14. /\ B \in SUBSET Job /\ {} \in SUBSET Job /\ B \cup D \cup {} = S
       /\ B \cap D = {} /\ B \cap {} = {} /\ D \cap {} = {}
       /\ Range(s) = B
  BY <1>4, <1>7, Zenon
<1>15. \A k \in Job : state'[k] = IF k \in B THEN "pending" ELSE IF k \in D THEN "dead"
                                  ELSE IF k \in {} THEN "gone" ELSE state[k]
  BY <1>12, Zenon
<1> QED
  <2> HIDE DEF B
  <2>1. repeated' \in BOOLEAN /\ (repeated => repeated')
    BY <1>3, <1>12, Zenon DEF RestTypes
  <2>2. \A k \in Job \ (B \cup D \cup {}) :
          /\ owner'[k] = owner[k] /\ deadline'[k] = deadline[k] /\ active'[k] = active[k]
          /\ \/ scheduled'[k] = scheduled[k] /\ retry'[k] = retry[k]
             \/ ~ Exists(k) /\ scheduled'[k] = NoScore /\ retry'[k] = NoScore
          /\ k \in Range(dead') <=> k \in Range(dead)
    BY <1>9, <1>12, <1>14, Zenon
  <2>3. \A k \in D : k \in Range(dead')
    BY <1>9, Zenon
  <2>4. ~ repeated' =>
          /\ IsInjective(s) /\ IsInjective(dead')
          /\ \A k \in B \cup D \cup {} :
               /\ owner'[k] = NoOwner /\ active'[k] = NoScore
               /\ scheduled'[k] = NoScore /\ retry'[k] = NoScore
               /\ \A q \in Queue : k \notin Range(pending[q])
               /\ k \in B \cup {} => k \notin Range(dead')
    BY <1>7, <1>9, <1>12, <1>13, <1>14, ZenonT(30)
  <2>5. \A k \in B \cup D \cup {} : Exists(k)
    BY <1>2, <1>14, Zenon
  <2>6. UNCHANGED <<queue, unique, window, now>>
    BY <1>12, Zenon
  <2>7. Moved(B, D, {}, s)
    BY <1>7, <1>10, <1>14, <1>15, <2>1, <2>2, <2>3, <2>4, <2>5, <2>6, Zenon DEF Moved
  <2> QED BY <1>4, <1>11, <1>14, <2>1, <2>7, MoveInv, Zenon

\* Released jobs go to the tail of their queue.
LEMMA PromoteInv ==
  ASSUME Counting, MInv, Promote
  PROVE  MInv'
<1> DEFINE at == [j \in Job |-> IF scheduled[j] # NoScore THEN scheduled[j] ELSE retry[j]]
           S == Batch(at, PromoteLimit)
           B == {j \in S : Exists(j)}
<1>1. /\ JobTypes /\ ListTypes /\ RestTypes
      /\ ~ repeated => Tidy
  BY Zenon DEF MInv
<1>2. /\ scheduled' = ZRem(scheduled, S) /\ retry' = ZRem(retry, S)
      /\ state' = [j \in Job |-> IF j \in B THEN "pending" ELSE state[j]]
      /\ \E s \in Ascending(at, B) :
           pending' = [q \in Queue |-> pending[q] \o Only(s, ofQueue(q))]
      /\ UNCHANGED <<owner, attempt, maxAttempts, queue, recoveries, deadline, active,
                     dead, unique, window, repeated, now>>
  BY Zenon DEF Promote, mode
<1>3. S \in SUBSET Job /\ \A j \in S : scheduled[j] # NoScore \/ retry[j] # NoScore
  <2>1. at = [j \in Job |-> IF scheduled[j] # NoScore THEN scheduled[j] ELSE retry[j]]
    BY Zenon
  <2> HIDE DEF at
  <2>2. S \in SUBSET Job /\ \A j \in S : at[j] # NoScore
    BY ScanFacts, Zenon
  <2> HIDE DEF S
  <2>3. \A j \in S : at[j] = IF scheduled[j] # NoScore THEN scheduled[j] ELSE retry[j]
    BY <2>1, <2>2, Zenon
  <2> QED BY <2>2, <2>3, Zenon
<1> HIDE DEF at, S
<1>4. B \in SUBSET Job /\ B \subseteq S /\ \A j \in B : Exists(j)
  BY <1>3, Zenon
<1>5. \A j \in S \ B : ~ Exists(j)
  BY Zenon
<1> HIDE DEF B
<1>6. PICK s \in Ascending(at, B) :
        pending' = [q \in Queue |-> pending[q] \o Only(s, ofQueue(q))]
  BY <1>2, Zenon
<1>7. s \in Seq(Job) /\ Range(s) = B /\ IsInjective(s)
  BY <1>4, <1>6, SortedFacts, Zenon
<1>8. Pushed(s) /\ pending' \in [Queue -> Seq(Job)]
  <2>1. Pushed(s)
    BY <1>1, <1>6, <1>7, PushFacts, Zenon DEF ListTypes
  <2> QED BY <2>1, Zenon DEF Pushed
<1>9. JobTypes' /\ ListTypes'
  <2>1. scheduled' \in ZSet /\ retry' \in ZSet
    BY <1>1, <1>2, Zenon DEF ZRem, ListTypes, ZSet, NoScore
  <2>2. state' \in [Job -> States]
    BY <1>1, <1>2, Zenon DEF JobTypes, States
  <2> QED BY <1>1, <1>2, <1>8, <2>1, <2>2, Zenon DEF JobTypes, ListTypes
<1>10. /\ \A k \in Job : state'[k] = IF k \in B THEN "pending" ELSE state[k]
       /\ \A k \in S : scheduled'[k] = NoScore /\ retry'[k] = NoScore
       /\ \A k \in Job \ S : scheduled'[k] = scheduled[k] /\ retry'[k] = retry[k]
  BY <1>2, <1>3, Zenon DEF ZRem
<1>11. ASSUME ~ repeated'
       PROVE  /\ IsInjective(dead')
              /\ \A k \in B : /\ owner'[k] = NoOwner /\ active'[k] = NoScore
                              /\ \A q \in Queue : k \notin Range(pending[q])
                              /\ k \notin Range(dead')
  <2>1. repeated' = repeated
    BY <1>2, Zenon
  <2>2. ~ repeated
    BY <1>11, <2>1, Zenon
  <2>3. Tidy
    BY <1>1, <2>2, Zenon
  <2>4. ASSUME NEW k \in B
        PROVE  /\ owner'[k] = NoOwner /\ active'[k] = NoScore
               /\ \A q \in Queue : k \notin Range(pending[q])
               /\ k \notin Range(dead')
    <3>1. k \in Job /\ Placed(k) /\ (scheduled[k] # NoScore \/ retry[k] # NoScore)
      BY <1>3, <1>4, <2>3, Zenon DEF Tidy
    <3>2. state[k] \in {"scheduled", "retry"}
      BY <3>1, Zenon DEF Placed
    <3> QED BY <1>2, <3>1, <3>2, Zenon DEF Placed
  <2> QED BY <1>2, <2>3, <2>4, Zenon DEF Tidy
<1>12. repeated' \in BOOLEAN /\ (repeated => repeated')
  BY <1>1, <1>2, Zenon DEF RestTypes
<1>13. B \cup {} \cup {} = B
  BY Zenon
<1>14. \A k \in Job \ B :
         /\ owner'[k] = owner[k] /\ deadline'[k] = deadline[k] /\ active'[k] = active[k]
         /\ \/ scheduled'[k] = scheduled[k] /\ retry'[k] = retry[k]
            \/ ~ Exists(k) /\ scheduled'[k] = NoScore /\ retry'[k] = NoScore
         /\ k \in Range(dead') <=> k \in Range(dead)
  BY <1>2, <1>5, <1>10, Zenon
<1>15. Moved(B, {}, {}, s)
  BY <1>2, <1>4, <1>7, <1>8, <1>10, <1>11, <1>12, <1>13, <1>14, Zenon DEF Moved
<1> QED BY <1>4, <1>9, <1>12, <1>15, MoveInv, Zenon

\* What an operator's list selects: stored members of the dead-letter list.
LEMMA SelectFacts ==
  ASSUME Counting, dead \in Seq(Job), NEW ids \in Seq(Job)
  PROVE  /\ selectDead(ids) \in Seq(Job)
         /\ Range(selectDead(ids)) \in SUBSET Job
         /\ \A k \in Range(selectDead(ids)) : Exists(k) /\ k \in Range(dead)
<1> DEFINE s == IF ids = <<>> THEN dead ELSE ids
           T == {j \in Range(dead) : Exists(j)}
<1>1. s \in Seq(Job)
  BY Zenon
<1>2. \A k \in T : Exists(k) /\ k \in Range(dead)
  BY Zenon
<1>3. selectDead(ids) = Only(s, T)
  BY Zenon DEF selectDead
<1> HIDE DEF s, T
<1>4. Only(s, T) \in Seq(Job) /\ Range(Only(s, T)) = Range(s) \cap T
  BY <1>1, OnlyFacts, Zenon
<1>5. Range(s) \subseteq Job
  BY <1>1 DEF Range
<1> QED BY <1>2, <1>3, <1>4, <1>5, Zenon

\* How often each job is in a list, and that this is 0 for the others.
LEMMA TimesFacts ==
  ASSUME Counting, NEW s \in Seq(Job)
  PROVE  /\ [j \in Job |-> Cardinality({i \in DOMAIN s : s[i] = j})] \in [Job -> Nat]
         /\ \A j \in Job : Cardinality({i \in DOMAIN s : s[i] = j}) = 0 <=> j \notin Range(s)
<1>1. IsFiniteSet(DOMAIN s)
  <2>1. DOMAIN s = 1..Len(s) /\ Len(s) \in Nat
    OBVIOUS
  <2> QED BY <2>1, Zenon DEF Counting
<1>2. ASSUME NEW j \in Job
      PROVE  /\ IsFiniteSet({i \in DOMAIN s : s[i] = j})
             /\ {i \in DOMAIN s : s[i] = j} = {} <=> j \notin Range(s)
  <2>1. {i \in DOMAIN s : s[i] = j} \subseteq DOMAIN s
    BY Zenon
  <2>2. IsFiniteSet({i \in DOMAIN s : s[i] = j})
    BY <1>1, <2>1, Zenon DEF Counting
  <2> QED BY <2>2, Zenon DEF Range
<1> QED BY <1>2, Zenon DEF Counting

\* In the absence of repeated replays a dead job is nowhere but in its list.
LEMMA DeadFacts ==
  ASSUME Tidy, NEW k \in Job, k \in Range(dead)
  PROVE  /\ state[k] = "dead" /\ owner[k] = NoOwner
         /\ active[k] = NoScore /\ scheduled[k] = NoScore /\ retry[k] = NoScore
         /\ \A q \in Queue : k \notin Range(pending[q])
<1>1. Placed(k)
  BY Zenon DEF Tidy
<1>2. state[k] = "dead"
  BY <1>1, Zenon DEF Placed
<1> QED BY <1>1, <1>2, Zenon DEF Placed

\* An operator names IDs in a list.
LEMMA OperatorFacts ==
  ASSUME NEW ids \in OperatorIDs
  PROVE  ids \in Seq(Job)
<1>1. PICK n \in 0..MaxIDs : ids \in [1..n -> Job]
  BY Zenon DEF OperatorIDs
<1>2. MaxIDs \in Nat
  BY MemoryAssumption, Zenon
<1>3. n \in Nat
  BY <1>2
<1> QED BY <1>1, <1>3

\* Replayed jobs leave the list for the tail of their queue.
LEMMA RetryDeadInv ==
  ASSUME Counting, MInv, NEW ids \in Seq(Job), RetryDead(ids)
  PROVE  MInv'
<1> DEFINE s == selectDead(ids)
           B == Range(s)
           times == [j \in Job |-> Cardinality({i \in DOMAIN s : s[i] = j})]
<1>1. /\ JobTypes /\ ListTypes /\ RestTypes
      /\ ~ repeated => Tidy
  BY Zenon DEF MInv
<1>2. /\ state' = [j \in Job |-> IF j \in B THEN "pending" ELSE state[j]]
      /\ attempt' = [j \in Job |-> IF j \in B THEN 0 ELSE attempt[j]]
      /\ recoveries' = [j \in Job |-> IF j \in B THEN 0 ELSE recoveries[j]]
      /\ owner' = [j \in Job |-> IF j \in B THEN NoOwner ELSE owner[j]]
      /\ pending' = [q \in Queue |-> pending[q] \o Only(s, ofQueue(q))]
      /\ repeated' = (repeated \/ ~ IsInjective(s))
      /\ dead' = removeDead(times)
      /\ UNCHANGED <<maxAttempts, queue, deadline, active, scheduled, retry, unique,
                     window, now>>
  BY Zenon DEF RetryDead
<1>3. /\ dead \in Seq(Job) /\ s \in Seq(Job) /\ B \in SUBSET Job
      /\ \A k \in B : Exists(k) /\ k \in Range(dead)
  BY <1>1, SelectFacts, Zenon DEF ListTypes
<1> HIDE DEF s
<1>4. /\ times \in [Job -> Nat]
      /\ \A k \in Job : times[k] = 0 <=> k \notin B
  <2>1. /\ [j \in Job |-> Cardinality({i \in DOMAIN s : s[i] = j})] \in [Job -> Nat]
        /\ \A j \in Job : Cardinality({i \in DOMAIN s : s[i] = j}) = 0 <=> j \notin Range(s)
    BY <1>3, TimesFacts, Zenon
  <2> QED BY <2>1, Zenon
<1> HIDE DEF times, B
<1>5. \A k \in Job : k \in B => times[k] > 0
  BY <1>4
<1>6. /\ removeDead(times) \in Seq(Job) /\ Range(removeDead(times)) \subseteq Range(dead)
      /\ \A k \in Range(dead) : times[k] = 0 => k \in Range(removeDead(times))
      /\ IsInjective(dead) => /\ IsInjective(removeDead(times))
                              /\ \A k \in Job : times[k] > 0 => k \notin Range(removeDead(times))
  BY <1>3, <1>4, RemoveFacts, Zenon
<1>7. /\ dead' \in Seq(Job)
      /\ \A k \in Job \ B : k \in Range(dead') <=> k \in Range(dead)
      /\ IsInjective(dead) => IsInjective(dead') /\ \A k \in B : k \notin Range(dead')
  BY <1>2, <1>3, <1>4, <1>5, <1>6, Zenon
<1>8. Pushed(s) /\ pending' \in [Queue -> Seq(Job)]
  <2>1. Pushed(s)
    BY <1>1, <1>2, <1>3, PushFacts, Zenon DEF ListTypes
  <2> QED BY <2>1, Zenon DEF Pushed
<1>9. JobTypes' /\ ListTypes'
  <2>1. attempt' \in [Job -> Nat] /\ recoveries' \in [Job -> Nat]
    BY <1>1, <1>2, Zenon DEF JobTypes
  <2>2. state' \in [Job -> States] /\ owner' \in [Job -> Worker \cup {NoOwner}]
    BY <1>1, <1>2, Zenon DEF JobTypes, States
  <2> QED BY <1>1, <1>2, <1>7, <1>8, <2>1, <2>2, Zenon DEF JobTypes, ListTypes
<1>10. /\ repeated' \in BOOLEAN /\ (repeated => repeated')
       /\ ~ repeated' => ~ repeated /\ IsInjective(s)
  BY <1>1, <1>2, Zenon DEF RestTypes
<1>11. /\ \A k \in Job : state'[k] = IF k \in B THEN "pending" ELSE state[k]
       /\ \A k \in B : owner'[k] = NoOwner
       /\ \A k \in Job \ B : owner'[k] = owner[k]
  BY <1>2, <1>3, Zenon
<1>12. ASSUME ~ repeated'
       PROVE  /\ IsInjective(dead')
              /\ \A k \in B : /\ active'[k] = NoScore
                              /\ scheduled'[k] = NoScore /\ retry'[k] = NoScore
                              /\ \A q \in Queue : k \notin Range(pending[q])
                              /\ k \notin Range(dead')
  <2>1. Tidy
    BY <1>1, <1>10, <1>12, Zenon
  <2>2. IsInjective(dead)
    BY <2>1, Zenon DEF Tidy
  <2>3. \A k \in B : /\ active[k] = NoScore /\ scheduled[k] = NoScore /\ retry[k] = NoScore
                     /\ \A q \in Queue : k \notin Range(pending[q])
    BY <1>3, <2>1, DeadFacts, Zenon
  <2> QED BY <1>2, <1>7, <2>2, <2>3, Zenon
<1>13. B \cup {} \cup {} = B
  BY Zenon
<1>14. \A k \in Job \ B :
         /\ owner'[k] = owner[k] /\ deadline'[k] = deadline[k] /\ active'[k] = active[k]
         /\ \/ scheduled'[k] = scheduled[k] /\ retry'[k] = retry[k]
            \/ ~ Exists(k) /\ scheduled'[k] = NoScore /\ retry'[k] = NoScore
         /\ k \in Range(dead') <=> k \in Range(dead)
  BY <1>2, <1>7, <1>11, Zenon
<1>15. Moved(B, {}, {}, s)
  BY <1>2, <1>3, <1>8, <1>10, <1>11, <1>12, <1>13, <1>14, Zenon DEF Moved, B
<1> QED BY <1>3, <1>9, <1>10, <1>15, MoveInv, Zenon

\* Purged jobs leave the list and are deleted.
LEMMA PurgeDeadInv ==
  ASSUME Counting, MInv, NEW ids \in Seq(Job), PurgeDead(ids)
  PROVE  MInv'
<1> DEFINE G == Range(selectDead(ids))
           times == [j \in Job |-> IF j \in G THEN 1 ELSE 0]
<1>1. /\ JobTypes /\ ListTypes /\ RestTypes
      /\ ~ repeated => Tidy
  BY Zenon DEF MInv
<1>2. /\ state' = [j \in Job |-> IF j \in G THEN "gone" ELSE state[j]]
      /\ owner' = [j \in Job |-> IF j \in G THEN NoOwner ELSE owner[j]]
      /\ dead' = removeDead(times)
      /\ UNCHANGED <<attempt, maxAttempts, queue, recoveries, deadline, pending, active,
                     scheduled, retry, unique, window, repeated, now>>
  BY Zenon DEF PurgeDead, mode
<1>3. /\ dead \in Seq(Job) /\ G \in SUBSET Job
      /\ \A k \in G : Exists(k) /\ k \in Range(dead)
  BY <1>1, SelectFacts, Zenon DEF ListTypes
<1> HIDE DEF G
<1>4. times \in [Job -> Nat] /\ \A k \in Job : (k \notin G => times[k] = 0) /\ (k \in G => times[k] > 0)
  OBVIOUS
<1> HIDE DEF times
<1>5. /\ removeDead(times) \in Seq(Job) /\ Range(removeDead(times)) \subseteq Range(dead)
      /\ \A k \in Range(dead) : times[k] = 0 => k \in Range(removeDead(times))
      /\ IsInjective(dead) => /\ IsInjective(removeDead(times))
                              /\ \A k \in Job : times[k] > 0 => k \notin Range(removeDead(times))
  BY <1>3, <1>4, RemoveFacts, Zenon
<1>6. /\ dead' \in Seq(Job)
      /\ \A k \in Job \ G : k \in Range(dead') <=> k \in Range(dead)
      /\ IsInjective(dead) => IsInjective(dead') /\ \A k \in G : k \notin Range(dead')
  BY <1>2, <1>3, <1>4, <1>5, Zenon
<1>7. <<>> \in Seq(Job) /\ Range(<<>>) = {} /\ IsInjective(<<>>)
  BY DEF Range, IsInjective
<1>8. Pushed(<<>>)
  BY <1>1, <1>2, <1>7, Zenon DEF Pushed, ListTypes
<1>9. JobTypes' /\ ListTypes'
  <2>1. state' \in [Job -> States] /\ owner' \in [Job -> Worker \cup {NoOwner}]
    BY <1>1, <1>2, Zenon DEF JobTypes, States
  <2> QED BY <1>1, <1>2, <1>6, <2>1, Zenon DEF JobTypes, ListTypes
<1>10. repeated' \in BOOLEAN /\ (repeated => repeated') /\ (~ repeated' => ~ repeated)
  BY <1>1, <1>2, Zenon DEF RestTypes
<1>11. /\ \A k \in Job : state'[k] = IF k \in G THEN "gone" ELSE state[k]
       /\ \A k \in G : owner'[k] = NoOwner
       /\ \A k \in Job \ G : owner'[k] = owner[k]
  BY <1>2, <1>3, Zenon
<1>12. ASSUME ~ repeated'
       PROVE  /\ IsInjective(dead')
              /\ \A k \in G : /\ active'[k] = NoScore
                              /\ scheduled'[k] = NoScore /\ retry'[k] = NoScore
                              /\ \A q \in Queue : k \notin Range(pending[q])
                              /\ k \notin Range(dead')
  <2>1. Tidy
    BY <1>1, <1>10, <1>12, Zenon
  <2>2. IsInjective(dead)
    BY <2>1, Zenon DEF Tidy
  <2>3. \A k \in G : /\ active[k] = NoScore /\ scheduled[k] = NoScore /\ retry[k] = NoScore
                     /\ \A q \in Queue : k \notin Range(pending[q])
    BY <1>3, <2>1, DeadFacts, Zenon
  <2> QED BY <1>2, <1>6, <2>2, <2>3, Zenon
<1>13. {} \cup {} \cup G = G
  BY Zenon
<1>14. \A k \in Job \ G :
         /\ owner'[k] = owner[k] /\ deadline'[k] = deadline[k] /\ active'[k] = active[k]
         /\ \/ scheduled'[k] = scheduled[k] /\ retry'[k] = retry[k]
            \/ ~ Exists(k) /\ scheduled'[k] = NoScore /\ retry'[k] = NoScore
         /\ k \in Range(dead') <=> k \in Range(dead)
  BY <1>2, <1>6, <1>11, Zenon
<1>15. Moved({}, {}, G, <<>>)
  BY <1>2, <1>3, <1>7, <1>8, <1>10, <1>11, <1>12, <1>13, <1>14, Zenon DEF Moved
<1> QED BY <1>3, <1>9, <1>10, <1>15, MoveInv, Zenon

\* The empty broker satisfies MInv.
LEMMA InitInv == Init => MInv
<1> SUFFICES ASSUME Init PROVE MInv
  BY Zenon
<1>1. JobTypes
  BY Zenon DEF Init, JobTypes, States
<1>2. ListTypes
  BY SMT DEF Init, ListTypes, ZSet, EmptyZSet, NoScore
<1>3. RestTypes
  <2>1. unique \in [Key -> Nat] /\ now \in Nat
    BY Zenon DEF Init
  <2>2. [key |-> NoKey, from |-> 0, until |-> 0] \in [key : Key \cup {NoKey}, from : Nat, until : Nat]
    BY Zenon
  <2>3. window \in [Job -> [key : Key \cup {NoKey}, from : Nat, until : Nat]]
    BY <2>2, Zenon DEF Init
  <2>4. repeated \in BOOLEAN
    BY Zenon DEF Init
  <2> QED BY <2>1, <2>3, <2>4, Zenon DEF RestTypes
<1>4. \A j \in Job : /\ state[j] = "none" /\ owner[j] = NoOwner /\ window[j].key = NoKey
                     /\ active[j] = NoScore /\ scheduled[j] = NoScore /\ retry[j] = NoScore
  BY Zenon DEF Init, EmptyZSet
<1>5. /\ dead = <<>> /\ \A q \in Queue : pending[q] = <<>>
      /\ Range(<<>>) = {} /\ IsInjective(<<>>)
  <2>1. Range(<<>>) = {} /\ IsInjective(<<>>)
    BY DEF Range, IsInjective
  <2> QED BY <2>1, Zenon DEF Init
<1>6. Queued /\ NothingLost
  BY <1>4, Zenon DEF Queued, NothingLost, Found, Exists
<1>7. Tidy
  <2>1. ASSUME NEW j \in Job PROVE Placed(j)
    BY <1>4, <1>5, Zenon DEF Placed
  <2> QED BY <1>5, <2>1, Zenon DEF Tidy
<1>8. Keys /\ UniqueWindow
  BY <1>4, Zenon DEF Keys, UniqueWindow
<1> QED BY <1>1, <1>2, <1>3, <1>6, <1>7, <1>8, Zenon DEF MInv

\* Every operation keeps MInv.
LEMMA NextInv ==
  ASSUME Counting, MInv, [Next]_vars
  PROVE  MInv'
<1>1. now \in Nat
  BY Zenon DEF MInv, RestTypes
<1>2. CASE UNCHANGED vars \/ Close \/ Tick
  <2>1. /\ UNCHANGED <<jobs, pending, active, scheduled, retry, dead, unique, window, repeated>>
        /\ now' \in {now, now + 1}
    BY <1>2, Zenon DEF vars, mode, Close, Tick
  <2> QED BY <2>1, QuietInv, Zenon
<1>3. CASE \E j \in Job, q \in Queue, max \in Budgets, runAt \in 0..MaxTime,
              key \in Key, ttl \in UniqueTTLs : Enqueue(j, q, max, runAt, key, ttl)
  BY <1>3, EnqueueInv, Zenon
<1>4. CASE \E w \in Worker, order \in Orders, vt \in VisibilityTimeouts : Dequeue(w, order, vt)
  BY <1>4, DequeueInv, Zenon
<1>5. CASE \E order \in Orders : DequeueNone(order)
  BY <1>5, DequeueNoneInv, Zenon
<1>6. CASE \E w \in Worker, j \in Job : Ack(w, j) \/ Kill(w, j)
  <2>1. PICK w \in Worker, j \in Job : Ack(w, j) \/ Kill(w, j)
    BY <1>6, Zenon
  <2>2. 0 \in 0..MaxTime
    BY MemoryAssumption
  <2> QED BY <2>1, <2>2, ReportInv, Zenon
<1>7. CASE \E w \in Worker, j \in Job, retryAt \in 0..MaxTime : Nack(w, j, retryAt)
  BY <1>7, ReportInv, Zenon
<1>8. CASE \E w \in Worker, ids \in SUBSET Job, vt \in VisibilityTimeouts : Extend(w, ids, vt)
  BY <1>8, ExtendInv, Zenon
<1>9. CASE \E want \in SUBSET Queue : Reap(want)
  BY <1>9, ReapInv, Zenon
<1>10. CASE Promote
  BY <1>10, PromoteInv, Zenon
<1>11. CASE \E ids \in OperatorIDs : RetryDead(ids) \/ PurgeDead(ids)
  BY <1>11, OperatorFacts, RetryDeadInv, PurgeDeadInv, Zenon
<1> QED BY <1>2, <1>3, <1>4, <1>5, <1>6, <1>7, <1>8, <1>9, <1>10, <1>11, Zenon DEF Next

\* What NoEarlyRecovery asks of one step.
RecoveredInTime ==
  \A j \in Job : ~ repeated /\ recoveries'[j] > recoveries[j] =>
    state[j] = "active" /\ deadline[j] <= now

\* Only Reap counts a recovery, and it reads the deadline the holder was told.
LEMMA RecoveryStep == MInv /\ Next => RecoveredInTime
<1> SUFFICES ASSUME MInv, Next PROVE RecoveredInTime
  BY Zenon
<1>1. recoveries \in [Job -> Nat] /\ (~ repeated => Tidy)
  BY Zenon DEF MInv, JobTypes
<1>2. ASSUME NEW want, Reap(want) PROVE RecoveredInTime
  <2>1. PICK z : \E S \in SUBSET Job :
          /\ Reaped(z, S, {j \in S : Exhausted(j)}) /\ S # {}
          /\ \A j \in S : Exists(j) /\ active[j] # NoScore /\ active[j] <= now
    BY <1>2, ReapedFacts, Zenon
  <2>2. PICK S \in SUBSET Job :
          /\ Reaped(z, S, {j \in S : Exhausted(j)})
          /\ \A j \in S : Exists(j) /\ active[j] # NoScore /\ active[j] <= now
    BY <2>1, Zenon
  <2> SUFFICES ASSUME NEW j \in Job, ~ repeated, recoveries'[j] > recoveries[j]
               PROVE  state[j] = "active" /\ deadline[j] <= now
    BY Zenon DEF RecoveredInTime
  <2>3. j \notin S => recoveries'[j] = recoveries[j]
    BY <2>2, Zenon DEF Reaped
  <2>4. j \in S
    BY <1>1, <2>3
  <2>5. Placed(j) /\ active[j] # NoScore /\ active[j] <= now
    BY <1>1, <2>2, <2>4, Zenon DEF Tidy
  <2>6. state[j] = "active" /\ active[j] = deadline[j]
    BY <2>5, Zenon DEF Placed
  <2> QED BY <2>5, <2>6, Zenon
<1>3. ASSUME NEW ids, RetryDead(ids) PROVE RecoveredInTime
  <2> DEFINE replayed == Range(selectDead(ids))
  <2>1. recoveries' = [j \in Job |-> IF j \in replayed THEN 0 ELSE recoveries[j]]
    BY <1>3, Zenon DEF RetryDead
  <2> HIDE DEF replayed
  <2>2. \A j \in Job : recoveries'[j] \in {0, recoveries[j]} /\ recoveries[j] \in Nat
    BY <1>1, <2>1, Zenon
  <2>3. \A j \in Job : ~ (recoveries'[j] > recoveries[j])
    BY <2>2
  <2> QED BY <2>3, Zenon DEF RecoveredInTime
<1>4. ASSUME UNCHANGED recoveries PROVE RecoveredInTime
  <2>1. \A j \in Job : ~ (recoveries'[j] > recoveries[j])
    BY <1>1, <1>4
  <2> QED BY <2>1, Zenon DEF RecoveredInTime
<1>5. \/ \E want : Reap(want)
      \/ \E ids : RetryDead(ids)
      \/ UNCHANGED recoveries
  <2>1. \A j, q, max, runAt, key, ttl :
          Enqueue(j, q, max, runAt, key, ttl) => UNCHANGED recoveries
    BY ZenonT(30) DEF Enqueue
  <2>2. \A w, order, vt : Dequeue(w, order, vt) => UNCHANGED recoveries
    BY ZenonT(30) DEF Dequeue
  <2>3. \A w, j, retryAt : Ack(w, j) \/ Nack(w, j, retryAt) \/ Kill(w, j) => UNCHANGED recoveries
    BY ZenonT(30) DEF Ack, Nack, Kill, EndLease
  <2>4. \A order, w, ids, vt :
          DequeueNone(order) \/ Extend(w, ids, vt) \/ Close \/ Tick => UNCHANGED recoveries
    BY ZenonT(30) DEF DequeueNone, Extend, Close, Tick, jobs
  <2>5. \A ids : Promote \/ PurgeDead(ids) => UNCHANGED recoveries
    BY Zenon DEF Promote, PurgeDead
  <2> QED BY <2>1, <2>2, <2>3, <2>4, <2>5, Zenon DEF Next
<1> QED BY <1>2, <1>3, <1>4, <1>5, Zenon

-----------------------------------------------------------------------------
(* The memory broker implements the contract of Broker.                    *)

\* The expired leases, as Contract sees them.
Expired == {j \in Job : state[j] = "active" /\ deadline[j] <= now}

\* A step that is an operation of the contract or none.
Simulated == Contract!BrokerNext \/ UNCHANGED <<state, owner, attempt, maxAttempts, Expired>>

\* A step that leaves state, deadlines and the clock alone expires nothing.
LEMMA QuietSim ==
  ASSUME UNCHANGED <<state, owner, attempt, maxAttempts, deadline, now>>
  PROVE  Simulated
BY Zenon DEF Simulated, Expired

\* Storing a job is Enqueue of the contract.
LEMMA EnqueueSim ==
  ASSUME MInv, NEW j \in Job, NEW q \in Queue, NEW max \in Budgets,
         NEW runAt, NEW key, NEW ttl, Enqueue(j, q, max, runAt, key, ttl)
  PROVE  Simulated
<1>1. PICK to \in {"pending", "scheduled"} : state' = [state EXCEPT ![j] = to]
  BY Zenon DEF Enqueue
<1>2. /\ state[j] = "none" /\ maxAttempts' = [maxAttempts EXCEPT ![j] = max]
      /\ UNCHANGED <<owner, attempt, deadline, now>>
  BY Zenon DEF Enqueue
<1>3. \A k \in Job : state'[k] = "active" <=> state[k] = "active"
  BY <1>1, <1>2, Zenon DEF MInv, JobTypes
<1>4. Expired' = Expired
  BY <1>2, <1>3, Zenon DEF Expired
<1>5. Contract!Enqueue(j, max, to)
  BY <1>1, <1>2, <1>4, Zenon DEF Contract!Enqueue, Expired
<1> QED BY <1>5, Zenon DEF Simulated, Contract!BrokerNext

\* Claiming the job at the head of a queue is Dequeue of the contract: the job
\* is pending, and its new lease is not yet expired.
LEMMA ClaimSim ==
  ASSUME MInv, Tidy, NEW w \in Worker, NEW order \in Orders, NEW vt \in VisibilityTimeouts,
         Dequeue(w, order, vt)
  PROVE  Simulated
<1>1. JobTypes /\ pending \in [Queue -> Seq(Job)] /\ now \in Nat
  BY Zenon DEF MInv, ListTypes, RestTypes
<1>2. PICK q \in Queue, Q \in SUBSET Queue, j \in Job : ClaimOf(w, q, Q, j, vt)
  BY <1>1, ClaimFacts, Zenon
<1>3. /\ j = Head(pending[q]) /\ pending[q] # <<>>
      /\ state' = [state EXCEPT ![j] = "active"]
      /\ owner' = [owner EXCEPT ![j] = w]
      /\ attempt' = [attempt EXCEPT ![j] = @ + 1]
      /\ deadline' = [deadline EXCEPT ![j] = now + vt]
      /\ UNCHANGED <<maxAttempts, now>>
  BY <1>2, Zenon DEF ClaimOf
<1>4. j \in Range(pending[q])
  BY <1>1, <1>3, TailFacts, Zenon
<1>5. state[j] = "pending"
  BY <1>4, Zenon DEF Tidy, Placed
<1>6. /\ \A k \in Job : state'[k] = IF k = j THEN "active" ELSE state[k]
      /\ \A k \in Job : deadline'[k] = IF k = j THEN now + vt ELSE deadline[k]
      /\ ~ (now + vt <= now)
  <2>1. vt \in Nat \ {0}
    BY MemoryAssumption, Zenon
  <2>2. ~ (now + vt <= now)
    BY <1>1, <2>1
  <2> QED BY <1>1, <1>3, <2>2, Zenon DEF JobTypes
<1>7. Expired' = Expired
  <2>1. \A k \in Job : state'[k] = "active" /\ deadline'[k] <= now <=>
                       state[k] = "active" /\ deadline[k] <= now
    BY <1>5, <1>6, Zenon
  <2> QED BY <1>3, <2>1, Zenon DEF Expired
<1>8. Contract!Dequeue(w, j)
  BY <1>3, <1>5, <1>7, Zenon DEF Contract!Dequeue, Expired
<1> QED BY <1>8, Zenon DEF Simulated, Contract!BrokerNext

\* Dropping a lease is Leave of the contract.
LEMMA LeaveSim ==
  ASSUME MInv, NEW w \in Worker, NEW j \in Job,
         NEW to \in {"gone", "retry", "dead"}, EndLease(w, j, to)
  PROVE  Contract!Leave(w, j, to)
<1>1. /\ state[j] = "active" /\ owner[j] = w
      /\ state' = [state EXCEPT ![j] = to]
      /\ owner' = [owner EXCEPT ![j] = NoOwner]
      /\ UNCHANGED <<attempt, maxAttempts, deadline, now>>
  BY Zenon DEF EndLease, ownedActive
<1>2. \A k \in Job : state'[k] = IF k = j THEN to ELSE state[k]
  BY <1>1, Zenon DEF MInv, JobTypes
<1>3. Expired' = Expired \ {j}
  BY <1>1, <1>2, Zenon DEF Expired
<1> QED BY <1>1, <1>3, Zenon DEF Contract!Leave, Contract!Holds, Expired

\* Ack, Nack and Kill are the operations of the contract of the same name; an
\* acknowledged envelope is deleted at once.
LEMMA ReportSim ==
  ASSUME MInv, NEW w \in Worker, NEW j \in Job, NEW retryAt,
         Ack(w, j) \/ Nack(w, j, retryAt) \/ Kill(w, j)
  PROVE  Simulated
<1>1. CASE Ack(w, j)
  <2>1. Contract!Leave(w, j, "gone")
    BY <1>1, LeaveSim, Zenon DEF Ack
  <2> QED BY <2>1, Zenon DEF Contract!Ack, Simulated, Contract!BrokerNext
<1>2. CASE Kill(w, j)
  <2>1. Contract!Leave(w, j, "dead")
    BY <1>2, LeaveSim, Zenon DEF Kill
  <2> QED BY <2>1, Zenon DEF Contract!Kill, Simulated, Contract!BrokerNext
<1>3. CASE Nack(w, j, retryAt)
  <2>1. Exhausted(j) => Contract!Leave(w, j, "dead")
    BY <1>3, LeaveSim, Zenon DEF Nack
  <2>2. ~ Exhausted(j) => Contract!Leave(w, j, "retry")
    BY <1>3, LeaveSim, Zenon DEF Nack
  <2>3. Contract!Nack(w, j)
    <3>1. CASE Exhausted(j)
      BY <2>1, <3>1, Zenon DEF Contract!Nack, Contract!Leave, Contract!Exhausted, Exhausted
    <3>2. CASE ~ Exhausted(j)
      BY <2>2, <3>2, Zenon DEF Contract!Nack, Contract!Leave, Contract!Exhausted, Exhausted
    <3> QED BY <3>1, <3>2, Zenon
  <2> QED BY <2>3, Zenon DEF Simulated, Contract!BrokerNext
<1> QED BY <1>1, <1>2, <1>3, Zenon

\* Renewal is Extend of the contract: the renewed leases are expired no more.
LEMMA ExtendSim ==
  ASSUME MInv, NEW w \in Worker, NEW ids \in SUBSET Job, NEW vt \in VisibilityTimeouts,
         Extend(w, ids, vt)
  PROVE  Simulated
<1> DEFINE held == {j \in ids : ownedActive(w, j)}
<1>1. /\ deadline' = [j \in Job |-> IF j \in held THEN now + vt ELSE deadline[j]]
      /\ UNCHANGED <<state, owner, attempt, maxAttempts, now>>
  BY Zenon DEF Extend
<1>2. ~ (now + vt <= now)
  <2>1. vt \in Nat \ {0} /\ now \in Nat
    BY MemoryAssumption, Zenon DEF MInv, RestTypes
  <2> QED BY <2>1
<1>3. ids \ Contract!Lost(w, ids) = held
  BY Zenon DEF Contract!Lost, Contract!Holds, ownedActive
<1> HIDE DEF held
<1>4. Expired' = Expired \ held
  BY <1>1, <1>2, Zenon DEF Expired
<1>5. Contract!Extend(w, ids)
  BY <1>1, <1>3, <1>4, Zenon DEF Contract!Extend, Expired
<1> QED BY <1>5, Zenon DEF Simulated, Contract!BrokerNext

\* Recovery is Reap of the contract: every lease it takes has expired.
LEMMA ReapSim ==
  ASSUME MInv, Tidy, NEW want, Reap(want)
  PROVE  Simulated
<1>1. PICK z : \E S \in SUBSET Job :
        /\ Reaped(z, S, {j \in S : Exhausted(j)}) /\ S # {}
        /\ \A j \in S : Exists(j) /\ active[j] # NoScore /\ active[j] <= now
  BY ReapedFacts, Zenon
<1>2. PICK S \in SUBSET Job :
        /\ Reaped(z, S, {j \in S : Exhausted(j)}) /\ S # {}
        /\ \A j \in S : Exists(j) /\ active[j] # NoScore /\ active[j] <= now
  BY <1>1, Zenon
<1>3. ASSUME NEW j \in S PROVE j \in Expired
  <2>1. j \in Job /\ Placed(j) /\ active[j] # NoScore /\ active[j] <= now
    BY <1>2, Zenon DEF Tidy
  <2>2. state[j] = "active" /\ active[j] = deadline[j]
    BY <2>1, Zenon DEF Placed
  <2>3. deadline[j] <= now
    BY <2>1, <2>2, Zenon
  <2> QED BY <2>1, <2>2, <2>3, Zenon DEF Expired
<1>4. /\ owner' = [j \in Job |-> IF j \in S THEN NoOwner ELSE owner[j]]
      /\ UNCHANGED <<attempt, maxAttempts, deadline, now>>
  BY <1>2, Zenon DEF Reaped
<1>5. state' = [j \in Job |-> IF j \notin S THEN state[j]
                              ELSE IF Exhausted(j) THEN "dead" ELSE "pending"]
  <2> DEFINE D == {j \in S : Exhausted(j)}
  <2>1. state' = [j \in Job |-> IF j \in D THEN "dead"
                                ELSE IF j \in S \ D THEN "pending" ELSE state[j]]
    BY <1>2, Zenon DEF Reaped
  <2> QED BY <2>1, Zenon
<1>6. Expired' = Expired \ S
  <2>1. \A j \in S : state'[j] # "active"
    BY <1>5, Zenon
  <2>2. \A j \in Job \ S : state'[j] = state[j]
    BY <1>5, Zenon
  <2> QED BY <1>4, <2>1, <2>2, Zenon DEF Expired
<1>7. Contract!Reap(S)
  <2>1. S \subseteq Expired
    BY <1>3, Zenon
  <2> QED BY <1>2, <1>4, <1>5, <1>6, <2>1, Zenon
          DEF Contract!Reap, Contract!Exhausted, Exhausted, Expired
<1> QED BY <1>7, Zenon DEF Simulated, Contract!BrokerNext

\* Promotion is Promote of the contract, and invisible if every ID it takes
\* dangles.
LEMMA PromoteSim ==
  ASSUME MInv, Tidy, Promote
  PROVE  Simulated
<1> DEFINE at == [j \in Job |-> IF scheduled[j] # NoScore THEN scheduled[j] ELSE retry[j]]
           S == Batch(at, PromoteLimit)
           B == {j \in S : Exists(j)}
<1>1. /\ state' = [j \in Job |-> IF j \in B THEN "pending" ELSE state[j]]
      /\ UNCHANGED <<owner, attempt, maxAttempts, deadline, now>>
  BY Zenon DEF Promote
<1>2. ASSUME NEW j \in S PROVE j \in Job /\ state[j] \in {"scheduled", "retry"}
  <2>1. at = [k \in Job |-> IF scheduled[k] # NoScore THEN scheduled[k] ELSE retry[k]]
    BY Zenon
  <2> HIDE DEF at
  <2>2. j \in Job /\ at[j] # NoScore
    BY ScanFacts, Zenon
  <2> HIDE DEF S
  <2>3. at[j] = IF scheduled[j] # NoScore THEN scheduled[j] ELSE retry[j]
    BY <2>1, <2>2, Zenon
  <2>4. Placed(j) /\ (scheduled[j] # NoScore \/ retry[j] # NoScore)
    BY <2>2, <2>3, Zenon DEF Tidy
  <2> QED BY <2>2, <2>4, Zenon DEF Placed
<1> HIDE DEF S
<1>3. B \in SUBSET Job /\ \A j \in B : state[j] \in {"scheduled", "retry"}
  BY <1>2, Zenon
<1> HIDE DEF B
<1>4. Expired' = Expired
  <2>1. \A j \in Job : state'[j] = "active" <=> state[j] = "active"
    BY <1>1, <1>3, Zenon
  <2> QED BY <1>1, <2>1, Zenon DEF Expired
<1>5. CASE B = {}
  <2>1. state' = state
    BY <1>1, <1>5, Zenon DEF MInv, JobTypes
  <2> QED BY <1>1, <1>4, <2>1, Zenon DEF Simulated
<1>6. CASE B # {}
  <2>1. Contract!Promote(B)
    BY <1>1, <1>3, <1>4, <1>6, Zenon DEF Contract!Promote, Expired
  <2> QED BY <1>3, <2>1, Zenon DEF Simulated, Contract!BrokerNext
<1> QED BY <1>5, <1>6, Zenon

\* A replay is RetryDead of the contract: what it selects is dead and unowned.
LEMMA RetryDeadSim ==
  ASSUME Counting, MInv, Tidy, NEW ids \in Seq(Job), RetryDead(ids)
  PROVE  Simulated
<1> DEFINE B == Range(selectDead(ids))
<1>1. /\ state' = [j \in Job |-> IF j \in B THEN "pending" ELSE state[j]]
      /\ attempt' = [j \in Job |-> IF j \in B THEN 0 ELSE attempt[j]]
      /\ owner' = [j \in Job |-> IF j \in B THEN NoOwner ELSE owner[j]]
      /\ UNCHANGED <<maxAttempts, deadline, now>> /\ selectDead(ids) # <<>>
  BY Zenon DEF RetryDead
<1>2. dead \in Seq(Job) /\ owner \in [Job -> Worker \cup {NoOwner}]
  BY Zenon DEF MInv, JobTypes, ListTypes
<1>3. /\ selectDead(ids) \in Seq(Job) /\ B \in SUBSET Job
      /\ \A j \in B : j \in Range(dead)
  BY <1>2, SelectFacts, Zenon
<1>4. B # {}
  <2>1. \A s \in Seq(Job) : s # <<>> => Range(s) # {}
    <3> SUFFICES ASSUME NEW s \in Seq(Job), s # <<>> PROVE Range(s) # {}
      BY Zenon
    <3>1. Head(s) \in Range(s)
      BY TailFacts, Zenon
    <3> QED BY <3>1, Zenon
  <2> QED BY <1>1, <1>3, <2>1, Zenon
<1> HIDE DEF B
<1>5. \A j \in B : state[j] = "dead" /\ owner[j] = NoOwner
  BY <1>3, DeadFacts, Zenon
<1>6. owner' = owner
  <2>1. owner' = [j \in Job |-> owner[j]]
    BY <1>1, <1>5, Zenon
  <2> QED BY <1>2, <2>1, Zenon
<1>7. Expired' = Expired
  <2>1. \A j \in Job : state'[j] = "active" <=> state[j] = "active"
    BY <1>1, <1>5, Zenon
  <2> QED BY <1>1, <2>1, Zenon DEF Expired
<1>8. Contract!RetryDead(B)
  BY <1>1, <1>4, <1>5, <1>6, <1>7, Zenon DEF Contract!RetryDead, Expired
<1> QED BY <1>3, <1>8, Zenon DEF Simulated, Contract!BrokerNext

\* A purge is Remove of the contract.
LEMMA PurgeDeadSim ==
  ASSUME Counting, MInv, NEW ids \in Seq(Job), PurgeDead(ids)
  PROVE  Simulated
<1> DEFINE G == Range(selectDead(ids))
<1>1. /\ state' = [j \in Job |-> IF j \in G THEN "gone" ELSE state[j]]
      /\ owner' = [j \in Job |-> IF j \in G THEN NoOwner ELSE owner[j]]
      /\ UNCHANGED <<attempt, maxAttempts, deadline, now>> /\ G # {}
  BY Zenon DEF PurgeDead
<1>2. G \in SUBSET Job /\ \A j \in G : state[j] \notin {"none", "gone"}
  BY SelectFacts, Zenon DEF MInv, ListTypes, Exists
<1> HIDE DEF G
<1>3. Expired' = Expired \ G
  <2>1. /\ \A j \in G : state'[j] = "gone"
        /\ \A j \in Job \ G : state'[j] = state[j]
    BY <1>1, <1>2, Zenon
  <2>2. \A j \in G : state'[j] # "active"
    BY <2>1, Zenon
  <2> QED BY <1>1, <2>1, <2>2, Zenon DEF Expired
<1>4. PICK gone \in SUBSET Job : gone = G
  BY <1>2, Zenon
<1>5. Contract!Remove(gone)
  <2>1. /\ G # {} /\ \A j \in G : state[j] \notin {"none", "gone"}
        /\ state' = [j \in Job |-> IF j \in G THEN "gone" ELSE state[j]]
        /\ owner' = [j \in Job |-> IF j \in G THEN NoOwner ELSE owner[j]]
        /\ UNCHANGED <<attempt, maxAttempts>>
    BY <1>1, <1>2, Zenon
  <2>2. {j \in Job : state[j] = "active" /\ deadline[j] <= now}'
          = {j \in Job : state[j] = "active" /\ deadline[j] <= now} \ G
    BY <1>3, Zenon DEF Expired
  <2> QED BY <1>4, <2>1, <2>2, Zenon DEF Contract!Remove
<1> QED BY <1>5, Zenon DEF Simulated, Contract!BrokerNext

\* A tick lapses the leases whose deadline it reaches.
LEMMA TickSim ==
  ASSUME MInv, Tick
  PROVE  Simulated
<1>1. now' = now + 1 /\ UNCHANGED <<state, owner, attempt, maxAttempts, deadline>>
  BY Zenon DEF Tick, jobs
<1>2. now \in Nat /\ deadline \in [Job -> Nat]
  BY Zenon DEF MInv, JobTypes, RestTypes
<1>3. Expired \subseteq Expired' /\ Expired' \in SUBSET Job
  BY <1>1, <1>2 DEF Expired
<1> DEFINE late == Expired' \ Expired
<1>4. \A j \in late : j \in Job /\ state[j] = "active" /\ j \notin Expired
  BY <1>1, Zenon DEF Expired
<1>5. Expired' = Expired \cup late /\ late \in SUBSET Job
  BY <1>3, Zenon
<1> HIDE DEF late
<1>6. PICK ids \in SUBSET Job : ids = late
  BY <1>5, Zenon
<1>7. late = {} => Expired' = Expired
  BY <1>5, Zenon
<1>8. CASE late = {}
  BY <1>1, <1>7, <1>8, Zenon DEF Simulated
<1>9. CASE late # {}
  <2>1. Contract!Lapse(ids)
    BY <1>1, <1>4, <1>5, <1>6, <1>9, Zenon DEF Contract!Lapse, Expired
  <2> QED BY <2>1, Zenon DEF Simulated, Contract!BrokerNext
<1> QED BY <1>8, <1>9, Zenon

\* Whether a job has been replayed twice in one call is never forgotten.
LEMMA RepeatedStays ==
  ASSUME MInv, [Next]_vars, ~ repeated'
  PROVE  ~ repeated
<1>1. CASE \E ids : RetryDead(ids)
  <2>1. PICK ids : repeated' = (repeated \/ ~ IsInjective(selectDead(ids)))
    BY <1>1, Zenon DEF RetryDead
  <2> QED BY <2>1, Zenon
<1>2. CASE repeated' = repeated
  BY <1>2, Zenon
<1>3. (\E ids : RetryDead(ids)) \/ repeated' = repeated
  <2>1. \A j, q, max, runAt, key, ttl :
          Enqueue(j, q, max, runAt, key, ttl) => repeated' = repeated
    BY ZenonT(30) DEF Enqueue, mode
  <2>2. \A w, order, vt : Dequeue(w, order, vt) => repeated' = repeated
    BY ZenonT(30) DEF Dequeue, mode
  <2>3. \A w, j, retryAt : Ack(w, j) \/ Nack(w, j, retryAt) \/ Kill(w, j) => repeated' = repeated
    BY ZenonT(30) DEF Ack, Nack, Kill, EndLease, mode
  <2>4. \A order, w, ids, vt :
          DequeueNone(order) \/ Extend(w, ids, vt) \/ Close \/ Tick \/ UNCHANGED vars
            => repeated' = repeated
    BY ZenonT(30) DEF DequeueNone, Extend, Close, Tick, vars, mode
  <2>5. \A ids, want : Promote \/ PurgeDead(ids) \/ Reap(want) => repeated' = repeated
    BY ZenonT(30) DEF Promote, PurgeDead, Reap, mode
  <2> QED BY <2>1, <2>2, <2>3, <2>4, <2>5, Zenon DEF Next
<1> QED BY <1>1, <1>2, <1>3, Zenon

\* Every step is a step of the contract, or none, until an operator replays a
\* job twice in one call.
LEMMA NextSim ==
  ASSUME Counting, MInv, [Next]_vars
  PROVE  [Contract!BrokerNext \/ repeated']_(Contract!brokerVars)
<1> SUFFICES ASSUME ~ repeated' PROVE Simulated
  BY Zenon DEF Simulated, Contract!brokerVars, Expired
<1>1. Tidy
  <2>1. ~ repeated
    BY RepeatedStays, Zenon
  <2> QED BY <2>1, Zenon DEF MInv
<1>2. ASSUME NEW j \in Job, NEW q \in Queue, NEW max \in Budgets, NEW runAt \in 0..MaxTime,
             NEW key \in Key, NEW ttl \in UniqueTTLs, Enqueue(j, q, max, runAt, key, ttl)
      PROVE  Simulated
  BY <1>2, EnqueueSim, Zenon
<1>3. ASSUME NEW w \in Worker, NEW order \in Orders, NEW vt \in VisibilityTimeouts,
             Dequeue(w, order, vt)
      PROVE  Simulated
  BY <1>1, <1>3, ClaimSim, Zenon
<1>4. ASSUME NEW order, DequeueNone(order) \/ Close \/ UNCHANGED vars
      PROVE  Simulated
  <2>1. UNCHANGED <<state, owner, attempt, maxAttempts, deadline, now>>
    BY <1>4, Zenon DEF DequeueNone, Close, vars, jobs
  <2> QED BY <2>1, QuietSim, Zenon
<1>5. ASSUME NEW w \in Worker, NEW j \in Job, NEW retryAt,
             Ack(w, j) \/ Nack(w, j, retryAt) \/ Kill(w, j)
      PROVE  Simulated
  BY <1>5, ReportSim, Zenon
<1>6. ASSUME NEW w \in Worker, NEW ids \in SUBSET Job, NEW vt \in VisibilityTimeouts,
             Extend(w, ids, vt)
      PROVE  Simulated
  BY <1>6, ExtendSim, Zenon
<1>7. ASSUME NEW want, Reap(want) \/ Promote \/ Tick PROVE Simulated
  BY <1>1, <1>7, ReapSim, PromoteSim, TickSim, Zenon
<1>8. ASSUME NEW ids \in OperatorIDs, RetryDead(ids) \/ PurgeDead(ids) PROVE Simulated
  BY <1>1, <1>8, OperatorFacts, RetryDeadSim, PurgeDeadSim, Zenon
<1> QED BY <1>2, <1>3, <1>4, <1>5, <1>6, <1>7, <1>8, Zenon DEF Next

-----------------------------------------------------------------------------
(* The theorems.                                                           *)
INSTANCE FiniteSetTheorems

\* Finite sets are counted as Counting says.
LEMMA Counted == Counting
<1>1. Cardinality({}) = 0 /\ \A x : Cardinality({x}) = 1
  BY FS_EmptySet, FS_Singleton, Zenon
<1>2. \A n \in Nat : IsFiniteSet(1..n) /\ Cardinality(1..n) = n
  BY FS_Interval
<1>3. ASSUME NEW S, IsFiniteSet(S)
      PROVE  /\ Cardinality(S) \in Nat /\ (Cardinality(S) = 0 => S = {})
             /\ \A T \in SUBSET S :
                  /\ IsFiniteSet(T) /\ Cardinality(T) <= Cardinality(S)
                  /\ Cardinality(S) = Cardinality(T) => S = T
             /\ \A T, f : f \in Injection(T, S) /\ Cardinality(T) = Cardinality(S) =>
                  f \in Surjection(T, S)
  <2>1. Cardinality(S) \in Nat /\ (Cardinality(S) = 0 => S = {})
    BY <1>3, FS_CardinalityType, FS_EmptySet, Zenon
  <2>2. ASSUME NEW T \in SUBSET S
        PROVE  /\ IsFiniteSet(T) /\ Cardinality(T) <= Cardinality(S)
               /\ Cardinality(S) = Cardinality(T) => S = T
    BY <1>3, FS_Subset, Zenon
  <2>3. ASSUME NEW T, NEW f, f \in Injection(T, S), Cardinality(T) = Cardinality(S)
        PROVE  f \in Surjection(T, S)
    BY <1>3, <2>3, FS_Injection, Zenon
  <2> QED BY <2>1, <2>2, <2>3, Zenon
<1> QED BY <1>1, <1>2, <1>3, Zenon DEF Counting

\* MInv holds throughout every execution of the memory broker.
THEOREM MemoryInvariance == Spec => []MInv
<1>1. MInv /\ [Next]_vars => MInv'
  BY Counted, NextInv, Zenon
<1> QED BY <1>1, InitInv, PTL DEF Spec

\* Every stored job can be found by the operation that handles its state,
\* whatever operators do, a repeated replay included.
THEOREM MemoryKeepsJobs == Spec => []NothingLost
<1>1. MInv => NothingLost
  BY Zenon DEF MInv
<1> QED BY <1>1, MemoryInvariance, PTL

\* Jobs accepted under one unique key have disjoint windows.
THEOREM MemoryUnique == Spec => []UniqueWindow
<1>1. MInv => UniqueWindow
  BY Zenon DEF MInv
<1> QED BY <1>1, MemoryInvariance, PTL

\* Until an operator replays a job twice in one call, every job is only in the
\* structure its state names, and there once: no ID dangles, no job is pending
\* twice, and the lease map holds the deadline the holder was told.  This is
\* the placement behind the figures of Stats.
THEOREM MemoryTidy == Spec => [](~ repeated => Tidy)
<1>1. MInv => (~ repeated => Tidy)
  BY Zenon DEF MInv
<1> QED BY <1>1, MemoryInvariance, PTL

\* No lease is recovered before the deadline its holder was last told, until an
\* operator replays a job twice in one call.
THEOREM MemoryRecoveryTimely == Spec => NoEarlyRecovery
<1>1. MInv /\ [Next]_vars => [RecoveredInTime]_vars
  BY RecoveryStep, Zenon
<1>2. MInv /\ [Next]_vars =>
        [\A j \in Job : ~ repeated /\ recoveries'[j] > recoveries[j] =>
           state[j] = "active" /\ deadline[j] <= now]_vars
  BY <1>1, Zenon DEF RecoveredInTime
<1> QED BY <1>2, MemoryInvariance, PTL DEF Spec, NoEarlyRecovery

\* The memory broker implements the broker contract of broker.go, the replays
\* and purges of its Inspector included, until an operator replays a job twice
\* in one call.
THEOREM MemoryImplements == Spec => ImplementsContract
<1>1. Init => Contract!BrokerInit
  BY Zenon DEF Init, Contract!BrokerInit
<1>2. MInv /\ [Next]_vars => [Contract!BrokerNext \/ repeated']_(Contract!brokerVars)
  BY Counted, NextSim, Zenon
<1> QED BY <1>1, <1>2, MemoryInvariance, PTL DEF Spec, ImplementsContract

-----------------------------------------------------------------------------
(* The figures of Stats.                                                   *)

\* A set of naturals that is not empty has a least element.
LEMMA Least ==
  ASSUME NEW S, S \subseteq Nat, S # {}
  PROVE  \E n \in S : \A m \in S : n <= m
<1>1. PICK n \in S : \A m \in S : ~ (<<m, n>> \in OpToRel(<, Nat))
  BY NatLessThanWellFounded, WFMin, Zenon
<1>2. \A m \in S : ~ (m < n)
  BY <1>1, Zenon DEF OpToRel
<1> QED BY <1>2

\* W has 0 for no index, and for more of them the value of f at the chosen one
\* added to the rest.
Tallies(W, f, Q) ==
  /\ DOMAIN f = Q /\ W \in [SUBSET Q -> Nat] /\ W[{}] = 0
  /\ \A s \in SUBSET Q : s # {} =>
       W[s] = f[CHOOSE x \in s : TRUE] + W[s \ {CHOOSE x \in s : TRUE}]

\* SumFunction adds the values of f up one by one.
LEMMA SumFacts ==
  ASSUME NEW Q, IsFiniteSet(Q), NEW f, NEW W, Tallies(W, f, Q)
  PROVE  SumFunction(f) = W[Q]
<1>0. /\ DOMAIN f = Q /\ W \in [SUBSET Q -> Nat] /\ W[{}] = 0
      /\ \A s \in SUBSET Q : s # {} =>
           W[s] = f[CHOOSE x \in s : TRUE] + W[s \ {CHOOSE x \in s : TRUE}]
  BY Zenon DEF Tallies
<1> DEFINE first(s) == CHOOSE x \in s : TRUE
           body(g) == [s \in SUBSET Q |->
                         IF s = {} THEN 0 ELSE f[first(s)] + g[s \ {first(s)}]]
           iter == CHOOSE g : g = body(g)
<1>1. SumFunction(f) = iter[Q]
  BY <1>0, Zenon DEF SumFunction, SumFunctionOnSet, FoldFunctionOnSet, MapThenFoldSet
<1>2. iter = body(iter)
  <2>1. W = [s \in SUBSET Q |-> W[s]]
    BY <1>0, Zenon
  <2>2. \A s \in SUBSET Q : W[s] = IF s = {} THEN 0 ELSE f[first(s)] + W[s \ {first(s)}]
    BY <1>0, Zenon
  <2>3. W = body(W)
    BY <2>1, <2>2, Zenon
  <2>4. \E g : g = body(g)
    BY <2>3, Zenon
  <2> HIDE DEF body
  <2> QED BY <2>4, Zenon
<1>3. \A s \in SUBSET Q : s # {} => first(s) \in s /\ s \ {first(s)} \in SUBSET Q
  BY Zenon
<1>4. \A s \in SUBSET Q : iter[s] = IF s = {} THEN 0 ELSE f[first(s)] + iter[s \ {first(s)}]
  <2> HIDE DEF iter
  <2>1. \A s \in SUBSET Q :
          body(iter)[s] = IF s = {} THEN 0 ELSE f[first(s)] + iter[s \ {first(s)}]
    BY Zenon
  <2> QED BY <1>2, <2>1, Zenon
<1>5. \A s \in SUBSET Q : s # {} => W[s] = f[first(s)] + W[s \ {first(s)}]
  BY <1>0, Zenon
<1> HIDE DEF iter, first
<1> DEFINE bad == {s \in SUBSET Q : iter[s] # W[s]}
<1>6. bad = {}
  <2> SUFFICES ASSUME bad # {} PROVE FALSE
    BY Zenon
  <2>1. \A s \in SUBSET Q : IsFiniteSet(s) /\ Cardinality(s) \in Nat
    BY FS_Subset, FS_CardinalityType, Zenon
  <2>2. \A s \in bad : s \in SUBSET Q
    BY Zenon
  <2> DEFINE sizes == {Cardinality(s) : s \in bad}
  <2>3. PICK s \in bad : \A t \in bad : Cardinality(s) <= Cardinality(t)
    <3> HIDE DEF bad
    <3>1. sizes \subseteq Nat
      BY <2>1, <2>2, Zenon
    <3>2. sizes # {}
      <4>1. PICK s : s \in bad
        BY Zenon
      <4>2. Cardinality(s) \in sizes
        BY <4>1, Zenon
      <4> QED BY <4>2, Zenon
    <3>3. \E n \in sizes : \A m \in sizes : n <= m
      <4> HIDE DEF sizes
      <4> QED BY <3>1, <3>2, Least, Zenon
    <3>4. PICK n \in sizes : \A m \in sizes : n <= m
      BY <3>3, Zenon
    <3>5. PICK s \in bad : n = Cardinality(s)
      BY <3>4, Zenon
    <3>6. \A t \in bad : Cardinality(t) \in sizes
      BY Zenon
    <3> HIDE DEF sizes
    <3> QED BY <3>4, <3>5, <3>6, Zenon
  <2>4. s # {}
    <3>1. {} \in SUBSET Q /\ iter[{}] = 0
      BY <1>4, Zenon
    <3> QED BY <1>0, <2>3, <3>1, ZenonT(30)
  <2>5. first(s) \in s /\ s \ {first(s)} \in SUBSET Q /\ s \in SUBSET Q
    BY <1>3, <2>3, <2>4, Zenon
  <2>6. Cardinality(s \ {first(s)}) = Cardinality(s) - 1
    BY <2>1, <2>5, FS_RemoveElement, ZenonT(30)
  <2>7. s \ {first(s)} \notin bad
    <3>1. ~ (Cardinality(s) <= Cardinality(s) - 1)
      BY <2>1, <2>5
    <3> QED BY <2>3, <2>6, <3>1, ZenonT(30)
  <2>8. iter[s \ {first(s)}] = W[s \ {first(s)}]
    BY <2>5, <2>7, Zenon
  <2>9. iter[s] = f[first(s)] + iter[s \ {first(s)}] /\ W[s] = f[first(s)] + W[s \ {first(s)}]
    BY <1>4, <1>5, <2>4, <2>5, ZenonT(30)
  <2> QED BY <2>3, <2>8, <2>9, Zenon
<1>7. iter[Q] = W[Q]
  BY <1>6, Zenon
<1> QED BY <1>1, <1>7, Zenon

\* Sets of jobs are finite, and the sizes of disjoint ones add up.
LEMMA UnionFacts ==
  ASSUME NEW S \in SUBSET Job, NEW T \in SUBSET Job, S \cap T = {}
  PROVE  /\ IsFiniteSet(S) /\ Cardinality(S) \in Nat /\ Cardinality(T) \in Nat
         /\ Cardinality(S \cup T) = Cardinality(S) + Cardinality(T)
<1>1. IsFiniteSet(S) /\ IsFiniteSet(T) /\ Cardinality(S) \in Nat /\ Cardinality(T) \in Nat
  BY MemoryAssumption, FS_Subset, FS_CardinalityType, Zenon
<1>2. Cardinality(S \cup T) = Cardinality(S) + Cardinality(T) - Cardinality(S \cap T)
  BY <1>1, FS_Union, Zenon
<1>3. Cardinality(S \cap T) = 0
  BY FS_EmptySet, Zenon
<1> QED BY <1>1, <1>2, <1>3

\* A list without repetition is as long as the set of its elements is large.
LEMMA LengthFacts ==
  ASSUME NEW s \in Seq(Job), IsInjective(s)
  PROVE  Len(s) \in Nat /\ Len(s) = Cardinality(Range(s))
<1>1. Len(s) \in Nat /\ DOMAIN s = 1..Len(s) /\ s \in [1..Len(s) -> Job]
  OBVIOUS
<1>2. s \in [1..Len(s) -> Range(s)]
  BY <1>1, Zenon DEF Range
<1>3. s \in Surjection(1..Len(s), Range(s)) /\ s \in Injection(1..Len(s), Range(s))
  BY <1>1, <1>2, Zenon DEF Range, Surjection, Injection
<1>4. IsFiniteSet(1..Len(s)) /\ Cardinality(1..Len(s)) = Len(s)
  BY <1>1, Counted, Zenon DEF Counting
<1> QED BY <1>1, <1>3, <1>4, FS_Surjection, Zenon

\* The stored jobs of a queue that are not in the dead-letter list, and those
\* of several queues.
Waiting(q) == {j \in Job : Exists(j) /\ state[j] # "dead" /\ queue[j] = q}
WaitingIn(Q) == {j \in Job : Exists(j) /\ state[j] # "dead" /\ queue[j] \in Q}

\* The jobs of queue q in a state.
InState(x, q) == {j \in Job : state[j] = x /\ queue[j] = q}

\* The figures of a queue count its stored jobs, each once.
LEMMA QueueFigures ==
  ASSUME MInv, Tidy, NEW q \in Queue
  PROVE  /\ Stats.queues[q].pending + Stats.queues[q].active + Stats.queues[q].scheduled
              + Stats.queues[q].retry = Cardinality(Waiting(q))
         /\ Cardinality(Waiting(q)) \in Nat
<1>1. /\ \A j \in Job : state[j] \in States /\ Placed(j) /\ Found(j)
      /\ pending[q] \in Seq(Job) /\ IsInjective(pending[q])
      /\ \A j \in Job : Exists(j) => queue[j] \in Queue
  BY Zenon DEF MInv, JobTypes, ListTypes, Queued, NothingLost, Tidy
<1>2. Range(pending[q]) = InState("pending", q)
  <2>1. Range(pending[q]) \subseteq Job
    BY <1>1 DEF Range
  <2> QED BY <1>1, <2>1, Zenon DEF InState, Placed, Found
<1>3. /\ {j \in Job : active[j] # NoScore /\ Exists(j) /\ queue[j] = q} = InState("active", q)
      /\ {j \in Job : scheduled[j] # NoScore /\ Exists(j) /\ queue[j] = q} = InState("scheduled", q)
      /\ {j \in Job : retry[j] # NoScore /\ Exists(j) /\ queue[j] = q} = InState("retry", q)
  BY <1>1, Zenon DEF InState, Placed, Found, Exists
<1>4. /\ Stats.queues[q].pending = Len(pending[q])
      /\ Stats.queues[q].active = Cardinality(InState("active", q))
      /\ Stats.queues[q].scheduled = Cardinality(InState("scheduled", q))
      /\ Stats.queues[q].retry = Cardinality(InState("retry", q))
  BY <1>3, Zenon DEF Stats
<1>5. Len(pending[q]) = Cardinality(InState("pending", q))
  BY <1>1, <1>2, LengthFacts, Zenon
<1> DEFINE A == InState("pending", q)
           B == InState("active", q)
           C == InState("scheduled", q)
           D == InState("retry", q)
<1>6. /\ A \in SUBSET Job /\ B \in SUBSET Job /\ C \in SUBSET Job /\ D \in SUBSET Job
      /\ A \cap B = {} /\ (A \cup B) \cap C = {} /\ (A \cup B \cup C) \cap D = {}
  BY Zenon DEF InState
<1>7. Waiting(q) = A \cup B \cup C \cup D
  BY <1>1, Zenon DEF Waiting, InState, Exists, States
<1> HIDE DEF A, B, C, D
<1>8. /\ Cardinality(A) \in Nat /\ Cardinality(B) \in Nat
      /\ Cardinality(A \cup B) = Cardinality(A) + Cardinality(B)
  BY <1>6, UnionFacts, Zenon
<1>9. /\ Cardinality(C) \in Nat
      /\ Cardinality(A \cup B \cup C) = Cardinality(A \cup B) + Cardinality(C)
  <2>1. A \cup B \in SUBSET Job
    BY <1>6, Zenon
  <2> QED BY <1>6, <2>1, UnionFacts, Zenon
<1>10. /\ Cardinality(D) \in Nat
       /\ Cardinality(A \cup B \cup C \cup D) = Cardinality(A \cup B \cup C) + Cardinality(D)
  <2>1. A \cup B \cup C \in SUBSET Job
    BY <1>6, Zenon
  <2> QED BY <1>6, <2>1, UnionFacts, ZenonT(30)
<1>11. /\ Stats.queues[q].pending = Cardinality(A) /\ Stats.queues[q].active = Cardinality(B)
       /\ Stats.queues[q].scheduled = Cardinality(C) /\ Stats.queues[q].retry = Cardinality(D)
  BY <1>4, <1>5, Zenon DEF A, B, C, D
<1>12. /\ Stats.queues[q].pending + Stats.queues[q].active + Stats.queues[q].scheduled
            + Stats.queues[q].retry
            = Cardinality(A) + Cardinality(B) + Cardinality(C) + Cardinality(D)
  BY <1>11, Zenon
<1>13. /\ Cardinality(Waiting(q)) = Cardinality(A) + Cardinality(B) + Cardinality(C) + Cardinality(D)
       /\ Cardinality(A) + Cardinality(B) + Cardinality(C) + Cardinality(D) \in Nat
  <2>1. Cardinality(Waiting(q)) = Cardinality(A \cup B \cup C \cup D)
    BY <1>7, Zenon
  <2> QED BY <1>8, <1>9, <1>10, <2>1
<1> QED BY <1>12, <1>13, Zenon

\* The figures of the queues and the length of the dead-letter list count the
\* stored jobs.
LEMMA FiguresAdd ==
  ASSUME MInv, Tidy,
         NEW f, f = [q \in Queue |-> Cardinality(Waiting(q))]
  PROVE  SumFunction(f) + Stats.dead = Cardinality({j \in Job : Exists(j)})
<1>1. /\ \A j \in Job : state[j] \in States /\ Placed(j) /\ Found(j)
      /\ dead \in Seq(Job) /\ IsInjective(dead)
      /\ \A j \in Job : Exists(j) => queue[j] \in Queue
  BY Zenon DEF MInv, JobTypes, ListTypes, Queued, NothingLost, Tidy
<1> DEFINE W == [s \in SUBSET Queue |-> Cardinality(WaitingIn(s))]
           D == {j \in Job : state[j] = "dead"}
<1>2. \A s : WaitingIn(s) \in SUBSET Job
  BY Zenon DEF WaitingIn
<1>3. \A s : Cardinality(WaitingIn(s)) \in Nat
  BY <1>2, MemoryAssumption, FS_Subset, FS_CardinalityType, Zenon
<1>4. W \in [SUBSET Queue -> Nat] /\ \A s \in SUBSET Queue : W[s] = Cardinality(WaitingIn(s))
  BY <1>3, Zenon
<1>5. W[{}] = 0
  <2>1. {} \in SUBSET Queue /\ WaitingIn({}) = {}
    BY Zenon DEF WaitingIn
  <2> QED BY <1>4, <2>1, FS_EmptySet, Zenon
<1>6. ASSUME NEW s \in SUBSET Queue, s # {}
      PROVE  W[s] = f[CHOOSE x \in s : TRUE] + W[s \ {CHOOSE x \in s : TRUE}]
  <2> SUFFICES ASSUME NEW x \in s, x = CHOOSE y \in s : TRUE
               PROVE  W[s] = f[x] + W[s \ {x}]
    BY <1>6, Zenon
  <2>1. x \in Queue /\ f[x] = Cardinality(Waiting(x)) /\ s \ {x} \in SUBSET Queue
    BY Zenon
  <2>2. /\ WaitingIn(s) = Waiting(x) \cup WaitingIn(s \ {x})
        /\ Waiting(x) \cap WaitingIn(s \ {x}) = {}
        /\ Waiting(x) \in SUBSET Job
    BY Zenon DEF WaitingIn, Waiting
  <2>3. Cardinality(WaitingIn(s)) = Cardinality(Waiting(x)) + Cardinality(WaitingIn(s \ {x}))
    BY <1>2, <2>2, UnionFacts, ZenonT(30)
  <2> QED BY <1>4, <2>1, <2>3, ZenonT(30)
<1>7. IsFiniteSet(Queue) /\ DOMAIN f = Queue
  BY MemoryAssumption, Zenon
<1> HIDE DEF W
<1>8. SumFunction(f) = W[Queue]
  <2>1. Tallies(W, f, Queue)
    BY <1>4, <1>5, <1>6, <1>7, ZenonT(30) DEF Tallies
  <2> QED BY <1>7, <2>1, SumFacts, Zenon
<1>9. SumFunction(f) = Cardinality(WaitingIn(Queue))
  BY <1>4, <1>8, Zenon
<1>10. Stats.dead = Cardinality(D)
  <2>1. Stats.dead = Len(dead)
    BY Zenon DEF Stats
  <2>2. Range(dead) \subseteq Job
    BY <1>1 DEF Range
  <2>3. Range(dead) = D
    BY <1>1, <2>2, Zenon DEF Placed, Found
  <2> QED BY <1>1, <2>1, <2>3, LengthFacts, Zenon
<1>11. /\ D \in SUBSET Job /\ WaitingIn(Queue) \cap D = {}
       /\ {j \in Job : Exists(j)} = WaitingIn(Queue) \cup D
  BY <1>1, Zenon DEF WaitingIn, Exists
<1> HIDE DEF D
<1>12. Cardinality(WaitingIn(Queue) \cup D) = Cardinality(WaitingIn(Queue)) + Cardinality(D)
  BY <1>2, <1>11, UnionFacts, ZenonT(30)
<1> QED BY <1>9, <1>10, <1>11, <1>12, ZenonT(30)

\* The figures Stats reports add up to the number of stored jobs, until an
\* operator replays a job twice in one call.
THEOREM MemoryFigures == Spec => []StatsAddUp
<1>1. ASSUME MInv PROVE StatsAddUp
  <2> SUFFICES ASSUME ~ repeated
               PROVE  SumFunction([q \in Queue |-> Stats.queues[q].pending
                        + Stats.queues[q].active + Stats.queues[q].scheduled
                        + Stats.queues[q].retry]) + Stats.dead
                      = Cardinality({j \in Job : Exists(j)})
    BY Zenon DEF StatsAddUp
  <2>1. Tidy
    BY <1>1, Zenon DEF MInv
  <2>2. [q \in Queue |-> Stats.queues[q].pending + Stats.queues[q].active
           + Stats.queues[q].scheduled + Stats.queues[q].retry]
        = [q \in Queue |-> Cardinality(Waiting(q))]
    BY <1>1, <2>1, QueueFigures, Zenon
  <2>3. SumFunction([q \in Queue |-> Cardinality(Waiting(q))]) + Stats.dead
        = Cardinality({j \in Job : Exists(j)})
    BY <1>1, <2>1, FiguresAdd, Zenon
  <2> QED BY <2>2, <2>3, Zenon
<1>2. MInv => StatsAddUp
  BY <1>1, Zenon
<1> QED BY <1>2, MemoryInvariance, PTL
=============================================================================
