---------------------------- MODULE QueueSelector ----------------------------
(***************************************************************************)
(* The order in which a poll tries the queues: queueSelector.next, one     *)
(* action per draw.  A draw takes a random number below the weight that    *)
(* remains and walks the cumulative sum of the weights.                    *)
(***************************************************************************)
EXTENDS Integers, Sequences, FiniteSetsExt

CONSTANTS
  names,      \* Config.Queues, in order
  MaxWeight   \* bound on the configured weights

ASSUME SelectorAssumption ==
  names \in Seq(Range(names)) /\ IsInjective(names) /\ MaxWeight \in Nat \ {0}

VARIABLES
  configured,  \* Config.Weights: the weights of some of the queues
  strict,      \* Config.StrictPriority
  pool,        \* indices of the queues not yet drawn
  order,       \* queues drawn
  remaining,   \* their weight
  polling      \* a call of next is under way
selectorVars == <<configured, strict, pool, order, remaining, polling>>

weight(i) == IF names[i] \in DOMAIN configured THEN configured[names[i]] ELSE 1
\* Running sums of the weights of queues, given by their indices.
Sums(s) ==
  LET sum[k \in 0..Len(s)] == IF k = 0 THEN 0 ELSE sum[k - 1] + weight(s[k])
  IN  sum
all == [i \in DOMAIN names |-> i]
total == Sums(all)[Len(names)]

SelectorInit ==
  /\ configured \in UNION {[Q -> 1..MaxWeight] : Q \in SUBSET Range(names)}
  /\ strict \in BOOLEAN
  /\ pool = <<>> /\ order = <<>> /\ remaining = 0 /\ polling = FALSE

\* Mutant: the order of the last call is still in the buffer.
Poll_KeepsOrder ==
  /\ ~ polling
  /\ \/ /\ strict \/ Len(names) < 2
        /\ order' = names
        /\ UNCHANGED <<pool, remaining, polling>>
     \/ /\ ~ strict /\ Len(names) >= 2
        /\ pool' = all
        /\ remaining' = total /\ polling' = TRUE
        /\ UNCHANGED order
  /\ UNCHANGED <<configured, strict>>

\* A call starts: with nothing to decide it returns the configured order.
Poll ==
  /\ ~ polling
  /\ \/ /\ strict \/ Len(names) < 2
        /\ order' = names
        /\ UNCHANGED <<pool, remaining, polling>>
     \/ /\ ~ strict /\ Len(names) >= 2
        /\ pool' = all
        /\ order' = <<>> /\ remaining' = total /\ polling' = TRUE
  /\ UNCHANGED <<configured, strict>>

\* Weight of the first k queues of the pool.
acc(k) == Sums(pool)[k]

\* Mutant: the walk stops one number late.
pick_Late(r) ==
  LET hits == {k \in DOMAIN pool : r <= acc(k)} IN IF hits = {} THEN 1 ELSE Min(hits)
\* The position in the pool that the number r picks.
pick(r) ==
  LET hits == {k \in DOMAIN pool : r < acc(k)} IN IF hits = {} THEN 1 ELSE Min(hits)

Without(s, k) == SubSeq(s, 1, k - 1) \o SubSeq(s, k + 1, Len(s))

\* The random source refuses to draw below zero.
Draw(r) ==
  /\ polling /\ pool # <<>>
  /\ order' = Append(order, names[pool[pick(r)]])
  /\ remaining' = remaining - weight(pool[pick(r)])
  /\ pool' = Without(pool, pick(r))
  /\ UNCHANGED <<configured, strict, polling>>

Polled ==
  /\ polling /\ pool = <<>>
  /\ polling' = FALSE
  /\ UNCHANGED <<configured, strict, pool, order, remaining>>

SelectorNext == Poll \/ (\E r \in 0..(remaining - 1) : Draw(r)) \/ Polled
SelectorSpec == SelectorInit /\ [][SelectorNext]_selectorVars

-----------------------------------------------------------------------------
(* Properties.                                                             *)

\* Each draw picks each queue still in the pool with a probability that is
\* its share of the weight left: of the numbers the random source can return,
\* exactly as many pick it as it weighs.  So no queue is ever out of reach of
\* the first position (queues.go: "a queue weighted 6 out of 10 is tried first
\* 60% of the time"; server.go: "Every queue keeps a non-zero share").
FairShare ==
  polling => \A k \in DOMAIN pool :
    Cardinality({r \in 0..(remaining - 1) : pick(r) = k}) = weight(pool[k])

\* A call returns every configured queue once, in every call and whatever was
\* drawn before, so the fallback never misses a queue and never asks for one
\* twice; with strict priority it returns the configured order.
OrderComplete ==
  ~ polling /\ order # <<>> =>
    /\ Len(order) = Len(names) /\ Range(order) = Range(names)
    /\ strict => order = names
=============================================================================
