------------------------------ MODULE Producer ------------------------------
(***************************************************************************)
(* Producers in front of the Redis broker: Client.Enqueue and the Go side  *)
(* of the broker's Enqueue.  A call may fail before it reaches Redis,      *)
(* which changes nothing, or after the script has run; the producer cannot *)
(* tell which and calls again, each time with a new job, as client.go      *)
(* advises.                                                                *)
(***************************************************************************)
EXTENDS RedisBroker

CONSTANTS
  Producer,
  UniqueKey,         \* key each producer passes to Unique; NoKey: none
  UniqueTTL,         \* ttl each producer passes, in 1/Milli of a tick
  Milli,
  defaultUniqueTTL   \* in ticks

ASSUME ProducerAssumption ==
  /\ UniqueKey \in [Producer -> Key \cup {NoKey}] /\ UniqueTTL \in [Producer -> Nat]
  /\ {Milli, defaultUniqueTTL} \subseteq Nat \ {0}

VARIABLES
  answer,  \* of the last call: "error" (or none yet), "ok" or "duplicate"
  made     \* history: jobs stored by the producer's calls

prodVars == <<answer, made>>

ProducerInit ==
  /\ Init
  /\ answer = [p \in Producer |-> "error"]
  /\ made = [p \in Producer |-> {}]

\* Mutant: a key without a ttl is not unique at all.
ttlOf_NoDefault(p) ==
  IF UniqueKey[p] = NoKey \/ UniqueTTL[p] <= 0 THEN 0 ELSE UniqueTTL[p] \div Milli
\* The ttl the script gets: whole milliseconds, 0 without a key.
ttlOf(p) ==
  IF UniqueKey[p] = NoKey THEN 0
  ELSE IF UniqueTTL[p] <= 0 THEN defaultUniqueTTL ELSE UniqueTTL[p] \div Milli

\* A producer without an answer calls, and gets or loses the answer a.
Call(p, a) ==
  /\ answer[p] = "error"
  /\ answer' \in {[answer EXCEPT ![p] = a], answer}

\* The job is stored.
Accepted(p, j, q, max, runAt) ==
  /\ Call(p, "ok")
  /\ \E key \in Key :
       /\ UniqueKey[p] \in {key, NoKey}
       /\ Enqueue(j, q, max, runAt, key, ttlOf(p))
  /\ made' = [made EXCEPT ![p] = @ \cup {j}]

\* Mutant: a key that has expired still refuses.
Refused_Expired(p) ==
  /\ Call(p, "duplicate")
  /\ ttlOf(p) > 0 /\ unique[UniqueKey[p]] > 0
  /\ UNCHANGED <<vars, made>>

\* The key is held: ErrDuplicate.
Refused(p) ==
  /\ Call(p, "duplicate")
  /\ ttlOf(p) > 0 /\ unique[UniqueKey[p]] > now
  /\ UNCHANGED <<vars, made>>

ProducerNext ==
  \/ \E p \in Producer, j \in Job, q \in Queue, max \in Budgets, runAt \in 0..MaxTime :
       Accepted(p, j, q, max, runAt)
  \/ \E p \in Producer : Refused(p)
  \/ Serve /\ UNCHANGED prodVars

ProducerSpec == ProducerInit /\ [][ProducerNext]_<<vars, prodVars>>

-----------------------------------------------------------------------------
(* Properties.                                                             *)

\* An answer can be relied on: "ok" means that this very call stored a job,
\* and ErrDuplicate that a job was stored before under the key, whose window
\* is open, so that treating ErrDuplicate as success loses no task, whatever
\* replies were lost before (client.go, Enqueue).
AnswerHolds ==
  [][\A p \in Producer :
       /\ answer[p] # "ok" /\ answer'[p] = "ok" => made'[p] # made[p]
       /\ answer[p] # "duplicate" /\ answer'[p] = "duplicate" =>
            \E j \in Job : /\ state[j] # "none" /\ window[j].key = UniqueKey[p]
                           /\ window[j].from <= now /\ now < window[j].until]_<<vars, prodVars>>

\* However often a producer calls again after ambiguous errors, the jobs it
\* stores under its unique key are a whole ttl apart (client.go: Unique
\* "collapses duplicate enqueues sharing key within ttl"; without a ttl the
\* default applies, and a ttl counts in whole milliseconds).
AskedTTL(p) == IF UniqueTTL[p] > 0 THEN UniqueTTL[p] \div Milli ELSE defaultUniqueTTL
OncePerWindow ==
  \A p \in Producer : UniqueKey[p] # NoKey =>
    \A j, k \in made[p] : j # k =>
      \/ window[j].from + AskedTTL(p) <= window[k].from
      \/ window[k].from + AskedTTL(p) <= window[j].from
=============================================================================
