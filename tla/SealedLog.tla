----------------------------- MODULE SealedLog -----------------------------
(***************************************************************************)
(* What batching promises, with no channel, buffer, clock or tables: an    *)
(* accepted submission is pending until it is sealed or lost, for good; a  *)
(* batch is written once, whole, with distinct ids none of which           *)
(* was in a batch before, and with at most max_batch_size of them.         *)
(***************************************************************************)
EXTENDS Naturals, FiniteSets

CONSTANTS Submissions, BatchIds, IdOf, MaxBatchSize

VARIABLES
  pending,    \* accepted, still in memory
  sealed,     \* submissions whose id they put in a batch
  lost,       \* accepted, never to be sealed
  contents    \* the ids in each batch, {} where it does not exist

logVars == <<pending, sealed, lost, contents>>

LogInit ==
  /\ pending = {} /\ sealed = {} /\ lost = {}
  /\ contents = [b \in BatchIds |-> {}]

Accept(s) ==
  /\ s \notin pending \cup sealed \cup lost
  /\ pending' = pending \cup {s}
  /\ UNCHANGED <<sealed, lost, contents>>

Batched == UNION {contents[b] : b \in BatchIds}

Seal(S, b) ==
  /\ S # {} /\ S \subseteq pending
  /\ Cardinality(S) <= MaxBatchSize \/ Cardinality(S) = 1
  /\ \A s, t \in S : IdOf[s] = IdOf[t] => s = t
  /\ {IdOf[s] : s \in S} \cap Batched = {}
  /\ contents[b] = {}
  /\ contents' = [contents EXCEPT ![b] = {IdOf[s] : s \in S}]
  /\ pending' = pending \ S
  /\ sealed' = sealed \cup S
  /\ UNCHANGED lost

Lose(S) ==
  /\ S \subseteq pending
  /\ pending' = pending \ S
  /\ lost' = lost \cup S
  /\ UNCHANGED <<sealed, contents>>

LogNext ==
  \/ \E s \in Submissions : Accept(s)
  \/ \E S \in SUBSET Submissions : Lose(S) \/ \E b \in BatchIds : Seal(S, b)

LogSpec == LogInit /\ [][LogNext]_logVars
=============================================================================
