----------------------------- MODULE CloudTypes -----------------------------
(***************************************************************************)
(* The rows of the tables of attestly-cloud (store/mod.rs, migrations/),   *)
(* which both stores keep: PgDb, the one production runs, and MemDb, the   *)
(* one the tests run.                                                      *)
(*                                                                         *)
(* Ids are random and fresh in the code; here an account, a key and a link *)
(* is named by its position in the order of creation.  An attestation is   *)
(* its canonical content: what is signed, hashed and stored.  The content  *)
(* holds the id the agent chose, the agent and, perhaps, the customer.     *)
(***************************************************************************)
EXTENDS Integers, Sequences, FiniteSets, SequencesExt

CONSTANTS
  Contents,       \* attestations, by their canonical bytes
  IdOf,           \* the id in a content: a number, as ids are ordered
  AgentOf,        \* the agent_id in a content
  CustomerOf,     \* the customer_id in a content, or None
  None,           \* the absent value
  Retention,      \* days that a plan keeps an attestation
  Included,       \* attestations that a plan includes in a period
  DayLength       \* ticks of the clock in a day

Plans == {"team", "enterprise"}

ASSUME CloudTypesAssumption ==
  /\ IdOf \in [Contents -> Nat]
  /\ None \notin Contents /\ None \notin [content : Contents, account : Nat, at : Nat]
  /\ Retention \in [Plans -> Nat]
  /\ Included \in [Plans -> Nat]
  /\ DayLength \in Nat \ {0}

NeverBilled == -1

DateNaive(t) == t \div DayLength

NewAccount(email, plan, password) ==
  [email |-> email, plan |-> plan, retention |-> Retention[plan],
   customer |-> None, subscription |-> None, billed |-> NeverBilled,
   password |-> password]

NewKey(account, hash) == [account |-> account, hash |-> hash, revoked |-> FALSE]

NewRow(content, account, at) ==
  [content |-> content, account |-> account, at |-> at]

NewLink(account, contents, expires) ==
  [account |-> account, ids |-> contents, expires |-> expires, revoked |-> FALSE]

(* Rows named by the order of their creation, each with these columns      *)
IsTable(t, columns) ==
  /\ t \in Seq(ToSet(t))
  /\ \A i \in DOMAIN t : columns \subseteq DOMAIN t[i]

(* What the schema and the handlers keep of each table, whatever it holds  *)
AccountsOK(t) ==
  /\ IsTable(t, {"email", "plan", "retention", "customer", "subscription", "billed", "password"})
  /\ \A i \in DOMAIN t : t[i].plan \in Plans /\ t[i].retention \in Nat /\ t[i].billed \in Int
  /\ \A i, j \in DOMAIN t : t[i].email = t[j].email => i = j

KeysOK(t, owners) ==
  /\ IsTable(t, {"account", "hash", "revoked"})
  /\ \A i \in DOMAIN t : t[i].account \in owners /\ t[i].revoked \in BOOLEAN
  /\ \A i, j \in DOMAIN t : t[i].hash = t[j].hash => i = j

LinksOK(t) ==
  /\ IsTable(t, {"account", "ids", "expires", "revoked"})
  /\ \A i \in DOMAIN t :
       t[i].ids \in Seq(Nat) /\ t[i].expires \in Int /\ t[i].revoked \in BOOLEAN

RowsOK(rows) ==
  /\ IsFiniteSet(rows) /\ rows \subseteq [content : Contents, account : Nat, at : Nat]
  /\ \A x, y \in rows : IdOf[x.content] = IdOf[y.content] => x = y

UsageOK(usage) ==
  /\ IsFiniteSet(DOMAIN usage)
  /\ \A k \in DOMAIN usage : k \in Nat \X Nat /\ usage[k] \in Nat \ {0}

(* A sort by a total order: the i-th is the one that i - 1 come before.    *)
OrderBy(found, Precedes(_, _)) ==
  [i \in 1 .. Cardinality(found) |->
     CHOOSE r \in found : Cardinality({s \in found : Precedes(s, r)}) = i - 1]

SumOver(usage, rows) == MapThenSumSet(LAMBDA k : usage[k], rows)

(* A filter of a search; None, or a range as wide as time, is no filter.   *)
Filters(agents, customers, froms, tos) ==
  [agent : agents, customer : customers, from : froms, to : tos]
=============================================================================
