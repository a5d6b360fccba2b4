------------------------------ MODULE Storage ------------------------------
(***************************************************************************)
(* The SQLite tables of attestly-core (crates/attestly-core/src/storage.rs)*)
(* and the operations on them that the Batcher and the auditors use.       *)
(*                                                                         *)
(* Abstractions.  SHA-256 is collision free, so a Merkle root stands for   *)
(* exactly one sequence of leaves and is written as that sequence; the leaf*)
(* hash of an attestation is written as the attestation, all fields of it. *)
(* Its id is one of these fields, chosen by whoever made the value: two    *)
(* attestations may have one id and differ.  An inclusion path is the tree *)
(* it was cut from with the position of its leaf: folding a leaf up the    *)
(* path gives the root of that tree with the leaf put at the position.     *)
(* Module Merkle checks that abstraction on the real path construction.    *)
(* A transaction is one step: SQLite commits all of it or none of it.      *)
(***************************************************************************)
EXTENDS Naturals, Sequences, Functions

CONSTANTS
  Attestations,   \* the attestations that exist
  Ids,            \* their ids
  IdOf,           \* the id field of an attestation
  Genuine,        \* those whose signature and output hash check out
  BatchIds,       \* the UUIDs the Batcher may draw
  NULL            \* SQL NULL, or "no such row"

BatchRow == [root : Seq(Attestations), count : Nat]
Path     == [tree : Seq(Attestations), index : Nat]
ProofRow == [batch : BatchIds, path : Path]

ASSUME StorageAssumption ==
  /\ IdOf \in [Attestations -> Ids]
  /\ Genuine \subseteq Attestations
  /\ NULL \notin Attestations \cup BatchIds \cup BatchRow \cup ProofRow

VARIABLES
  rows,      \* table attestations: the attestation kept under an id, or NULL
  batchOf,   \* its column batch_id (NULL also where there is no row)
  proofs,    \* table proofs: the row keyed by an attestation id, or NULL
  batches    \* table batches: the row keyed by a batch id, or NULL

storageVars == <<rows, batchOf, proofs, batches>>

StorageTypeOK ==
  /\ rows    \in [Ids -> Attestations \cup {NULL}]
  /\ batchOf \in [Ids -> BatchIds \cup {NULL}]
  /\ proofs  \in [Ids -> ProofRow \cup {NULL}]
  /\ batches \in [BatchIds -> BatchRow \cup {NULL}]

(* A database file on which only the schema has been applied. *)
StorageInit ==
  /\ rows    = [i \in Ids |-> NULL]
  /\ batchOf = [i \in Ids |-> NULL]
  /\ proofs  = [i \in Ids |-> NULL]
  /\ batches = [b \in BatchIds |-> NULL]

----------------------------------------------------------------------------
(* insert_attestation: INSERT OR IGNORE by the id.  A row that is there    *)
(* stays as it is, whatever the new attestation says.                      *)
InsertAttestation(a) ==
  /\ rows' = [rows EXCEPT ![IdOf[a]] = IF @ = NULL THEN a ELSE @]
  /\ UNCHANGED <<batchOf, proofs, batches>>

IdsOf(atts) == [n \in DOMAIN atts |-> IdOf[atts[n]]]

PositionReversed(atts, i) == CHOOSE n \in DOMAIN atts : IdOf[atts[Len(atts) + 1 - n]] = i   \* mutant
PositionOf(atts, i) == CHOOSE n \in DOMAIN atts : IdOf[atts[n]] = i

(* Mutant: INSERT OR REPLACE INTO proofs. *)
ReplacesProofs(b, atts) == batches[b] = NULL /\ IsInjective(IdsOf(atts))

(* The rows insert_batch_with_proofs may not add: each plain INSERT of its *)
(* transaction fails on a primary key that is there already, be it from an *)
(* earlier transaction or from an earlier attestation of this batch.       *)
NoKeyCollision(b, atts) ==
  /\ batches[b] = NULL
  /\ IsInjective(IdsOf(atts))
  /\ \A n \in DOMAIN atts : proofs[IdOf[atts[n]]] = NULL

(* The rows after an INSERT OR IGNORE of each of them, no two of one id.   *)
RowsWith(atts) ==
  [i \in Ids |-> IF rows[i] = NULL /\ i \in Range(IdsOf(atts))
                  THEN atts[PositionOf(atts, i)] ELSE rows[i]]

(* insert_batch_with_proofs when it commits. *)
CommitBatch(b, atts) ==
  /\ NoKeyCollision(b, atts)
  /\ batches' = [batches EXCEPT ![b] = [root |-> atts, count |-> Len(atts)]]
  /\ rows' = RowsWith(atts)
  /\ batchOf' = [i \in Ids |-> IF i \in Range(IdsOf(atts)) THEN b ELSE batchOf[i]]
  /\ proofs' = [i \in Ids |->
                  IF i \in Range(IdsOf(atts))
                  THEN [batch |-> b, path |-> [tree |-> atts, index |-> PositionOf(atts, i)]]
                  ELSE proofs[i]]

(* Mutant: no transaction, and the first INSERT INTO proofs fails. *)
KeepsWhatWasWritten(b, atts) ==
  /\ batches' = [batches EXCEPT ![b] = [root |-> atts, count |-> Len(atts)]]
  /\ rows' = RowsWith(<<atts[1]>>)
  /\ batchOf' = [batchOf EXCEPT ![IdOf[atts[1]]] = b]
  /\ UNCHANGED proofs

(* insert_batch_with_proofs when a statement fails: the transaction is     *)
(* dropped and rolls back, whatever it had written of batch b.             *)
RollbackBatch(b, atts) == UNCHANGED storageVars

----------------------------------------------------------------------------
(* verify_inclusion: fold the leaf up the path, compare with the root. *)
VerifyInclusion(root, leaf, path) ==
  path.index \in DOMAIN path.tree /\ [path.tree EXCEPT ![path.index] = leaf] = root

(* get_batch: the ids come from the batch_id column, not from the row. *)
GetBatch(b) == [ids   |-> {i \in Ids : batchOf[i] = b},
                root  |-> batches[b].root,
                count |-> batches[b].count]

(* verify_attestation_inclusion, with its errors in the order of the code: *)
(* the signature, the output hash and the leaf are those of the row.       *)
VerifyAttestationInclusion(i) ==
  IF rows[i] = NULL THEN "AttestationNotFound"
  ELSE IF rows[i] \notin Genuine THEN "false"
  ELSE IF batchOf[i] = NULL THEN "AttestationNotBatched"
  ELSE IF proofs[i] = NULL THEN "ProofNotFound"
  ELSE IF batches[batchOf[i]] = NULL THEN "BatchNotFound"
  ELSE IF VerifyInclusion(batches[batchOf[i]].root, rows[i], proofs[i].path) THEN "true"
  ELSE "false"

----------------------------------------------------------------------------
(* What the three tables say of one another, in every state: a batch row   *)
(* is there with all of its links and proofs, or with none of them.        *)
ProofsMatchLinks ==
  \A i \in Ids :
    /\ (proofs[i] = NULL) <=> (batchOf[i] = NULL)
    /\ proofs[i] # NULL =>
         LET b == batchOf[i]
             p == proofs[i]
         IN  /\ rows[i] # NULL
             /\ p.batch = b
             /\ batches[b] # NULL
             /\ batches[b].root = p.path.tree
             /\ p.path.index \in DOMAIN p.path.tree
             /\ IdOf[p.path.tree[p.path.index]] = i

BatchesComplete ==
  \A b \in BatchIds :
    batches[b] # NULL =>
      /\ batches[b].root # <<>>
      /\ IsInjective(IdsOf(batches[b].root))
      /\ GetBatch(b).count = Len(GetBatch(b).root)
      /\ GetBatch(b).ids = Range(IdsOf(GetBatch(b).root))

(* No partial batch: every link has its row, its proof and its batch, every*)
(* batch has all its links (insert_batch_with_proofs, "a partial batch     *)
(* never lands").                                                          *)
StorageConsistent == ProofsMatchLinks /\ BatchesComplete

(* Sealed batches are immutable, a link, once made, is never moved, and a  *)
(* row, once written, keeps what it says: docs/DECISIONS.md D3.4.          *)
SealedForever ==
  [][/\ \A b \in BatchIds : batches[b] # NULL => batches'[b] = batches[b]
     /\ \A i \in Ids : /\ rows[i] # NULL => rows'[i] = rows[i]
                       /\ batchOf[i] # NULL => /\ batchOf'[i] = batchOf[i]
                                               /\ proofs'[i] = proofs[i]]_storageVars
=============================================================================
