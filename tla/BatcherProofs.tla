--------------------------- MODULE BatcherProofs ---------------------------
(***************************************************************************)
(* The safety of the Batcher and its storage for any number of callers,    *)
(* any configuration, any capacity and any number of crashes, and that it  *)
(* implements SealedLog.                                                   *)
(*                                                                         *)
(* The invariant is built in layers, each of which uses the ones above it: *)
(* what the operations of the storage preserve; the types; the tables;     *)
(* where each submission is; what is sealed; the commands in the channel;  *)
(* the sizes and ages; the barrier.  The refinement comes last: every step *)
(* of the channel, triggers, storage and crashes is one step of the        *)
(* abstract log, or none.                                                  *)
(***************************************************************************)
EXTENDS Batcher, FiniteSetTheorems, SequenceTheorems, TLAPS

----------------------------------------------------------------------------
(* The operations of Storage, for any batch and any order of calls.        *)

(* The index enumerate() gives an attestation is one where its id is. *)
LEMMA PositionOfFinds ==
  ASSUME NEW atts, NEW i \in Range(IdsOf(atts))
  PROVE  /\ PositionOf(atts, i) \in DOMAIN atts
         /\ IdOf[atts[PositionOf(atts, i)]] = i
BY DEF PositionOf, Range, IdsOf

(* The ids of a sequence of attestations. *)
LEMMA IdsOfSeq ==
  ASSUME NEW atts \in Seq(Attestations)
  PROVE  /\ Len(atts) \in Nat /\ DOMAIN atts = 1 .. Len(atts)
         /\ DOMAIN IdsOf(atts) = DOMAIN atts
         /\ Range(IdsOf(atts)) \subseteq Ids
         /\ \A n \in DOMAIN atts : /\ atts[n] \in Attestations
                                  /\ IdOf[atts[n]] \in Ids
                                  /\ IdsOf(atts)[n] = IdOf[atts[n]]
                                  /\ IdOf[atts[n]] \in Range(IdsOf(atts))
<1>1. /\ Len(atts) \in Nat /\ DOMAIN atts = 1 .. Len(atts)
      /\ \A n \in DOMAIN atts : atts[n] \in Attestations
  BY LenProperties, ElementOfSeq
<1>2. \A n \in DOMAIN atts : IdOf[atts[n]] \in Ids
  BY <1>1, StorageAssumption
<1>3. DOMAIN IdsOf(atts) = DOMAIN atts /\ \A n \in DOMAIN atts : IdsOf(atts)[n] = IdOf[atts[n]]
  BY DEF IdsOf
<1> QED
  BY <1>1, <1>2, <1>3 DEF Range

(* The schema alone satisfies the type and consistency invariants. *)
LEMMA InitConsistent ==
  StorageInit => StorageTypeOK /\ StorageConsistent
BY StorageAssumption
   DEF StorageInit, StorageTypeOK, StorageConsistent, ProofsMatchLinks, BatchesComplete

(* insert_attestation adds a row, changes none, and disturbs neither links *)
(* nor batches.                                                            *)
LEMMA InsertPreserves ==
  ASSUME StorageTypeOK, StorageConsistent,
         NEW a \in Attestations, InsertAttestation(a)
  PROVE  /\ StorageTypeOK' /\ StorageConsistent'
         /\ \A i \in Ids : rows[i] # NULL => rows'[i] = rows[i]
<1>0. IdOf[a] \in Ids
  BY StorageAssumption
<1>1. StorageTypeOK'
  BY <1>0 DEF InsertAttestation, StorageTypeOK
<1>2. \A i \in Ids : rows[i] # NULL => rows'[i] = rows[i]
  BY <1>0 DEF InsertAttestation, StorageTypeOK
<1>3. ProofsMatchLinks'
  BY <1>2 DEF InsertAttestation, StorageConsistent, ProofsMatchLinks
<1>4. BatchesComplete'
  BY DEF InsertAttestation, StorageConsistent, BatchesComplete, GetBatch
<1> QED
  BY <1>1, <1>2, <1>3, <1>4 DEF StorageConsistent

(* A transaction that commits a non-empty batch keeps the tables in their  *)
(* types: the rows it writes are rows.                                     *)
LEMMA CommitTypeOK ==
  ASSUME StorageTypeOK,
         NEW b \in BatchIds, NEW atts \in Seq(Attestations), CommitBatch(b, atts)
  PROVE  StorageTypeOK'
<1>1. Len(atts) \in Nat /\ DOMAIN atts = 1 .. Len(atts)
  BY LenProperties
<1>2. [root |-> atts, count |-> Len(atts)] \in BatchRow
  BY <1>1 DEF BatchRow
<1>3. ASSUME NEW i \in Range(IdsOf(atts))
      PROVE  /\ [batch |-> b, path |-> [tree |-> atts, index |-> PositionOf(atts, i)]] \in ProofRow
             /\ atts[PositionOf(atts, i)] \in Attestations
  <2>1. PositionOf(atts, i) \in Nat /\ atts[PositionOf(atts, i)] \in Attestations
    BY <1>1, PositionOfFinds, IdsOfSeq
  <2> QED
    BY <2>1 DEF ProofRow, Path
<1>4. rows' \in [Ids -> Attestations \cup {NULL}]
  BY <1>3 DEF CommitBatch, RowsWith, StorageTypeOK
<1>5. batchOf' \in [Ids -> BatchIds \cup {NULL}]
  BY DEF CommitBatch, StorageTypeOK
<1>6. proofs' \in [Ids -> ProofRow \cup {NULL}]
  BY <1>3 DEF CommitBatch, StorageTypeOK
<1>7. batches' \in [BatchIds -> BatchRow \cup {NULL}]
  BY <1>2 DEF CommitBatch, StorageTypeOK
<1> QED
  BY <1>4, <1>5, <1>6, <1>7 DEF StorageTypeOK

(* Every id of the batch has a row afterwards, its own or an older one.    *)
LEMMA CommitRows ==
  ASSUME StorageTypeOK,
         NEW b \in BatchIds, NEW atts \in Seq(Attestations), CommitBatch(b, atts)
  PROVE  /\ \A i \in Ids : rows[i] # NULL => rows'[i] = rows[i]
         /\ \A i \in Range(IdsOf(atts)) : rows'[i] # NULL
<1>1. \A i \in Ids : rows'[i] = IF rows[i] = NULL /\ i \in Range(IdsOf(atts))
                              THEN atts[PositionOf(atts, i)] ELSE rows[i]
  BY DEF CommitBatch, RowsWith
<1>2. \A i \in Range(IdsOf(atts)) : i \in Ids /\ atts[PositionOf(atts, i)] \in Attestations
  BY PositionOfFinds, IdsOfSeq
<1> QED
  BY <1>1, <1>2, StorageAssumption

(* The links and proofs it writes agree, and the older ones are untouched: *)
(* none of its attestations had a proof and no link leads to its batch.    *)
LEMMA CommitProofsMatchLinks ==
  ASSUME StorageTypeOK, ProofsMatchLinks,
         NEW b \in BatchIds, NEW atts \in Seq(Attestations), CommitBatch(b, atts)
  PROVE  ProofsMatchLinks'
<1>1. Len(atts) \in Nat /\ DOMAIN atts = 1 .. Len(atts)
  BY LenProperties
<1> DEFINE row == [root |-> atts, count |-> Len(atts)]
           proof(x) == [batch |-> b, path |-> [tree |-> atts, index |-> PositionOf(atts, x)]]
<1>2. /\ batches[b] = NULL
      /\ batches' = [batches EXCEPT ![b] = row]
      /\ batchOf' = [x \in Ids |-> IF x \in Range(IdsOf(atts)) THEN b ELSE batchOf[x]]
      /\ proofs' = [x \in Ids |-> IF x \in Range(IdsOf(atts)) THEN proof(x) ELSE proofs[x]]
  BY DEF CommitBatch, NoKeyCollision
<1>3. batches'[b] = row /\ \A c \in BatchIds \ {b} : batches'[c] = batches[c]
  BY <1>2 DEF StorageTypeOK
<1>4. row # NULL
  BY <1>1, StorageAssumption DEF BatchRow
<1>5. /\ \A i \in Ids : rows[i] # NULL => rows'[i] # NULL
      /\ \A i \in Range(IdsOf(atts)) : rows'[i] # NULL
  BY CommitRows
<1> SUFFICES ASSUME NEW i \in Ids
             PROVE  /\ (proofs'[i] = NULL) <=> (batchOf'[i] = NULL)
                    /\ proofs'[i] # NULL =>
                         /\ rows'[i] # NULL
                         /\ proofs'[i].batch = batchOf'[i]
                         /\ batches'[batchOf'[i]] # NULL
                         /\ batches'[batchOf'[i]].root = proofs'[i].path.tree
                         /\ proofs'[i].path.index \in DOMAIN proofs'[i].path.tree
                         /\ IdOf[proofs'[i].path.tree[proofs'[i].path.index]] = i
  BY DEF ProofsMatchLinks
<1>6. CASE i \in Range(IdsOf(atts))
  <2>1. proofs'[i] = proof(i) /\ batchOf'[i] = b
    BY <1>2, <1>6
  <2>2. PositionOf(atts, i) \in DOMAIN atts /\ IdOf[atts[PositionOf(atts, i)]] = i
    BY <1>6, PositionOfFinds
  <2>3. proof(i) # NULL /\ b # NULL
    BY <1>1, <2>2, StorageAssumption DEF ProofRow, Path
  <2> QED
    BY <1>3, <1>4, <1>5, <1>6, <2>1, <2>2, <2>3
<1>7. CASE i \notin Range(IdsOf(atts))
  <2>1. proofs'[i] = proofs[i] /\ batchOf'[i] = batchOf[i]
    BY <1>2, <1>7
  <2>2. proofs[i] # NULL => batchOf[i] \in BatchIds \ {b}
    BY <1>2 DEF ProofsMatchLinks, StorageTypeOK
  <2> QED
    BY <1>3, <1>5, <2>1, <2>2 DEF ProofsMatchLinks
<1> QED
  BY <1>6, <1>7

(* The new batch is complete and the others keep their links. *)
LEMMA CommitBatchesComplete ==
  ASSUME StorageTypeOK, StorageConsistent,
         NEW b \in BatchIds, NEW atts \in Seq(Attestations), atts # <<>>,
         CommitBatch(b, atts)
  PROVE  BatchesComplete'
<1>1. Range(IdsOf(atts)) \subseteq Ids
  BY IdsOfSeq
<1>2. \A x \in Range(IdsOf(atts)) : proofs[x] = NULL /\ batchOf[x] = NULL
  BY <1>1 DEF CommitBatch, NoKeyCollision, IdsOf, Range, StorageConsistent, ProofsMatchLinks
<1>3. \A x \in Ids : batchOf[x] # b
  BY StorageAssumption
     DEF CommitBatch, NoKeyCollision, StorageConsistent, ProofsMatchLinks
<1>4. \A x \in Ids : batchOf'[x] = IF x \in Range(IdsOf(atts)) THEN b ELSE batchOf[x]
  BY DEF CommitBatch
<1> SUFFICES ASSUME NEW c \in BatchIds, batches'[c] # NULL
             PROVE  /\ batches'[c].root # <<>>
                    /\ IsInjective(IdsOf(batches'[c].root))
                    /\ batches'[c].count = Len(batches'[c].root)
                    /\ {x \in Ids : batchOf'[x] = c} = Range(IdsOf(batches'[c].root))
  BY DEF BatchesComplete, GetBatch
<1>6. CASE c = b
  <2>1. batches'[c] = [root |-> atts, count |-> Len(atts)]
    BY <1>6 DEF CommitBatch, StorageTypeOK
  <2>2. {x \in Ids : batchOf'[x] = b} = Range(IdsOf(atts))
    BY <1>1, <1>3, <1>4
  <2> QED
    BY <1>6, <2>1, <2>2 DEF CommitBatch, NoKeyCollision
<1>7. CASE c # b
  <2>1. batches'[c] = batches[c]
    BY <1>7 DEF CommitBatch, StorageTypeOK
  <2>2. {x \in Ids : batchOf'[x] = c} = {x \in Ids : batchOf[x] = c}
    BY <1>1, <1>2, <1>4, <1>7, StorageAssumption
  <2> QED
    BY <2>1, <2>2 DEF StorageConsistent, BatchesComplete, GetBatch
<1> QED
  BY <1>6, <1>7

(* insert_batch_with_proofs, committed: no partial batch. *)
LEMMA CommitPreserves ==
  ASSUME StorageTypeOK, StorageConsistent,
         NEW b \in BatchIds, NEW atts \in Seq(Attestations), atts # <<>>,
         CommitBatch(b, atts)
  PROVE  StorageTypeOK' /\ StorageConsistent'
BY CommitTypeOK, CommitProofsMatchLinks, CommitBatchesComplete DEF StorageConsistent

(* What a committed batch leaves alone: every other batch, every row that  *)
(* was there, and the link and proof of every id that had them.            *)
LEMMA CommitKeepsSealed ==
  ASSUME StorageTypeOK, ProofsMatchLinks,
         NEW b \in BatchIds, NEW atts \in Seq(Attestations), CommitBatch(b, atts)
  PROVE  /\ \A c \in BatchIds : batches[c] # NULL => batches'[c] = batches[c]
         /\ \A i \in Ids :
              /\ rows[i] # NULL => rows'[i] = rows[i]
              /\ batchOf[i] # NULL => batchOf'[i] = batchOf[i] /\ proofs'[i] = proofs[i]
<1>1. \A c \in BatchIds : batches[c] # NULL => batches'[c] = batches[c]
  BY DEF CommitBatch, NoKeyCollision, StorageTypeOK
<1>2. \A i \in Ids : batchOf[i] # NULL => i \notin Range(IdsOf(atts))
  BY DEF CommitBatch, NoKeyCollision, ProofsMatchLinks, Range, IdsOf
<1>3. \A i \in Ids : batchOf[i] # NULL => batchOf'[i] = batchOf[i] /\ proofs'[i] = proofs[i]
  BY <1>2 DEF CommitBatch
<1> QED
  BY <1>1, <1>3, CommitRows

(* In a consistent database an audit of a batched id says whether its row  *)
(* is genuine and the leaf its proof was cut for.                          *)
Leaf(i) == proofs[i].path.tree[proofs[i].path.index]

LEMMA ConsistentAudits ==
  ASSUME StorageTypeOK, StorageConsistent, NEW i \in Ids
  PROVE  /\ batchOf[i] # NULL =>
              VerifyAttestationInclusion(i) =
                IF rows[i] \in Genuine /\ rows[i] = Leaf(i) THEN "true" ELSE "false"
         /\ batchOf[i] = NULL =>
              VerifyAttestationInclusion(i)
                \in {"AttestationNotFound", "AttestationNotBatched", "false"}
<1>1. CASE rows[i] = NULL
  BY <1>1 DEF VerifyAttestationInclusion, StorageConsistent, ProofsMatchLinks
<1>2. CASE rows[i] # NULL /\ rows[i] \notin Genuine
  BY <1>2 DEF VerifyAttestationInclusion
<1>3. CASE rows[i] # NULL /\ rows[i] \in Genuine /\ batchOf[i] = NULL
  BY <1>3 DEF VerifyAttestationInclusion
<1>4. CASE rows[i] # NULL /\ rows[i] \in Genuine /\ batchOf[i] # NULL
  <2> DEFINE p == proofs[i].path
  <2>1. /\ proofs[i] # NULL
        /\ batches[batchOf[i]] # NULL
        /\ batches[batchOf[i]].root = p.tree
        /\ p.index \in DOMAIN p.tree
    BY <1>4 DEF StorageConsistent, ProofsMatchLinks
  <2>2. p.tree \in Seq(Attestations)
    BY <2>1 DEF StorageTypeOK, ProofRow, Path
  <2>3. [p.tree EXCEPT ![p.index] = rows[i]] = p.tree <=> rows[i] = p.tree[p.index]
    BY <2>1, <2>2, LenProperties
  <2>4. VerifyInclusion(batches[batchOf[i]].root, rows[i], p) <=> rows[i] = Leaf(i)
    BY <2>1, <2>3 DEF VerifyInclusion, Leaf
  <2>5. VerifyAttestationInclusion(i) = IF rows[i] = Leaf(i) THEN "true" ELSE "false"
    BY <1>4, <2>1, <2>4 DEF VerifyAttestationInclusion
  <2> QED
    BY <1>4, <2>5
<1> QED
  BY <1>1, <1>2, <1>3, <1>4

----------------------------------------------------------------------------
(* Sequences of submissions and what a flush does with them. *)

(* A buffer carries one attestation for each submission. *)
LEMMA CarriedByBuffer ==
  ASSUME NEW buf \in Seq(Submissions)
  PROVE  /\ Carried(buf) \in Seq(Attestations)
         /\ Len(Carried(buf)) = Len(buf)
         /\ DOMAIN Carried(buf) = DOMAIN buf
         /\ DOMAIN IdsOf(Carried(buf)) = DOMAIN buf
         /\ \A n \in DOMAIN buf : /\ Carried(buf)[n] = AttestationOf[buf[n]]
                                 /\ IdsOf(Carried(buf))[n] = SubmittedId(buf[n])
                                 /\ SubmittedId(buf[n]) \in Ids
         /\ Range(IdsOf(Carried(buf))) = {SubmittedId(s) : s \in Range(buf)}
         /\ buf # <<>> => Carried(buf) # <<>>
<1>1. Len(buf) \in Nat /\ DOMAIN buf = 1 .. Len(buf) /\ \A n \in 1 .. Len(buf) : buf[n] \in Submissions
  BY LenProperties, ElementOfSeq
<1>2. /\ Carried(buf) \in [1 .. Len(buf) -> Attestations]
      /\ \A n \in DOMAIN buf : Carried(buf)[n] = AttestationOf[buf[n]]
  BY <1>1, BatcherAssumption DEF Carried
<1>3. Carried(buf) \in Seq(Attestations)
  BY <1>1, <1>2, SeqDef
<1>4. DOMAIN Carried(buf) = 1 .. Len(Carried(buf)) /\ Len(Carried(buf)) \in Nat
  BY <1>3, LenProperties
<1>5. Len(Carried(buf)) = Len(buf) /\ DOMAIN Carried(buf) = DOMAIN buf
  BY <1>1, <1>2, <1>4
<1>6. /\ DOMAIN IdsOf(Carried(buf)) = DOMAIN buf
      /\ \A n \in DOMAIN buf : /\ IdsOf(Carried(buf))[n] = SubmittedId(buf[n])
                              /\ SubmittedId(buf[n]) \in Ids
  BY <1>2, <1>3, <1>5, IdsOfSeq DEF SubmittedId
<1>7. Range(IdsOf(Carried(buf))) = {SubmittedId(s) : s \in Range(buf)}
  BY <1>6 DEF Range
<1>8. buf # <<>> => Carried(buf) # <<>>
  BY <1>3, <1>5, EmptySeq
<1> QED
  BY <1>2, <1>3, <1>5, <1>6, <1>7, <1>8

(* An appended command is the last, after the ones that were there. *)
LEMMA RangeAppend ==
  ASSUME NEW S, NEW seq \in Seq(S), NEW e \in S
  PROVE  /\ Append(seq, e) \in Seq(S)
         /\ Append(seq, e) # <<>>
         /\ Range(Append(seq, e)) = Range(seq) \cup {e}
         /\ IsInjective(seq) /\ e \notin Range(seq) => IsInjective(Append(seq, e))
<1>1. /\ Append(seq, e) \in Seq(S)
      /\ Len(Append(seq, e)) = Len(seq) + 1
      /\ \A i \in 1 .. Len(seq) : Append(seq, e)[i] = seq[i]
      /\ Append(seq, e)[Len(seq) + 1] = e
  BY AppendProperties
<1>2. /\ Len(seq) \in Nat
      /\ DOMAIN seq = 1 .. Len(seq)
      /\ DOMAIN Append(seq, e) = 1 .. Len(seq) + 1
  BY <1>1, LenProperties
<1>3. Range(Append(seq, e)) = Range(seq) \cup {e}
  BY <1>1, <1>2 DEF Range
<1>4. IsInjective(seq) /\ e \notin Range(seq) => IsInjective(Append(seq, e))
  BY <1>1, <1>2 DEF Range, IsInjective
<1>5. Append(seq, e) # <<>>
  BY <1>1, <1>2, EmptySeq
<1> QED
  BY <1>1, <1>3, <1>4, <1>5

(* A received command is gone and the others keep their order. *)
LEMMA RangeTail ==
  ASSUME NEW S, NEW seq \in Seq(S), seq # <<>>
  PROVE  /\ Head(seq) \in S
         /\ Tail(seq) \in Seq(S)
         /\ Range(seq) = Range(Tail(seq)) \cup {Head(seq)}
         /\ IsInjective(seq) => /\ IsInjective(Tail(seq))
                                /\ Head(seq) \notin Range(Tail(seq))
<1>1. /\ Head(seq) \in S
      /\ Tail(seq) \in Seq(S)
      /\ Len(Tail(seq)) = Len(seq) - 1
      /\ \A i \in 1 .. Len(Tail(seq)) : Tail(seq)[i] = seq[i + 1]
  BY HeadTailProperties
<1>2. /\ Len(seq) \in Nat \ {0}
      /\ DOMAIN seq = 1 .. Len(seq)
      /\ DOMAIN Tail(seq) = 1 .. Len(seq) - 1
      /\ Head(seq) = seq[1]
  BY <1>1, LenProperties, EmptySeq
<1>3. Range(seq) = Range(Tail(seq)) \cup {Head(seq)}
  <2>1. Range(Tail(seq)) \cup {Head(seq)} \subseteq Range(seq)
    BY <1>1, <1>2 DEF Range
  <2>2. ASSUME NEW i \in DOMAIN seq
        PROVE  seq[i] \in Range(Tail(seq)) \cup {Head(seq)}
    <3>1. CASE i = 1
      BY <1>2, <3>1
    <3>2. CASE i # 1
      <4>1. i - 1 \in DOMAIN Tail(seq) /\ Tail(seq)[i - 1] = seq[i]
        BY <1>1, <1>2, <3>2
      <4> QED
        BY <4>1 DEF Range
    <3> QED
      BY <3>1, <3>2
  <2> QED
    BY <2>1, <2>2 DEF Range
<1>4. IsInjective(seq) => IsInjective(Tail(seq)) /\ Head(seq) \notin Range(Tail(seq))
  BY <1>1, <1>2 DEF IsInjective, Range
<1> QED
  BY <1>1, <1>3, <1>4

----------------------------------------------------------------------------
(* Type correctness. *)

(* A flush, whatever its outcome, keeps the types it touches. *)
LEMMA FlushTypeOK ==
  ASSUME BatcherTypeOK, NEW buf \in Seq(Submissions), NEW answer \in Answers,
         Flush(buf, answer)
  PROVE  /\ StorageTypeOK'
         /\ buffer' = <<>>
         /\ elapsed' \in {elapsed, NULL}
         /\ stage' \in [Submissions -> Stages]
<1>1. MarkAll(buf, "sealed") \in [Submissions -> Stages]
      /\ MarkAll(buf, "failed") \in [Submissions -> Stages]
  BY DEF BatcherTypeOK, MarkAll, Stages
<1>2. CASE buf = <<>>
  BY <1>2 DEF Flush, TakeBuffer, BatcherTypeOK, storageVars, StorageTypeOK
<1>3. CASE buf # <<>>
  <2>1. PICK b \in BatchIds :
          \/ CommitBatch(b, Carried(buf)) /\ stage' = MarkAll(buf, "sealed")
          \/ RollbackBatch(b, Carried(buf)) /\ stage' = MarkAll(buf, "failed")
    BY <1>3 DEF Flush
  <2>2. CASE CommitBatch(b, Carried(buf)) /\ stage' = MarkAll(buf, "sealed")
    BY <1>1, <1>3, <2>2, CarriedByBuffer, CommitTypeOK DEF Flush, TakeBuffer, BatcherTypeOK
  <2>3. CASE RollbackBatch(b, Carried(buf)) /\ stage' = MarkAll(buf, "failed")
    <3>1. StorageTypeOK'
      BY <2>3 DEF RollbackBatch, storageVars, BatcherTypeOK, StorageTypeOK
    <3> QED
      BY <1>1, <1>3, <2>3, <3>1 DEF Flush, TakeBuffer
  <2> QED
    BY <2>1, <2>2, <2>3
<1> QED
  BY <1>2, <1>3

(* So does the end of the task. *)
LEMMA FinalFlushTypeOK ==
  ASSUME BatcherTypeOK, NEW answer \in Answers, FinalFlush(answer)
  PROVE  /\ StorageTypeOK'
         /\ buffer' = <<>>
         /\ elapsed' \in {elapsed, NULL}
         /\ stage' \in [Submissions -> Stages]
<1>1. CASE Flush(buffer, answer)
  BY <1>1, FlushTypeOK DEF BatcherTypeOK
<1>2. CASE ~Flush(buffer, answer)
  <2>1. MarkAll(buffer, "discarded") \in [Submissions -> Stages]
    BY DEF BatcherTypeOK, MarkAll, Stages
  <2> QED
    BY <1>2, <2>1 DEF FinalFlush, BatcherTypeOK, storageVars, StorageTypeOK
<1> QED
  BY <1>1, <1>2

(* Receiving a command leaves a channel of commands. *)
LEMMA ReceiveTypeOK ==
  ASSUME channel \in Seq(Commands), NEW cmd, Receive(cmd)
  PROVE  channel' \in Seq(Commands) /\ cmd \in Commands
BY RangeTail DEF Receive

LEMMA TypeInit == Init => BatcherTypeOK
<1> SUFFICES ASSUME Init
             PROVE  BatcherTypeOK
  OBVIOUS
<1>1. StorageTypeOK
  BY InitConsistent DEF Init
<1>2. <<>> \in Seq(Commands) /\ <<>> \in Seq(Submissions)
  BY EmptySeq
<1>3. reply \in [FlushCalls -> CallPoints \cup Answers]
  BY DEF Init, CallPoints, Calling
<1> QED
  BY <1>1, <1>2, <1>3 DEF Init, BatcherTypeOK, Stages

LEMMA TypeStep ==
  ASSUME BatcherTypeOK, [Next]_vars
  PROVE  BatcherTypeOK'
<1> USE BatcherTypeOK
<1>1. ASSUME NEW s \in Submissions, SubmitCall(s)
      PROVE  BatcherTypeOK'
  BY <1>1 DEF SubmitCall, BatcherTypeOK, StorageTypeOK, storageVars, taskVars, callVars, Stages
<1>2. ASSUME NEW s \in Submissions, SubmitSend(s)
      PROVE  BatcherTypeOK'
  <2>1. channel' \in Seq(Commands)
    BY <1>2, RangeAppend DEF SubmitSend, Send, BatcherTypeOK, Commands
  <2> QED
    BY <1>2, <2>1 DEF SubmitSend, BatcherTypeOK, StorageTypeOK, storageVars, taskVars, callVars, Stages
<1>3. ASSUME NEW s \in Submissions, SubmitCancel(s)
      PROVE  BatcherTypeOK'
  BY <1>3 DEF SubmitCancel, BatcherTypeOK, StorageTypeOK, storageVars, taskVars, callVars, Stages
<1>4. ASSUME NEW f \in FlushCalls, FlushCall(f)
      PROVE  BatcherTypeOK'
  BY <1>4 DEF FlushCall, BatcherTypeOK, StorageTypeOK, storageVars, taskVars, CallPoints, Calling
<1>5. ASSUME NEW f \in FlushCalls, FlushSend(f)
      PROVE  BatcherTypeOK'
  <2>1. channel' \in Seq(Commands)
    BY <1>5, RangeAppend DEF FlushSend, Send, BatcherTypeOK, Commands
  <2> QED
    BY <1>5, <2>1 DEF FlushSend, BatcherTypeOK, StorageTypeOK, storageVars, taskVars, history,
                      CallPoints, Calling
<1>6. ASSUME NEW f \in FlushCalls, FlushCancel(f)
      PROVE  BatcherTypeOK'
  BY <1>6 DEF FlushCancel, BatcherTypeOK, StorageTypeOK, storageVars, taskVars, history,
              CallPoints, Calling
<1>7. ASSUME ShutdownCall \/ DropHandle
      PROVE  BatcherTypeOK'
  BY <1>7 DEF ShutdownCall, DropHandle, BatcherTypeOK, StorageTypeOK, storageVars, taskVars,
              callVars, history
<1>8. ASSUME ShutdownSend
      PROVE  BatcherTypeOK'
  <2>1. channel' \in Seq(Commands)
    BY <1>8, RangeAppend DEF ShutdownSend, Send, BatcherTypeOK, Commands
  <2> QED
    BY <1>8, <2>1 DEF ShutdownSend, BatcherTypeOK, StorageTypeOK, storageVars, taskVars,
                      callVars, history
<1>9. ASSUME NEW s \in Submissions, BufferSubmission(s)
      PROVE  BatcherTypeOK'
  <2>1. channel' \in Seq(Commands)
    BY <1>9, ReceiveTypeOK DEF BufferSubmission, BatcherTypeOK
  <2>2. buffer' \in Seq(Submissions)
    BY <1>9, RangeAppend DEF BufferSubmission, BatcherTypeOK
  <2>3. elapsed' \in Nat \cup {NULL}
    BY <1>9 DEF BufferSubmission, OldestAt, BatcherTypeOK
  <2> QED
    BY <1>9, <2>1, <2>2, <2>3 DEF BufferSubmission, BatcherTypeOK, StorageTypeOK, storageVars,
                                  callVars, Stages
<1>10. ASSUME NEW s \in Submissions, CountTrigger(s)
       PROVE  BatcherTypeOK'
  <2>1. channel' \in Seq(Commands)
    BY <1>10, ReceiveTypeOK DEF CountTrigger, BatcherTypeOK
  <2>2. Append(buffer, s) \in Seq(Submissions)
    BY RangeAppend DEF BatcherTypeOK
  <2>3. PICK answer \in Answers : Flush(Append(buffer, s), answer)
    BY <1>10 DEF CountTrigger
  <2>4. /\ StorageTypeOK'
        /\ buffer' = <<>>
        /\ elapsed' \in {elapsed, NULL}
        /\ stage' \in [Submissions -> Stages]
    BY <2>2, <2>3, FlushTypeOK
  <2> QED
    BY <1>10, <2>1, <2>4, EmptySeq DEF CountTrigger, BatcherTypeOK, callVars
<1>11. ASSUME NEW f \in FlushCalls, HandleFlush(f)
       PROVE  BatcherTypeOK'
  <2>1. channel' \in Seq(Commands)
    BY <1>11, ReceiveTypeOK DEF HandleFlush, BatcherTypeOK
  <2>2. PICK answer \in Answers : Flush(buffer, answer) /\ Respond(f, answer)
    BY <1>11 DEF HandleFlush
  <2>3. /\ StorageTypeOK'
        /\ buffer' = <<>>
        /\ elapsed' \in {elapsed, NULL}
        /\ stage' \in [Submissions -> Stages]
    BY <2>2, FlushTypeOK DEF BatcherTypeOK
  <2>4. reply' \in [FlushCalls -> CallPoints \cup Answers]
    BY <2>2 DEF Respond, BatcherTypeOK
  <2> QED
    BY <1>11, <2>1, <2>3, <2>4, EmptySeq DEF HandleFlush, BatcherTypeOK
<1>12. ASSUME HandleShutdown
       PROVE  BatcherTypeOK'
  <2>1. channel' \in Seq(Commands)
    BY <1>12, ReceiveTypeOK DEF HandleShutdown, BatcherTypeOK
  <2>2. PICK answer \in Answers : FinalFlush(answer) /\ result' = answer
    BY <1>12 DEF HandleShutdown
  <2>3. /\ StorageTypeOK'
        /\ buffer' = <<>>
        /\ elapsed' \in {elapsed, NULL}
        /\ stage' \in [Submissions -> Stages]
    BY <2>2, FinalFlushTypeOK
  <2> QED
    BY <1>12, <2>1, <2>2, <2>3, EmptySeq DEF HandleShutdown, Exit, BatcherTypeOK
<1>13. ASSUME HandleDisconnect
       PROVE  BatcherTypeOK'
  <2>1. PICK answer \in Answers : FinalFlush(answer)
    BY <1>13 DEF HandleDisconnect
  <2>2. /\ StorageTypeOK'
        /\ buffer' = <<>>
        /\ elapsed' \in {elapsed, NULL}
        /\ stage' \in [Submissions -> Stages]
    BY <2>1, FinalFlushTypeOK
  <2> QED
    BY <1>13, <2>2, EmptySeq DEF HandleDisconnect, Exit, BatcherTypeOK, callVars
<1>14. ASSUME AgeTrigger
       PROVE  BatcherTypeOK'
  <2>1. PICK answer \in Answers : Flush(buffer, answer)
    BY <1>14 DEF AgeTrigger
  <2>2. /\ StorageTypeOK'
        /\ buffer' = <<>>
        /\ elapsed' \in {elapsed, NULL}
        /\ stage' \in [Submissions -> Stages]
    BY <2>1, FlushTypeOK DEF BatcherTypeOK
  <2> QED
    BY <1>14, <2>2, EmptySeq DEF AgeTrigger, BatcherTypeOK, callVars
<1>15. ASSUME IdleTick
       PROVE  BatcherTypeOK'
  BY <1>15 DEF IdleTick, BatcherTypeOK, StorageTypeOK, storageVars, callVars, history
<1>16. ASSUME Second
       PROVE  BatcherTypeOK'
  BY <1>16 DEF Second, BatcherTypeOK, StorageTypeOK, storageVars, callVars
<1>17. ASSUME Crash
       PROVE  BatcherTypeOK'
  <2>1. stage' \in [Submissions -> Stages]
    BY <1>17 DEF Crash, BatcherTypeOK, Stages, InMemory
  <2>2. reply' \in [FlushCalls -> CallPoints \cup Answers]
    BY <1>17 DEF Crash, BatcherTypeOK, CallPoints, Calling
  <2>3. crashes' \in Nat
    BY <1>17, BatcherAssumption DEF Crash, BatcherTypeOK
  <2>4. StorageTypeOK'
    BY <1>17 DEF Crash, BatcherTypeOK, StorageTypeOK, storageVars
  <2>5. /\ handle' = "dropped" /\ result' = result /\ ahead' = ahead /\ waited' = waited
        /\ channel' = <<>> /\ buffer' = <<>> /\ task' = "killed"
        /\ elapsed' = NULL /\ tickDue' = FALSE
    BY <1>17 DEF Crash
  <2>6. channel' \in Seq(Commands) /\ buffer' \in Seq(Submissions)
    BY <2>5, EmptySeq
  <2> QED
    BY <2>1, <2>2, <2>3, <2>4, <2>5, <2>6 DEF BatcherTypeOK
<1>18. ASSUME Restart
       PROVE  BatcherTypeOK'
  BY <1>18 DEF Restart, BatcherTypeOK, StorageTypeOK, storageVars, callVars, history
<1>19. ASSUME NEW a \in Attestations, RecordUnbatched(a)
       PROVE  BatcherTypeOK'
  <2>1. StorageTypeOK'
    BY <1>19 DEF RecordUnbatched, InsertAttestation, BatcherTypeOK, StorageTypeOK
  <2> QED
    BY <1>19, <2>1 DEF RecordUnbatched, BatcherTypeOK, taskVars, callVars, history
<1>20. CASE UNCHANGED vars
  BY <1>20 DEF vars, BatcherTypeOK, StorageTypeOK, storageVars, callVars, history
<1> QED
  BY <1>1, <1>2, <1>3, <1>4, <1>5, <1>6, <1>7, <1>8, <1>9, <1>10, <1>11, <1>12, <1>13, <1>14,
     <1>15, <1>16, <1>17, <1>18, <1>19, <1>20
     DEF Next, Caller, HandleCommand, HandleTick

(* Whatever the callers, the clock, the disk and the crashes do, every     *)
(* variable keeps its type.                                                *)
THEOREM BatcherTypes == Spec => []BatcherTypeOK
BY TypeInit, TypeStep, PTL DEF Spec

----------------------------------------------------------------------------
(* The tables.  Whatever the Batcher does, it changes them through one     *)
(* operation of Storage at a time.                                         *)
StorageStep ==
  \/ UNCHANGED storageVars
  \/ \E a \in Attestations : InsertAttestation(a)
  \/ \E b \in BatchIds, atts \in Seq(Attestations) : atts # <<>> /\ CommitBatch(b, atts)

LEMMA FlushStorageStep ==
  ASSUME NEW buf \in Seq(Submissions), NEW answer \in Answers, Flush(buf, answer)
  PROVE  StorageStep
<1>1. CASE buf = <<>>
  BY <1>1 DEF Flush, StorageStep
<1>2. CASE buf # <<>>
  <2>1. PICK b \in BatchIds : CommitBatch(b, Carried(buf)) \/ RollbackBatch(b, Carried(buf))
    BY <1>2 DEF Flush
  <2>2. Carried(buf) \in Seq(Attestations) /\ Carried(buf) # <<>>
    BY <1>2, CarriedByBuffer
  <2> QED
    BY <2>1, <2>2 DEF RollbackBatch, StorageStep
<1> QED
  BY <1>1, <1>2

LEMMA NextStorageStep ==
  ASSUME BatcherTypeOK, [Next]_vars
  PROVE  StorageStep
<1>1. ASSUME NEW s \in Submissions, CountTrigger(s)
      PROVE  StorageStep
  <2>1. Append(buffer, s) \in Seq(Submissions)
    BY RangeAppend DEF BatcherTypeOK
  <2> QED
    BY <1>1, <2>1, FlushStorageStep DEF CountTrigger
<1>2. CASE AgeTrigger \/ \E f \in FlushCalls : HandleFlush(f)
  BY <1>2, FlushStorageStep DEF AgeTrigger, HandleFlush, BatcherTypeOK
<1>3. CASE HandleShutdown \/ HandleDisconnect
  BY <1>3, FlushStorageStep
     DEF HandleShutdown, HandleDisconnect, FinalFlush, BatcherTypeOK, StorageStep
<1>4. ASSUME NEW a \in Attestations, RecordUnbatched(a)
      PROVE  StorageStep
  BY <1>4 DEF RecordUnbatched, StorageStep
<1>5. CASE \E s \in Submissions : BufferSubmission(s)
  BY <1>5 DEF BufferSubmission, StorageStep
<1>6. CASE Caller
  BY <1>6 DEF Caller, SubmitCall, SubmitSend, SubmitCancel, FlushCall, FlushSend, FlushCancel,
              ShutdownCall, ShutdownSend, DropHandle, StorageStep
<1>7. CASE IdleTick \/ Second \/ Crash \/ Restart \/ UNCHANGED vars
  BY <1>7 DEF IdleTick, Second, Crash, Restart, vars, StorageStep
<1> QED
  BY <1>1, <1>2, <1>3, <1>4, <1>5, <1>6, <1>7 DEF Next, HandleCommand, HandleTick

LEMMA ConsistentStep ==
  ASSUME StorageTypeOK, StorageConsistent, StorageStep
  PROVE  StorageConsistent'
<1>1. CASE UNCHANGED storageVars
  BY <1>1 DEF storageVars, StorageConsistent, ProofsMatchLinks, BatchesComplete, GetBatch
<1>2. CASE \E a \in Attestations : InsertAttestation(a)
  BY <1>2, InsertPreserves
<1>3. CASE \E b \in BatchIds, atts \in Seq(Attestations) : atts # <<>> /\ CommitBatch(b, atts)
  BY <1>3, CommitPreserves
<1> QED
  BY <1>1, <1>2, <1>3 DEF StorageStep

LEMMA SealedForeverStep ==
  ASSUME StorageTypeOK, StorageConsistent, StorageStep
  PROVE  /\ \A b \in BatchIds : batches[b] # NULL => batches'[b] = batches[b]
         /\ \A i \in Ids : /\ rows[i] # NULL => rows'[i] = rows[i]
                           /\ batchOf[i] # NULL => /\ batchOf'[i] = batchOf[i]
                                                   /\ proofs'[i] = proofs[i]
<1>1. CASE UNCHANGED storageVars \/ \E a \in Attestations : InsertAttestation(a)
  BY <1>1, InsertPreserves DEF storageVars, InsertAttestation
<1>2. CASE \E b \in BatchIds, atts \in Seq(Attestations) : atts # <<>> /\ CommitBatch(b, atts)
  BY <1>2, CommitKeepsSealed DEF StorageConsistent
<1> QED
  BY <1>1, <1>2 DEF StorageStep

LEMMA InitStorage == Init => StorageConsistent
BY InitConsistent DEF Init

(* No batch is ever partial, in any interleaving of callers, triggers,     *)
(* failed transactions, crashes and other writers.                         *)
THEOREM BatchesNeverPartial == Spec => []StorageConsistent
<1>1. BatcherTypeOK /\ StorageConsistent /\ [Next]_vars => StorageConsistent'
  BY NextStorageStep, ConsistentStep DEF BatcherTypeOK
<1> QED
  BY <1>1, InitStorage, BatcherTypes, PTL DEF Spec

(* A sealed batch, its links, its proofs and every row, once written, never*)
(* change again.                                                           *)
THEOREM BatchesImmutable == Spec => SealedForever
<1> DEFINE Step == /\ \A b \in BatchIds : batches[b] # NULL => batches'[b] = batches[b]
                   /\ \A i \in Ids : /\ rows[i] # NULL => rows'[i] = rows[i]
                                     /\ batchOf[i] # NULL => /\ batchOf'[i] = batchOf[i]
                                                             /\ proofs'[i] = proofs[i]
<1>1. BatcherTypeOK /\ StorageConsistent /\ [Next]_vars => [Step]_storageVars
  BY NextStorageStep, SealedForeverStep DEF BatcherTypeOK
<1>2. SealedForever <=> [][Step]_storageVars
  BY PTL DEF SealedForever
<1> QED
  BY <1>1, <1>2, BatcherTypes, BatchesNeverPartial, PTL DEF Spec

----------------------------------------------------------------------------
(* The channel and the buffer.  Commands are in the channel at most once,  *)
(* Shutdown behind all others; nobody waits on a handle that was consumed. *)
FlushesQueued ==
  \A f \in FlushCalls :
    /\ f \in Range(channel) => reply[f] \in {Calling("waiting"), Calling("cancelled")}
    /\ reply[f] = Calling("waiting") => f \in Range(channel)

ShutdownLast ==
  Shutdown \in Range(channel) => handle = "closed" /\ channel[Len(channel)] = Shutdown

ConsumedUnborrowed == handle # "held" => ~Borrowed

KilledEmpty == task = "killed" => channel = <<>> /\ buffer = <<>> /\ elapsed = NULL

ChannelInv ==
  /\ NothingVanishes
  /\ FlushesQueued
  /\ ShutdownLast
  /\ ConsumedUnborrowed
  /\ KilledEmpty
  /\ NeverClosedUnderACaller

(* The ages.  The buffer is as old as its oldest member. *)
AgeInv ==
  /\ SizesBounded
  /\ \A s \in Submissions : stage[s] \in {"idle", "sending", "queued"} => waited[s] = 0
  /\ task = "running" =>
       /\ \A s \in Range(buffer) : waited[s] <= elapsed
       /\ elapsed # NULL => elapsed <= MaxBatchAge + (IF tickDue THEN 1 ELSE 0)

(* The barrier.  What was accepted before a flush_now call is ahead of its *)
(* command in the channel, or out of the channel.                          *)
Before(s, f) == \E i, j \in DOMAIN channel : i < j /\ channel[i] = s /\ channel[j] = f

Accepted(s) == stage[s] \notin {"idle", "sending", "cancelled"}
Gone(s)     == Accepted(s) /\ stage[s] \notin InMemory

BarrierFor(f) ==
  /\ \A s \in ahead[f] : Accepted(s)
  /\ reply[f] = Calling("waiting") => \A s \in ahead[f] : stage[s] = "queued" => Before(s, f)
  /\ IsAnswer(reply[f]) => \A s \in ahead[f] : Gone(s)
  /\ \A b \in BatchIds : reply[f] = Sealed(b) => batches[b] # NULL

BarrierInv == \A f \in FlushCalls : BarrierFor(f)

(* Sending a command that is not in the channel. *)
LEMMA SendEffect ==
  ASSUME channel \in Seq(Commands), IsInjective(channel),
         NEW cmd \in Commands, cmd \notin Range(channel), Send(cmd)
  PROVE  /\ Range(channel') = Range(channel) \cup {cmd}
         /\ IsInjective(channel')
         /\ channel'[Len(channel')] = cmd
         /\ task = "running"
<1>1. channel' = Append(channel, cmd) /\ task = "running"
  BY DEF Send, CanSend
<1>2. Len(channel') = Len(channel) + 1 /\ channel'[Len(channel) + 1] = cmd
  BY <1>1, AppendProperties
<1> QED
  BY <1>1, <1>2, RangeAppend

(* Receiving one: the rest keeps its order, and its last command. *)
LEMMA ReceiveEffect ==
  ASSUME channel \in Seq(Commands), IsInjective(channel), NEW cmd, Receive(cmd)
  PROVE  /\ cmd \in Range(channel)
         /\ Range(channel') = Range(channel) \ {cmd}
         /\ IsInjective(channel')
         /\ Range(channel') # {} => channel'[Len(channel')] = channel[Len(channel)]
         /\ channel[Len(channel)] = cmd => channel' = <<>>
         /\ task = "running"
<1>1. channel # <<>> /\ Head(channel) = cmd /\ channel' = Tail(channel) /\ task = "running"
  BY DEF Receive
<1>2. /\ channel' \in Seq(Commands)
      /\ Range(channel) = Range(channel') \cup {cmd}
      /\ IsInjective(channel')
      /\ cmd \notin Range(channel')
  BY <1>1, RangeTail
<1>3. /\ Len(channel) \in Nat \ {0}
      /\ Len(channel') = Len(channel) - 1
      /\ \A i \in 1 .. Len(channel') : channel'[i] = channel[i + 1]
      /\ channel[1] = cmd
      /\ DOMAIN channel = 1 .. Len(channel)
      /\ DOMAIN channel' = 1 .. Len(channel')
  BY <1>1, <1>2, HeadTailProperties, EmptySeq, LenProperties
<1>4. Range(channel') # {} => channel'[Len(channel')] = channel[Len(channel)]
  <2> SUFFICES ASSUME Range(channel') # {}
               PROVE  channel'[Len(channel')] = channel[Len(channel)]
    OBVIOUS
  <2>1. Len(channel') >= 1
    BY <1>3 DEF Range
  <2> QED
    BY <1>3, <2>1
<1>5. channel[Len(channel)] = cmd => channel' = <<>>
  <2> SUFFICES ASSUME channel[Len(channel)] = cmd
               PROVE  channel' = <<>>
    OBVIOUS
  <2>1. Len(channel) = 1
    BY <1>3 DEF IsInjective
  <2> QED
    BY <1>2, <1>3, <2>1, EmptySeq
<1> QED
  BY <1>1, <1>2, <1>4, <1>5

(* What a flush leaves of the buffer and the fates of its members. *)
LEMMA FlushEffect ==
  ASSUME BatcherTypeOK, NEW buf \in Seq(Submissions), NEW answer \in Answers,
         Flush(buf, answer)
  PROVE  /\ buffer' = <<>>
         /\ \E end \in {"sealed", "failed"} : stage' = MarkAll(buf, end)
<1>1. buffer' = <<>>
  BY DEF Flush, TakeBuffer
<1>2. CASE buf = <<>>
  <2>1. Range(buf) = {}
    BY <1>2 DEF Range
  <2>2. stage' = MarkAll(buf, "sealed")
    BY <1>2, <2>1 DEF Flush, MarkAll, BatcherTypeOK
  <2> QED
    BY <1>1, <2>2
<1>3. CASE buf # <<>>
  BY <1>1, <1>3 DEF Flush
<1> QED
  BY <1>2, <1>3

LEMMA FinalFlushEffect ==
  ASSUME BatcherTypeOK, NEW answer \in Answers, FinalFlush(answer)
  PROVE  /\ buffer' = <<>>
         /\ \E end \in {"sealed", "failed", "discarded"} : stage' = MarkAll(buffer, end)
<1>1. CASE Flush(buffer, answer)
  BY <1>1, FlushEffect DEF BatcherTypeOK
<1>2. CASE ~Flush(buffer, answer)
  BY <1>2 DEF FinalFlush
<1> QED
  BY <1>1, <1>2

(* The points of a call differ from one another and from every answer. *)
LEMMA CallsDiffer ==
  /\ Calling("idle") # Calling("sending") /\ Calling("idle") # Calling("waiting")
  /\ Calling("idle") # Calling("cancelled") /\ Calling("sending") # Calling("waiting")
  /\ Calling("sending") # Calling("cancelled") /\ Calling("waiting") # Calling("cancelled")
  /\ \A p \in {"idle", "sending", "waiting", "cancelled"} : Calling(p) \notin Answers
BY DEF Calling, Answers, Sealed, NoBatch, StorageError

LEMMA ChannelInit == Init => ChannelInv
<1> SUFFICES ASSUME Init
             PROVE  ChannelInv
  OBVIOUS
<1>1. Range(channel) = {} /\ Range(buffer) = {} /\ IsInjective(channel) /\ IsInjective(buffer)
  BY DEF Init, Range, IsInjective
<1>2. NothingVanishes
  BY <1>1 DEF Init, NothingVanishes
<1>3. FlushesQueued /\ ShutdownLast
  BY <1>1, CallsDiffer DEF Init, FlushesQueued, ShutdownLast
<1> QED
  BY <1>2, <1>3 DEF Init, ChannelInv, ConsumedUnborrowed, KilledEmpty, NeverClosedUnderACaller

(* The commands of different kinds differ. *)
LEMMA CommandKinds ==
  /\ \A s \in Submissions : s \notin FlushCalls /\ s # Shutdown
  /\ \A f \in FlushCalls : f \notin Submissions /\ f # Shutdown
BY BatcherAssumption

(* Emptying a buffer whose members all get the same end. *)
LEMMA FlushedBuffer ==
  ASSUME BatcherTypeOK, ChannelInv, buffer' = <<>>,
         NEW S, S \subseteq Submissions,
         \A s \in Submissions : s \in S <=> s \in Range(buffer) \cup (Range(channel) \ Range(channel')),
         NEW end \in {"sealed", "failed", "discarded"},
         stage' = [s \in Submissions |-> IF s \in S THEN end ELSE stage[s]],
         IsInjective(channel'), Range(channel') \subseteq Range(channel)
  PROVE  NothingVanishes'
<1>1. Range(buffer') = {} /\ IsInjective(buffer')
  BY DEF Range, IsInjective
<1>2. ASSUME NEW s \in Submissions
      PROVE  /\ (s \in Range(channel')) <=> (stage'[s] = "queued")
             /\ (s \in Range(buffer'))  <=> (stage'[s] = "buffered")
  <2>1. /\ (s \in Range(channel)) <=> (stage[s] = "queued")
        /\ (s \in Range(buffer))  <=> (stage[s] = "buffered")
    BY DEF ChannelInv, NothingVanishes
  <2>2. CASE s \in S
    BY <1>1, <2>1, <2>2
  <2>3. CASE s \notin S
    BY <1>1, <2>1, <2>3
  <2> QED
    BY <2>2, <2>3
<1> QED
  BY <1>1, <1>2 DEF NothingVanishes

(* Receiving anything but Shutdown leaves a Shutdown last. *)
LEMMA ReceiveKeepsShutdownLast ==
  ASSUME BatcherTypeOK, ChannelInv, NEW cmd \in Submissions \cup FlushCalls, Receive(cmd),
         handle' = handle
  PROVE  ShutdownLast'
<1>1. /\ Range(channel') = Range(channel) \ {cmd}
      /\ Range(channel') # {} => channel'[Len(channel')] = channel[Len(channel)]
  BY ReceiveEffect DEF BatcherTypeOK, ChannelInv, NothingVanishes
<1> QED
  BY <1>1 DEF ShutdownLast, ChannelInv

(* A submission enters the channel, from an open handle of a running task. *)
LEMMA ChannelSubmitSend ==
  ASSUME BatcherTypeOK, ChannelInv, NEW s \in Submissions, SubmitSend(s)
  PROVE  ChannelInv'
<1>1. /\ handle = "held" /\ s \notin Range(channel) /\ s \notin Range(buffer)
      /\ s \in Commands
  BY DEF SubmitSend, ChannelInv, NothingVanishes, ConsumedUnborrowed, Borrowed, Commands
<1>2. /\ Range(channel') = Range(channel) \cup {s}
      /\ IsInjective(channel')
      /\ task = "running"
  BY <1>1, SendEffect DEF SubmitSend, ChannelInv, NothingVanishes, BatcherTypeOK
<1>3. /\ stage' = [stage EXCEPT ![s] = "queued"]
      /\ buffer' = buffer /\ task' = task /\ handle' = handle /\ reply' = reply
      /\ elapsed' = elapsed
  BY DEF SubmitSend, taskVars, callVars
<1>4. NothingVanishes'
  BY <1>1, <1>2, <1>3 DEF ChannelInv, NothingVanishes, BatcherTypeOK
<1>5. FlushesQueued' /\ ShutdownLast'
  BY <1>1, <1>2, <1>3, CommandKinds DEF ChannelInv, FlushesQueued, ShutdownLast
<1> QED
  BY <1>1, <1>2, <1>3, <1>4, <1>5
     DEF ChannelInv, ConsumedUnborrowed, KilledEmpty, NeverClosedUnderACaller

(* So does the command of a flush_now. *)
LEMMA ChannelFlushSend ==
  ASSUME BatcherTypeOK, ChannelInv, NEW f \in FlushCalls, FlushSend(f)
  PROVE  ChannelInv'
<1>1. /\ handle = "held" /\ f \notin Range(channel) /\ f \in Commands
  BY CallsDiffer DEF FlushSend, ChannelInv, FlushesQueued, ConsumedUnborrowed, Borrowed, Commands
<1>2. /\ Range(channel') = Range(channel) \cup {f}
      /\ IsInjective(channel')
      /\ task = "running"
  BY <1>1, SendEffect DEF FlushSend, ChannelInv, NothingVanishes, BatcherTypeOK
<1>3. /\ reply' = [reply EXCEPT ![f] = Calling("waiting")]
      /\ buffer' = buffer /\ task' = task /\ handle' = handle /\ stage' = stage
  BY DEF FlushSend, taskVars, history
<1>4. NothingVanishes'
  BY <1>2, <1>3, CommandKinds DEF ChannelInv, NothingVanishes
<1>5. FlushesQueued'
  BY <1>2, <1>3 DEF ChannelInv, FlushesQueued, BatcherTypeOK
<1>6. ShutdownLast'
  BY <1>1, <1>2, <1>3, CommandKinds DEF ChannelInv, ShutdownLast
<1> QED
  BY <1>1, <1>2, <1>3, <1>4, <1>5, <1>6
     DEF ChannelInv, ConsumedUnborrowed, KilledEmpty, NeverClosedUnderACaller

(* Shutdown enters it last: nobody is left to send. *)
LEMMA ChannelShutdownSend ==
  ASSUME BatcherTypeOK, ChannelInv, ShutdownSend
  PROVE  ChannelInv'
<1>1. /\ handle = "closing" /\ Shutdown \notin Range(channel) /\ Shutdown \in Commands
  BY DEF ShutdownSend, ChannelInv, ShutdownLast, Commands
<1>2. /\ Range(channel') = Range(channel) \cup {Shutdown}
      /\ IsInjective(channel')
      /\ channel'[Len(channel')] = Shutdown
      /\ task = "running"
  BY <1>1, SendEffect DEF ShutdownSend, ChannelInv, NothingVanishes, BatcherTypeOK
<1>3. /\ handle' = "closed"
      /\ buffer' = buffer /\ task' = task /\ stage' = stage /\ reply' = reply
  BY DEF ShutdownSend, taskVars, callVars, history
<1>4. NothingVanishes' /\ FlushesQueued'
  BY <1>2, <1>3, CommandKinds DEF ChannelInv, NothingVanishes, FlushesQueued
<1>5. ConsumedUnborrowed'
  BY <1>1, <1>3 DEF ChannelInv, ConsumedUnborrowed, Borrowed
<1> QED
  BY <1>1, <1>2, <1>3, <1>4, <1>5
     DEF ChannelInv, ShutdownLast, KilledEmpty, NeverClosedUnderACaller

(* The callers' other steps leave the channel and the buffer alone. *)
LEMMA ChannelCaller ==
  ASSUME BatcherTypeOK, ChannelInv, Caller
  PROVE  ChannelInv'
<1>1. ASSUME NEW s \in Submissions, SubmitCall(s) \/ SubmitCancel(s)
      PROVE  ChannelInv'
  <2>1. /\ channel' = channel /\ buffer' = buffer /\ task' = task /\ handle' = handle
        /\ reply' = reply /\ elapsed' = elapsed
        /\ stage[s] \in {"idle", "sending"} /\ stage'[s] \in {"sending", "cancelled"}
        /\ \A t \in Submissions : t # s => stage'[t] = stage[t]
        /\ stage'[s] = "sending" => handle = "held"
    BY <1>1 DEF SubmitCall, SubmitCancel, taskVars, callVars, BatcherTypeOK
  <2>2. NothingVanishes'
    BY <2>1 DEF ChannelInv, NothingVanishes
  <2>3. ConsumedUnborrowed'
    BY <2>1 DEF ChannelInv, ConsumedUnborrowed, Borrowed
  <2>4. NeverClosedUnderACaller'
    BY <2>1, <2>3 DEF ChannelInv, NeverClosedUnderACaller, ConsumedUnborrowed
  <2> QED
    BY <2>1, <2>2, <2>3, <2>4 DEF ChannelInv, FlushesQueued, ShutdownLast, KilledEmpty
<1>2. ASSUME NEW f \in FlushCalls, FlushCall(f) \/ FlushCancel(f)
      PROVE  ChannelInv'
  <2>1. /\ channel' = channel /\ buffer' = buffer /\ task' = task /\ handle' = handle
        /\ stage' = stage /\ elapsed' = elapsed
        /\ \A g \in FlushCalls : g # f => reply'[g] = reply[g]
    BY <1>2 DEF FlushCall, FlushCancel, taskVars, history, BatcherTypeOK
  <2>2. \/ handle = "held" /\ reply[f] = Calling("idle") /\ reply'[f] = Calling("sending")
        \/ reply[f] \in {Calling("sending"), Calling("waiting")} /\ reply'[f] = Calling("cancelled")
    BY <1>2 DEF FlushCall, FlushCancel, BatcherTypeOK
  <2>3. FlushesQueued'
    BY <2>1, <2>2, CallsDiffer DEF ChannelInv, FlushesQueued
  <2>4. ConsumedUnborrowed'
    BY <2>1, <2>2, CallsDiffer DEF ChannelInv, ConsumedUnborrowed, Borrowed
  <2>5. NeverClosedUnderACaller'
    BY <2>1, <2>4 DEF ChannelInv, NeverClosedUnderACaller, ConsumedUnborrowed
  <2> QED
    BY <2>1, <2>3, <2>4, <2>5 DEF ChannelInv, NothingVanishes, ShutdownLast, KilledEmpty
<1>3. ASSUME ShutdownCall \/ DropHandle
      PROVE  ChannelInv'
  <2>1. /\ channel' = channel /\ buffer' = buffer /\ task' = task /\ stage' = stage
        /\ reply' = reply /\ elapsed' = elapsed
        /\ handle \in {"held", "closing"} /\ handle' \in {"closing", "dropped"}
        /\ handle = "held" => ~Borrowed
    BY <1>3 DEF ShutdownCall, DropHandle, taskVars, callVars, history
  <2>2. ~Borrowed'
    BY <2>1 DEF ChannelInv, ConsumedUnborrowed, Borrowed
  <2>3. ShutdownLast' /\ NeverClosedUnderACaller'
    BY <2>1 DEF ChannelInv, ShutdownLast, NeverClosedUnderACaller
  <2> QED
    BY <2>1, <2>2, <2>3 DEF ChannelInv, NothingVanishes, FlushesQueued, ConsumedUnborrowed, KilledEmpty
<1> QED
  BY <1>1, <1>2, <1>3, ChannelSubmitSend, ChannelFlushSend, ChannelShutdownSend DEF Caller

(* A submission goes from the channel to the buffer, or to its end. *)
LEMMA ChannelSubmission ==
  ASSUME BatcherTypeOK, ChannelInv, NEW s \in Submissions,
         BufferSubmission(s) \/ CountTrigger(s)
  PROVE  ChannelInv'
<1>1. Receive(s) /\ handle' = handle /\ task' = task /\ reply' = reply
  BY DEF BufferSubmission, CountTrigger, callVars
<1>2. /\ s \in Range(channel)
      /\ Range(channel') = Range(channel) \ {s}
      /\ IsInjective(channel')
      /\ task = "running"
  BY <1>1, ReceiveEffect DEF BatcherTypeOK, ChannelInv, NothingVanishes
<1>3. stage[s] = "queued" /\ s \notin Range(buffer)
  BY <1>2 DEF ChannelInv, NothingVanishes
<1>4. /\ NothingVanishes'
      /\ \A t \in Submissions : stage'[t] = "sending" => stage[t] = "sending"
  <2>1. CASE BufferSubmission(s)
    <3>1. buffer' = Append(buffer, s) /\ stage' = [stage EXCEPT ![s] = "buffered"]
      BY <2>1 DEF BufferSubmission
    <3>2. Range(buffer') = Range(buffer) \cup {s} /\ IsInjective(buffer')
      BY <1>3, <3>1, RangeAppend DEF BatcherTypeOK, ChannelInv, NothingVanishes
    <3> QED
      BY <1>2, <1>3, <3>1, <3>2 DEF ChannelInv, NothingVanishes, BatcherTypeOK
  <2>2. CASE CountTrigger(s)
    <3>1. PICK answer \in Answers : Flush(Append(buffer, s), answer)
      BY <2>2 DEF CountTrigger
    <3>2. /\ Append(buffer, s) \in Seq(Submissions)
          /\ Range(Append(buffer, s)) = Range(buffer) \cup {s}
      BY RangeAppend DEF BatcherTypeOK
    <3>3. PICK end \in {"sealed", "failed"} :
            buffer' = <<>> /\ stage' = MarkAll(Append(buffer, s), end)
      BY <3>1, <3>2, FlushEffect
    <3>4. \A t \in Submissions : t \in Range(Append(buffer, s)) <=>
                                   t \in Range(buffer) \cup (Range(channel) \ Range(channel'))
      BY <1>2, <3>2
    <3>5. Range(Append(buffer, s)) \subseteq Submissions
      BY <3>2, ElementOfSeq DEF Range
    <3> QED
      BY <1>2, <3>3, <3>4, <3>5, FlushedBuffer DEF MarkAll, BatcherTypeOK
  <2> QED
    BY <2>1, <2>2
<1>5. FlushesQueued'
  BY <1>1, <1>2, CommandKinds DEF ChannelInv, FlushesQueued
<1>6. ShutdownLast'
  BY <1>1, ReceiveKeepsShutdownLast
<1>7. ConsumedUnborrowed'
  BY <1>1, <1>4 DEF ChannelInv, ConsumedUnborrowed, Borrowed
<1> QED
  BY <1>1, <1>2, <1>4, <1>5, <1>6, <1>7
     DEF ChannelInv, KilledEmpty, NeverClosedUnderACaller

(* A submission in Borrowed is "sending": taking the buffer settles none.  *)
LEMMA MarkedNotSending ==
  ASSUME BatcherTypeOK, ChannelInv, NEW end \in {"sealed", "failed", "discarded"},
         stage' = MarkAll(buffer, end), reply' = reply, ~Borrowed
  PROVE  ~Borrowed'
BY DEF MarkAll, Borrowed, BatcherTypeOK

(* The task answers a flush_now. *)
LEMMA ChannelHandleFlush ==
  ASSUME BatcherTypeOK, ChannelInv, NEW f \in FlushCalls, HandleFlush(f)
  PROVE  ChannelInv'
<1>1. Receive(f) /\ handle' = handle /\ task' = task
  BY DEF HandleFlush
<1>2. /\ f \in Range(channel)
      /\ Range(channel') = Range(channel) \ {f}
      /\ IsInjective(channel')
      /\ task = "running"
  BY <1>1, ReceiveEffect DEF BatcherTypeOK, ChannelInv, NothingVanishes
<1>3. PICK answer \in Answers : Flush(buffer, answer) /\ Respond(f, answer)
  BY DEF HandleFlush
<1>4. PICK end \in {"sealed", "failed"} : buffer' = <<>> /\ stage' = MarkAll(buffer, end)
  BY <1>3, FlushEffect DEF BatcherTypeOK
<1>5. Range(buffer) \subseteq Submissions
  BY ElementOfSeq DEF Range, BatcherTypeOK
<1>6. NothingVanishes'
  BY <1>2, <1>4, <1>5, CommandKinds, FlushedBuffer DEF MarkAll
<1>7. /\ \A g \in FlushCalls : g # f => reply'[g] = reply[g]
      /\ reply'[f] \in {reply[f]} \cup Answers
      /\ reply'[f] # Calling("waiting") /\ reply'[f] # Calling("sending")
  <2>1. reply[f] \in {Calling("waiting"), Calling("cancelled")}
    BY <1>2 DEF ChannelInv, FlushesQueued
  <2>2. CASE reply[f] = Calling("waiting")
    BY <1>3, <2>2, CallsDiffer DEF Respond, BatcherTypeOK
  <2>3. CASE reply[f] = Calling("cancelled")
    BY <1>3, <2>3, CallsDiffer DEF Respond, BatcherTypeOK
  <2> QED
    BY <2>1, <2>2, <2>3
<1>8. FlushesQueued'
  BY <1>2, <1>7, CallsDiffer DEF ChannelInv, FlushesQueued
<1>9. ConsumedUnborrowed'
  BY <1>1, <1>4, <1>7 DEF ChannelInv, ConsumedUnborrowed, Borrowed, MarkAll
<1> QED
  BY <1>1, <1>2, <1>6, <1>8, <1>9, ReceiveKeepsShutdownLast
     DEF ChannelInv, KilledEmpty, NeverClosedUnderACaller

(* The age trigger empties the buffer. *)
LEMMA ChannelAgeTrigger ==
  ASSUME BatcherTypeOK, ChannelInv, AgeTrigger
  PROVE  ChannelInv'
<1>1. /\ channel' = channel /\ handle' = handle /\ task' = task /\ reply' = reply
      /\ task = "running"
  BY DEF AgeTrigger, callVars
<1>2. PICK end \in {"sealed", "failed"} : buffer' = <<>> /\ stage' = MarkAll(buffer, end)
  BY FlushEffect DEF AgeTrigger, BatcherTypeOK
<1>3. Range(buffer) \subseteq Submissions
  BY ElementOfSeq DEF Range, BatcherTypeOK
<1>4. NothingVanishes'
  BY <1>1, <1>2, <1>3, FlushedBuffer DEF MarkAll, ChannelInv, NothingVanishes
<1>5. ConsumedUnborrowed'
  BY <1>1, <1>2, MarkedNotSending DEF ChannelInv, ConsumedUnborrowed
<1> QED
  BY <1>1, <1>4, <1>5
     DEF ChannelInv, FlushesQueued, ShutdownLast, KilledEmpty, NeverClosedUnderACaller

(* The task exits with the channel drained and nobody to notice. *)
LEMMA ChannelExit ==
  ASSUME BatcherTypeOK, ChannelInv, HandleShutdown \/ HandleDisconnect
  PROVE  ChannelInv'
<1>1. /\ channel' = <<>>
      /\ Range(channel) \subseteq {Shutdown}
      /\ handle \in {"closed", "dropped"}
  <2>1. CASE HandleShutdown
    <3>1. /\ Shutdown \in Range(channel)
          /\ Range(channel') = Range(channel) \ {Shutdown}
          /\ channel[Len(channel)] = Shutdown => channel' = <<>>
      BY <2>1, ReceiveEffect DEF HandleShutdown, BatcherTypeOK, ChannelInv, NothingVanishes
    <3>2. handle = "closed" /\ channel' = <<>>
      BY <3>1 DEF ChannelInv, ShutdownLast
    <3>3. Range(channel') = {}
      BY <3>2 DEF Range
    <3> QED
      BY <3>1, <3>2, <3>3
  <2>2. CASE HandleDisconnect
    BY <2>2 DEF HandleDisconnect, Disconnected, Range
  <2> QED
    BY <2>1, <2>2
<1>2. handle' = handle /\ reply' = reply /\ task' = "exited"
  BY DEF HandleShutdown, HandleDisconnect, Exit, callVars
<1>3. PICK end \in {"sealed", "failed", "discarded"} :
        buffer' = <<>> /\ stage' = MarkAll(buffer, end)
  BY FinalFlushEffect DEF HandleShutdown, HandleDisconnect
<1>4. Range(channel') = {} /\ IsInjective(channel')
  BY <1>1 DEF Range, IsInjective
<1>5. Range(buffer) \subseteq Submissions
  BY ElementOfSeq DEF Range, BatcherTypeOK
<1>6. NothingVanishes'
  BY <1>1, <1>3, <1>4, <1>5, CommandKinds, FlushedBuffer DEF MarkAll
<1>7. ~Borrowed'
  BY <1>1, <1>2, <1>3, MarkedNotSending DEF ChannelInv, ConsumedUnborrowed
<1>8. FlushesQueued'
  BY <1>1, <1>2, <1>4, <1>7, CommandKinds DEF FlushesQueued, Borrowed
<1> QED
  BY <1>1, <1>2, <1>3, <1>4, <1>6, <1>7, <1>8
     DEF ChannelInv, ConsumedUnborrowed, ShutdownLast, KilledEmpty, NeverClosedUnderACaller

LEMMA ChannelCrash ==
  ASSUME BatcherTypeOK, ChannelInv, Crash
  PROVE  ChannelInv'
<1>1. /\ channel' = <<>> /\ buffer' = <<>> /\ elapsed' = NULL /\ task' = "killed"
      /\ handle' = "dropped"
  BY DEF Crash
<1>2. /\ Range(channel') = {} /\ IsInjective(channel')
      /\ Range(buffer') = {} /\ IsInjective(buffer')
  BY <1>1 DEF Range, IsInjective
<1>3. \A s \in Submissions : stage'[s] \notin {"sending", "queued", "buffered"}
  BY DEF Crash, InMemory, BatcherTypeOK
<1>4. \A f \in FlushCalls : reply'[f] \notin {Calling("sending"), Calling("waiting")}
  BY CallsDiffer DEF Crash, BatcherTypeOK
<1> QED
  BY <1>1, <1>2, <1>3, <1>4
     DEF ChannelInv, NothingVanishes, FlushesQueued, ShutdownLast, ConsumedUnborrowed, Borrowed,
         KilledEmpty, NeverClosedUnderACaller

LEMMA ChannelRestart ==
  ASSUME ChannelInv, Restart
  PROVE  ChannelInv'
<1>1. /\ channel' = <<>> /\ channel = <<>> /\ buffer' = buffer /\ stage' = stage /\ reply' = reply
      /\ task' = "running" /\ handle' = "held"
  BY DEF Restart, ChannelInv, KilledEmpty, callVars, history
<1>2. Range(channel') = {}
  BY <1>1 DEF Range
<1> QED
  BY <1>1, <1>2
     DEF ChannelInv, NothingVanishes, FlushesQueued, ShutdownLast, ConsumedUnborrowed,
         KilledEmpty, NeverClosedUnderACaller

LEMMA ChannelStep ==
  ASSUME BatcherTypeOK, ChannelInv, [Next]_vars
  PROVE  ChannelInv'
<1>1. CASE IdleTick \/ Second \/ (\E a \in Attestations : RecordUnbatched(a)) \/ UNCHANGED vars
  <2>1. /\ channel' = channel /\ buffer' = buffer /\ task' = task /\ handle' = handle
        /\ stage' = stage /\ reply' = reply
        /\ task = "killed" => elapsed' = elapsed
    BY <1>1 DEF IdleTick, Second, RecordUnbatched, taskVars, callVars, history, vars
  <2> QED
    BY <2>1 DEF ChannelInv, NothingVanishes, FlushesQueued, ShutdownLast, ConsumedUnborrowed, Borrowed,
                KilledEmpty, NeverClosedUnderACaller
<1> QED
  BY <1>1, ChannelCaller, ChannelSubmission, ChannelHandleFlush, ChannelAgeTrigger, ChannelExit,
     ChannelCrash, ChannelRestart
     DEF Next, HandleCommand, HandleTick

LEMMA ChannelAlways == Spec => []ChannelInv
<1>1. BatcherTypeOK /\ ChannelInv /\ [Next]_vars => ChannelInv'
  BY ChannelStep
<1> QED
  BY <1>1, ChannelInit, BatcherTypes, PTL DEF Spec

(* No accepted attestation vanishes from, or is twice in, the channel and  *)
(* the buffer; none is anywhere after it was settled.                      *)
THEOREM AcceptedIsSomewhere == Spec => []NothingVanishes
<1>1. ChannelInv => NothingVanishes
  BY DEF ChannelInv
<1> QED
  BY <1>1, ChannelAlways, PTL

(* Without a crash no caller ever finds the channel closed.                *)
THEOREM NobodyFindsItClosed == Spec => []NeverClosedUnderACaller
<1>1. ChannelInv => NeverClosedUnderACaller
  BY DEF ChannelInv
<1> QED
  BY <1>1, ChannelAlways, PTL

----------------------------------------------------------------------------
(* The sizes and the ages.                                                 *)

(* A flush of a buffer within the bound seals a batch within the bound.    *)
LEMMA FlushSizes ==
  ASSUME BatcherTypeOK, SizesBounded, NEW buf \in Seq(Submissions), NEW answer \in Answers,
         Flush(buf, answer), Len(buf) <= MaxBatchSize \/ Len(buf) = 1
  PROVE  /\ \A b \in BatchIds :
              batches'[b] # NULL => batches'[b].count <= MaxBatchSize \/ batches'[b].count = 1
         /\ elapsed' = IF buf = <<>> THEN elapsed ELSE NULL
<1>1. CASE buf = <<>>
  BY <1>1 DEF Flush, storageVars, SizesBounded
<1>2. CASE buf # <<>>
  <2>1. PICK c \in BatchIds : CommitBatch(c, Carried(buf)) \/ RollbackBatch(c, Carried(buf))
    BY <1>2 DEF Flush
  <2>2. CASE CommitBatch(c, Carried(buf))
    <3>1. batches' = [batches EXCEPT ![c] = [root |-> Carried(buf), count |-> Len(buf)]]
      BY <2>2, CarriedByBuffer DEF CommitBatch
    <3> QED
      BY <1>2, <3>1 DEF Flush, SizesBounded, BatcherTypeOK, StorageTypeOK
  <2>3. CASE RollbackBatch(c, Carried(buf))
    BY <1>2, <2>3 DEF Flush, RollbackBatch, storageVars, SizesBounded
  <2> QED
    BY <2>1, <2>2, <2>3
<1> QED
  BY <1>1, <1>2

LEMMA EmptyBuffer ==
  Range(<<>>) = {} /\ Len(<<>>) = 0
BY DEF Range

LEMMA AgeInit == Init => AgeInv
BY EmptyBuffer DEF Init, StorageInit, AgeInv, SizesBounded

(* Steps that leave the task, the buffer and the clocks alone. *)
LEMMA AgeFrame ==
  ASSUME AgeInv, UNCHANGED <<buffer, task, elapsed, tickDue, waited, batches>>,
         \A s \in Submissions : stage'[s] \in {"idle", "sending", "queued"}
                                  => stage[s] \in {"idle", "sending", "queued"}
  PROVE  AgeInv'
BY DEF AgeInv, SizesBounded

(* Steps that empty the buffer. *)
LEMMA AgeFlush ==
  ASSUME BatcherTypeOK, ChannelInv, AgeInv,
         NEW S, NEW end \in {"sealed", "failed", "discarded"},
         stage' = [s \in Submissions |-> IF s \in S THEN end ELSE stage[s]],
         waited' = waited, buffer' = <<>>, task' = "running" => elapsed' = NULL,
         \A b \in BatchIds :
            batches'[b] # NULL => batches'[b].count <= MaxBatchSize \/ batches'[b].count = 1
  PROVE  AgeInv'
<1>1. SizesBounded'
  BY EmptyBuffer DEF SizesBounded
<1>2. \A s \in Submissions : stage'[s] \in {"idle", "sending", "queued"} => waited'[s] = 0
  BY DEF AgeInv, BatcherTypeOK
<1>3. Range(buffer') = {}
  BY EmptyBuffer
<1> QED
  BY <1>1, <1>2, <1>3 DEF AgeInv

LEMMA AgeBuffer ==
  ASSUME BatcherTypeOK, ChannelInv, AgeInv, NEW s \in Submissions, BufferSubmission(s)
  PROVE  AgeInv'
<1>1. /\ task = "running" /\ task' = task /\ tickDue' = tickDue /\ waited' = waited
      /\ batches' = batches /\ elapsed' = OldestAt
      /\ buffer' = Append(buffer, s) /\ stage' = [stage EXCEPT ![s] = "buffered"]
      /\ ~(Len(buffer) + 1 >= MaxBatchSize)
  BY DEF BufferSubmission, Receive, CountReached, storageVars
<1>2. waited[s] = 0
  <2>1. s \in Range(channel)
    BY ReceiveEffect DEF BufferSubmission, BatcherTypeOK, ChannelInv, NothingVanishes
  <2> QED
    BY <2>1 DEF ChannelInv, NothingVanishes, AgeInv
<1>3. /\ Len(buffer) \in Nat /\ Len(buffer') = Len(buffer) + 1
      /\ buffer' # <<>>
      /\ Range(buffer') = Range(buffer) \cup {s}
  BY <1>1, RangeAppend, AppendProperties, LenProperties DEF BatcherTypeOK
<1>4. elapsed' \in Nat /\ (buffer # <<>> => elapsed' = elapsed) /\ (buffer = <<>> => elapsed' = 0)
  BY <1>1 DEF OldestAt, AgeInv, SizesBounded, BatcherTypeOK
<1>5. SizesBounded'
  <2>1. Len(buffer') < MaxBatchSize
    BY <1>1, <1>3, BatcherAssumption
  <2>2. elapsed' # NULL
    BY <1>4, BatcherAssumption
  <2> QED
    BY <1>1, <1>3, <2>1, <2>2 DEF SizesBounded, AgeInv
<1>6. ASSUME NEW t \in Range(buffer')
      PROVE  waited'[t] <= elapsed'
  <2>1. CASE t = s
    BY <1>1, <1>2, <1>4, <2>1
  <2>2. CASE t \in Range(buffer)
    <3>1. buffer # <<>>
      BY <2>2, EmptyBuffer
    <3> QED
      BY <1>1, <1>4, <2>2, <3>1 DEF AgeInv
  <2> QED
    BY <1>3, <1>6, <2>1, <2>2
<1>7. elapsed' <= MaxBatchAge + (IF tickDue' THEN 1 ELSE 0)
  <2>1. CASE buffer = <<>>
    BY <1>1, <1>4, <2>1, BatcherAssumption
  <2>2. CASE buffer # <<>>
    BY <1>1, <1>4, <2>2 DEF AgeInv, SizesBounded
  <2> QED
    BY <2>1, <2>2
<1>8. \A t \in Submissions : stage'[t] \in {"idle", "sending", "queued"} => waited'[t] = 0
  BY <1>1 DEF AgeInv, BatcherTypeOK
<1> QED
  BY <1>5, <1>6, <1>7, <1>8 DEF AgeInv

(* What the task flushes is within the bound. *)
LEMMA BufferWithinBound ==
  ASSUME BatcherTypeOK, SizesBounded
  PROVE  /\ buffer # <<>> => Len(buffer) <= MaxBatchSize
         /\ \A s \in Submissions : \/ Len(Append(buffer, s)) <= MaxBatchSize
                                   \/ Len(Append(buffer, s)) = 1
<1>1. /\ Len(buffer) \in Nat
      /\ \A s \in Submissions : Len(Append(buffer, s)) = Len(buffer) + 1
  BY AppendProperties, LenProperties DEF BatcherTypeOK
<1> QED
  BY <1>1, EmptyBuffer, BatcherAssumption DEF SizesBounded

LEMMA AgeCountTrigger ==
  ASSUME BatcherTypeOK, ChannelInv, AgeInv, NEW s \in Submissions, CountTrigger(s)
  PROVE  AgeInv'
<1>1. PICK answer \in Answers : Flush(Append(buffer, s), answer)
  BY DEF CountTrigger
<1>2. Append(buffer, s) \in Seq(Submissions) /\ Append(buffer, s) # <<>>
  BY RangeAppend DEF BatcherTypeOK
<1>3. /\ elapsed' = NULL
      /\ \A b \in BatchIds :
            batches'[b] # NULL => batches'[b].count <= MaxBatchSize \/ batches'[b].count = 1
  BY <1>1, <1>2, BufferWithinBound, FlushSizes DEF AgeInv
<1>4. PICK end \in {"sealed", "failed"} :
        buffer' = <<>> /\ stage' = MarkAll(Append(buffer, s), end)
  BY <1>1, <1>2, FlushEffect
<1>5. waited' = waited
  BY DEF CountTrigger
<1> QED
  BY <1>3, <1>4, <1>5, AgeFlush DEF MarkAll

(* A flush of the whole buffer while the task runs. *)
LEMMA AgeWholeFlush ==
  ASSUME BatcherTypeOK, ChannelInv, AgeInv, NEW answer \in Answers, Flush(buffer, answer),
         task = "running", waited' = waited
  PROVE  AgeInv'
<1>1. /\ elapsed' = NULL
      /\ \A b \in BatchIds :
            batches'[b] # NULL => batches'[b].count <= MaxBatchSize \/ batches'[b].count = 1
  <2>1. CASE buffer = <<>>
    BY <2>1 DEF Flush, storageVars, AgeInv, SizesBounded
  <2>2. CASE buffer # <<>>
    BY <2>2, BufferWithinBound, FlushSizes DEF AgeInv, BatcherTypeOK
  <2> QED
    BY <2>1, <2>2
<1>2. PICK end \in {"sealed", "failed"} : buffer' = <<>> /\ stage' = MarkAll(buffer, end)
  BY FlushEffect DEF BatcherTypeOK
<1> QED
  BY <1>1, <1>2, AgeFlush DEF MarkAll

LEMMA AgeExit ==
  ASSUME BatcherTypeOK, ChannelInv, AgeInv, HandleShutdown \/ HandleDisconnect
  PROVE  AgeInv'
<1>1. task = "running" /\ task' = "exited" /\ waited' = waited
  BY DEF HandleShutdown, HandleDisconnect, Receive, Exit
<1>2. PICK answer \in Answers : FinalFlush(answer)
  BY DEF HandleShutdown, HandleDisconnect
<1>3. PICK end \in {"sealed", "failed", "discarded"} :
        buffer' = <<>> /\ stage' = MarkAll(buffer, end)
  BY <1>2, FinalFlushEffect
<1>4. CASE Flush(buffer, answer)
  BY <1>1, <1>4, AgeWholeFlush
<1>5. CASE ~Flush(buffer, answer)
  <2>1. batches' = batches
    BY <1>2, <1>5 DEF FinalFlush, storageVars
  <2>2. \A b \in BatchIds :
          batches'[b] # NULL => batches'[b].count <= MaxBatchSize \/ batches'[b].count = 1
    BY <2>1 DEF AgeInv, SizesBounded
  <2> QED
    BY <1>1, <1>3, <2>2, AgeFlush DEF MarkAll
<1> QED
  BY <1>4, <1>5

LEMMA AgeSecond ==
  ASSUME BatcherTypeOK, ChannelInv, AgeInv, Second
  PROVE  AgeInv'
<1>1. /\ task = "running" /\ task' = task /\ tickDue = FALSE /\ tickDue' = TRUE
      /\ buffer' = buffer /\ stage' = stage /\ batches' = batches
      /\ elapsed' = IF elapsed = NULL THEN NULL ELSE elapsed + 1
  BY DEF Second, BatcherTypeOK, storageVars
<1>2. \A s \in Submissions : /\ s \notin Range(buffer) => waited'[s] = 0
                             /\ s \in Range(buffer) => waited'[s] \in {waited[s], waited[s] + 1}
  BY DEF Second
<1>3. elapsed # NULL => elapsed \in Nat /\ elapsed + 1 # NULL
  BY BatcherAssumption DEF BatcherTypeOK
<1>4. SizesBounded'
  BY <1>1, <1>3 DEF AgeInv, SizesBounded
<1>5. \A s \in Submissions : stage'[s] \in {"idle", "sending", "queued"} => waited'[s] = 0
  BY <1>1, <1>2 DEF ChannelInv, NothingVanishes
<1>6. ASSUME NEW s \in Range(buffer)
      PROVE  waited'[s] <= elapsed'
  <2>1. s \in Submissions /\ buffer # <<>>
    BY EmptyBuffer, ElementOfSeq DEF Range, BatcherTypeOK
  <2>2. elapsed \in Nat /\ elapsed' = elapsed + 1 /\ waited[s] \in Nat /\ waited[s] <= elapsed
    BY <1>1, <1>3, <2>1 DEF AgeInv, SizesBounded, BatcherTypeOK
  <2> QED
    BY <1>2, <2>1, <2>2
<1>7. ASSUME elapsed' # NULL
      PROVE  elapsed' <= MaxBatchAge + 1
  BY <1>1, <1>3, <1>7, BatcherAssumption DEF AgeInv
<1> QED
  BY <1>1, <1>4, <1>5, <1>6, <1>7 DEF AgeInv

LEMMA AgeIdle ==
  ASSUME BatcherTypeOK, AgeInv, IdleTick
  PROVE  AgeInv'
<1>1. /\ task' = task /\ buffer' = buffer /\ stage' = stage /\ batches' = batches
      /\ elapsed' = elapsed /\ waited' = waited
  BY DEF IdleTick, history, storageVars
<1>2. elapsed # NULL => elapsed <= MaxBatchAge
  BY BatcherAssumption DEF IdleTick, MayBeYoung
<1>3. elapsed # NULL => elapsed <= MaxBatchAge + (IF tickDue' THEN 1 ELSE 0)
  BY <1>2, BatcherAssumption DEF BatcherTypeOK
<1> QED
  BY <1>1, <1>3 DEF AgeInv, SizesBounded

LEMMA AgeLife ==
  ASSUME BatcherTypeOK, ChannelInv, AgeInv, Crash \/ Restart
  PROVE  AgeInv'
<1>1. /\ buffer' = <<>> /\ elapsed' = NULL /\ waited' = waited /\ batches' = batches
  BY DEF Crash, Restart, ChannelInv, KilledEmpty, history, storageVars
<1>2. \A s \in Submissions : stage'[s] \in {"idle", "sending", "queued"} => stage'[s] = stage[s]
  BY DEF Crash, Restart, history, BatcherTypeOK, InMemory
<1> QED
  BY <1>1, <1>2, EmptyBuffer DEF AgeInv, SizesBounded

LEMMA AgeCaller ==
  ASSUME BatcherTypeOK, AgeInv, Caller
  PROVE  AgeInv'
<1>1. UNCHANGED <<buffer, task, elapsed, tickDue, waited, batches>>
  BY DEF Caller, SubmitCall, SubmitSend, SubmitCancel, FlushCall, FlushSend, FlushCancel,
         ShutdownCall, ShutdownSend, DropHandle, taskVars, storageVars, history
<1>2. ASSUME NEW s \in Submissions
      PROVE  stage'[s] \in {"idle", "sending", "queued"}
               => stage[s] \in {"idle", "sending", "queued"}
  BY DEF Caller, SubmitCall, SubmitSend, SubmitCancel, FlushCall, FlushSend, FlushCancel,
         ShutdownCall, ShutdownSend, DropHandle, history, BatcherTypeOK
<1> QED
  BY <1>1, <1>2, AgeFrame

LEMMA AgeStep ==
  ASSUME BatcherTypeOK, ChannelInv, AgeInv, [Next]_vars
  PROVE  AgeInv'
<1>1. CASE AgeTrigger \/ \E f \in FlushCalls : HandleFlush(f)
  <2>1. PICK answer \in Answers : Flush(buffer, answer)
    BY <1>1 DEF AgeTrigger, HandleFlush
  <2>2. task = "running" /\ waited' = waited
    BY <1>1 DEF AgeTrigger, HandleFlush, Receive
  <2> QED
    BY <2>1, <2>2, AgeWholeFlush
<1>2. CASE (\E a \in Attestations : RecordUnbatched(a)) \/ UNCHANGED vars
  <2>1. UNCHANGED <<buffer, task, elapsed, tickDue, waited, batches, stage>>
    BY <1>2 DEF RecordUnbatched, InsertAttestation, vars, taskVars, history, storageVars
  <2> QED
    BY <2>1, AgeFrame
<1> QED
  BY <1>1, <1>2, AgeCaller, AgeBuffer, AgeCountTrigger, AgeExit, AgeSecond, AgeIdle, AgeLife
     DEF Next, HandleCommand, HandleTick

LEMMA AgeAlways == Spec => []AgeInv
<1>1. BatcherTypeOK /\ ChannelInv /\ AgeInv /\ [Next]_vars => AgeInv'
  BY AgeStep
<1> QED
  BY <1>1, AgeInit, BatcherTypes, ChannelAlways, PTL DEF Spec

(* No buffer and no batch outgrows max_batch_size, and an age is kept      *)
(* exactly while there is something to age.                                *)
THEOREM SizesAlwaysBounded == Spec => []SizesBounded
<1>1. AgeInv => SizesBounded
  BY DEF AgeInv
<1> QED
  BY <1>1, AgeAlways, PTL

(* At the poll that finds it max_batch_age_secs old, an attestation leaves *)
(* the buffer: no order of arrivals, flushes and ticks makes it wait more. *)
THEOREM AgesAlwaysBounded == Spec => []AgeBound
<1>1. ASSUME BatcherTypeOK, ChannelInv, AgeInv, NEW s \in Submissions, stage[s] = "buffered"
      PROVE  waited[s] <= MaxBatchAge + (IF tickDue THEN 1 ELSE 0)
  <2>1. s \in Range(buffer) /\ buffer # <<>>
    BY <1>1, EmptyBuffer DEF ChannelInv, NothingVanishes
  <2>2. task = "running"
    BY <1>1, <2>1 DEF ChannelInv, KilledEmpty, NeverClosedUnderACaller, BatcherTypeOK
  <2>3. elapsed \in Nat /\ waited[s] <= elapsed
    BY <1>1, <2>1, <2>2 DEF AgeInv, SizesBounded, BatcherTypeOK
  <2>4. elapsed <= MaxBatchAge + (IF tickDue THEN 1 ELSE 0)
    BY <1>1, <2>2, <2>3, BatcherAssumption DEF AgeInv
  <2> QED
    BY <1>1, <2>3, <2>4, BatcherAssumption DEF BatcherTypeOK
<1>2. BatcherTypeOK /\ ChannelInv /\ AgeInv => AgeBound
  BY <1>1 DEF AgeBound
<1> QED
  BY <1>2, AgeAlways, BatcherTypes, ChannelAlways, PTL

----------------------------------------------------------------------------
(* What is sealed.                                                         *)

(* The proof of a sealed submission was cut for what it carried. *)
SealedLeaves ==
  \A s \in Submissions : stage[s] = "sealed" => Leaf(SubmittedId(s)) = AttestationOf[s]

SealedInv == SealedIffBatched /\ SealedLeaves

(* A batch that commits makes sealers of its members, one for each id: the *)
(* primary keys of its proofs refuse an id that has a sealer already.      *)
LEMMA SealedCommit ==
  ASSUME BatcherTypeOK, StorageConsistent, SealedInv,
         NEW buf \in Seq(Submissions), \A s \in Range(buf) : stage[s] # "sealed",
         NEW b \in BatchIds, CommitBatch(b, Carried(buf)), stage' = MarkAll(buf, "sealed")
  PROVE  SealedInv'
<1>1. /\ Len(buf) \in Nat /\ DOMAIN buf = 1 .. Len(buf)
      /\ \A i \in DOMAIN buf : buf[i] \in Submissions
  BY LenProperties, ElementOfSeq
<1>2. /\ Range(IdsOf(Carried(buf))) = {SubmittedId(s) : s \in Range(buf)}
      /\ DOMAIN Carried(buf) = DOMAIN buf
      /\ DOMAIN IdsOf(Carried(buf)) = DOMAIN buf
      /\ \A n \in DOMAIN buf : /\ IdsOf(Carried(buf))[n] = SubmittedId(buf[n])
                              /\ IdOf[Carried(buf)[n]] = SubmittedId(buf[n])
                              /\ SubmittedId(buf[n]) \in Ids
  BY <1>1, CarriedByBuffer DEF SubmittedId
<1>3. /\ \A i, j \in DOMAIN buf : SubmittedId(buf[i]) = SubmittedId(buf[j]) => i = j
      /\ \A i \in DOMAIN buf : proofs[SubmittedId(buf[i])] = NULL
  BY <1>2 DEF CommitBatch, NoKeyCollision, IsInjective
<1>4. \A s, t \in Range(buf) : SubmittedId(s) = SubmittedId(t) => s = t
  BY <1>3 DEF Range
<1>5. \A s \in Range(buf) : batchOf[SubmittedId(s)] = NULL
  BY <1>2, <1>3 DEF Range, StorageConsistent, ProofsMatchLinks
<1>6. ASSUME NEW i \in Ids
      PROVE  LET sealers == {s \in Submissions : SubmittedId(s) = i /\ stage'[s] = "sealed"} IN
               /\ batchOf'[i] # NULL <=> sealers # {}
               /\ \A s, t \in sealers : s = t
  <2> DEFINE before == {s \in Submissions : SubmittedId(s) = i /\ stage[s] = "sealed"}
  <2> DEFINE after  == {s \in Submissions : SubmittedId(s) = i /\ stage'[s] = "sealed"}
  <2>1. (batchOf[i] # NULL <=> before # {}) /\ \A s, t \in before : s = t
    BY DEF SealedInv, SealedIffBatched
  <2>2. batchOf'[i] = IF i \in Range(IdsOf(Carried(buf))) THEN b ELSE batchOf[i]
    BY DEF CommitBatch
  <2>3. CASE i \in Range(IdsOf(Carried(buf)))
    <3>1. PICK u \in Range(buf) : SubmittedId(u) = i
      BY <1>2, <2>3
    <3>2. before = {}
      BY <1>5, <2>1, <3>1
    <3>3. u \in Submissions
      BY <1>1 DEF Range
    <3>4. u \in after
      BY <3>1, <3>3 DEF MarkAll
    <3>5. \A s \in after : s = u
      BY <1>4, <3>1, <3>2 DEF MarkAll
    <3>6. batchOf'[i] # NULL
      BY <2>2, <2>3, StorageAssumption
    <3> QED
      BY <3>4, <3>5, <3>6
  <2>4. CASE i \notin Range(IdsOf(Carried(buf)))
    <3>1. after = before
      BY <1>2, <2>4 DEF MarkAll
    <3> QED
      BY <2>1, <2>2, <2>4, <3>1
  <2> QED
    BY <2>3, <2>4
<1>7. ASSUME NEW s \in Submissions, stage'[s] = "sealed"
      PROVE  Leaf(SubmittedId(s))' = AttestationOf[s]
  <2>1. CASE s \in Range(buf)
    <3>1. PICK n \in DOMAIN buf : buf[n] = s
      BY <2>1 DEF Range
    <3> DEFINE m == PositionOf(Carried(buf), SubmittedId(s))
    <3>2. SubmittedId(s) \in Range(IdsOf(Carried(buf))) /\ SubmittedId(s) \in Ids
      BY <1>2, <3>1 DEF Range
    <3>3. m \in DOMAIN buf /\ IdOf[Carried(buf)[m]] = SubmittedId(s)
      BY <1>2, <3>2, PositionOfFinds
    <3>4. m = n
      BY <1>2, <1>3, <3>1, <3>3
    <3>5. Carried(buf)[m] = AttestationOf[s]
      BY <3>1, <3>4, CarriedByBuffer
    <3>6. proofs'[SubmittedId(s)].path = [tree |-> Carried(buf), index |-> m]
      BY <3>2 DEF CommitBatch
    <3> HIDE DEF m
    <3> QED
      BY <3>5, <3>6 DEF Leaf, SubmittedId
  <2>2. CASE s \notin Range(buf)
    <3>1. stage[s] = "sealed"
      BY <1>7, <2>2 DEF MarkAll
    <3>2. SubmittedId(s) \in Ids
      BY StorageAssumption, BatcherAssumption DEF SubmittedId
    <3>3. batchOf[SubmittedId(s)] # NULL
      BY <3>1, <3>2 DEF SealedInv, SealedIffBatched
    <3>4. SubmittedId(s) \notin Range(IdsOf(Carried(buf)))
      BY <1>2, <1>5, <3>3
    <3>5. proofs'[SubmittedId(s)] = proofs[SubmittedId(s)]
      BY <3>2, <3>4 DEF CommitBatch
    <3> QED
      BY <3>1, <3>5 DEF SealedInv, SealedLeaves, Leaf, SubmittedId
  <2> QED
    BY <2>1, <2>2
<1>8. SealedIffBatched'
  BY <1>6 DEF SealedIffBatched, SubmittedId
<1> QED
  BY <1>7, <1>8 DEF SealedInv, SealedLeaves, SubmittedId

(* Steps that seal nothing and link nothing. *)
LEMMA SealedFrame ==
  ASSUME SealedInv, batchOf' = batchOf, proofs' = proofs,
         \A s \in Submissions : stage'[s] = "sealed" <=> stage[s] = "sealed"
  PROVE  SealedInv'
<1>1. ASSUME NEW i \in Ids
      PROVE  {s \in Submissions : SubmittedId(s) = i /\ stage'[s] = "sealed"}
               = {s \in Submissions : SubmittedId(s) = i /\ stage[s] = "sealed"}
  OBVIOUS
<1>2. SealedIffBatched'
  BY <1>1 DEF SealedInv, SealedIffBatched, SubmittedId
<1>3. SealedLeaves'
  BY DEF SealedInv, SealedLeaves, Leaf, SubmittedId
<1> QED
  BY <1>2, <1>3 DEF SealedInv

LEMMA SealedFlush ==
  ASSUME BatcherTypeOK, StorageConsistent, SealedInv,
         NEW buf \in Seq(Submissions), \A s \in Range(buf) : stage[s] # "sealed",
         NEW answer \in Answers, Flush(buf, answer)
  PROVE  SealedInv'
<1>1. CASE buf = <<>>
  BY <1>1, SealedFrame DEF Flush, storageVars
<1>2. CASE buf # <<>>
  <2>1. PICK b \in BatchIds :
          \/ CommitBatch(b, Carried(buf)) /\ stage' = MarkAll(buf, "sealed")
          \/ RollbackBatch(b, Carried(buf)) /\ stage' = MarkAll(buf, "failed")
    BY <1>2 DEF Flush
  <2>2. CASE CommitBatch(b, Carried(buf)) /\ stage' = MarkAll(buf, "sealed")
    BY <2>2, SealedCommit
  <2>3. CASE RollbackBatch(b, Carried(buf)) /\ stage' = MarkAll(buf, "failed")
    BY <2>3, SealedFrame DEF RollbackBatch, storageVars, MarkAll
  <2> QED
    BY <2>1, <2>2, <2>3
<1> QED
  BY <1>1, <1>2

LEMMA SealedStep ==
  ASSUME BatcherTypeOK, ChannelInv, StorageConsistent, SealedInv, [Next]_vars
  PROVE  SealedInv'
<1>1. \A s \in Range(buffer) : s \in Submissions /\ stage[s] = "buffered"
  BY ElementOfSeq DEF Range, BatcherTypeOK, ChannelInv, NothingVanishes
<1>2. ASSUME NEW s \in Submissions, CountTrigger(s)
      PROVE  SealedInv'
  <2>1. s \in Range(channel)
    BY <1>2, ReceiveEffect DEF CountTrigger, BatcherTypeOK, ChannelInv, NothingVanishes
  <2>2. /\ Append(buffer, s) \in Seq(Submissions)
        /\ \A t \in Range(Append(buffer, s)) : stage[t] # "sealed"
    BY <1>1, <2>1, RangeAppend DEF BatcherTypeOK, ChannelInv, NothingVanishes
  <2> QED
    BY <1>2, <2>2, SealedFlush DEF CountTrigger
<1>3. ASSUME NEW answer \in Answers, Flush(buffer, answer)
      PROVE  SealedInv'
  BY <1>1, <1>3, SealedFlush DEF BatcherTypeOK
<1>4. CASE AgeTrigger \/ \E f \in FlushCalls : HandleFlush(f)
  BY <1>3, <1>4 DEF AgeTrigger, HandleFlush
<1>5. CASE HandleShutdown \/ HandleDisconnect
  <2>1. PICK answer \in Answers : FinalFlush(answer)
    BY <1>5 DEF HandleShutdown, HandleDisconnect
  <2>2. CASE ~Flush(buffer, answer)
    BY <1>1, <2>1, <2>2, SealedFrame DEF FinalFlush, storageVars, MarkAll
  <2> QED
    BY <1>3, <2>2
<1>6. CASE Caller
  <2>1. batchOf' = batchOf /\ proofs' = proofs
    BY <1>6 DEF Caller, SubmitCall, SubmitSend, SubmitCancel, FlushCall, FlushSend, FlushCancel,
                ShutdownCall, ShutdownSend, DropHandle, storageVars
  <2>2. ASSUME NEW s \in Submissions
        PROVE  stage'[s] = "sealed" <=> stage[s] = "sealed"
    BY <1>6 DEF Caller, SubmitCall, SubmitSend, SubmitCancel, FlushCall, FlushSend, FlushCancel,
                ShutdownCall, ShutdownSend, DropHandle, history, BatcherTypeOK
  <2> QED
    BY <2>1, <2>2, SealedFrame
<1>7. ASSUME NEW s \in Submissions, BufferSubmission(s)
      PROVE  SealedInv'
  <2>1. stage[s] = "queued"
    BY <1>7, ReceiveEffect DEF BufferSubmission, BatcherTypeOK, ChannelInv, NothingVanishes
  <2> QED
    BY <1>7, <2>1, SealedFrame DEF BufferSubmission, storageVars, BatcherTypeOK
<1>8. CASE IdleTick \/ Second \/ Restart \/ (\E a \in Attestations : RecordUnbatched(a)) \/ UNCHANGED vars
  BY <1>8, SealedFrame DEF IdleTick, Second, Restart, RecordUnbatched, InsertAttestation, storageVars,
                           history, vars
<1>9. CASE Crash
  BY <1>9, SealedFrame DEF Crash, storageVars, InMemory
<1> QED
  BY <1>2, <1>4, <1>5, <1>6, <1>7, <1>8, <1>9 DEF Next, HandleCommand, HandleTick

LEMMA SealedAlways == Spec => []SealedInv
<1>1. Init => SealedInv
  BY DEF Init, StorageInit, SealedInv, SealedIffBatched, SealedLeaves
<1>2. BatcherTypeOK /\ ChannelInv /\ StorageConsistent /\ SealedInv /\ [Next]_vars => SealedInv'
  BY SealedStep
<1> QED
  BY <1>1, <1>2, BatcherTypes, ChannelAlways, BatchesNeverPartial, PTL DEF Spec

(* Sealed means linked, and nothing is sealed twice: after any crashes and *)
(* duplicates the linked rows are the ids of the sealed submissions, one   *)
(* submission each.                                                        *)
THEOREM SealedMeansBatched == Spec => []SealedIffBatched
<1>1. SealedInv => SealedIffBatched
  BY DEF SealedInv
<1> QED
  BY <1>1, SealedAlways, PTL

(* What an audit says of a sealed submission: "true" exactly where it is   *)
(* genuine and the row of its id is its own.  The proof is of what was     *)
(* submitted, whatever the row says, and INSERT OR IGNORE keeps the row.   *)
THEOREM AuditsRight == Spec => []AuditsAgree
<1>1. ASSUME BatcherTypeOK, StorageConsistent, SealedInv
      PROVE  AuditsAgree
  <2>1. ASSUME NEW s \in Submissions, stage[s] = "sealed"
        PROVE  VerifyAttestationInclusion(IdOf[AttestationOf[s]]) =
                 IF AttestationOf[s] \in Genuine /\ rows[IdOf[AttestationOf[s]]] = AttestationOf[s]
                 THEN "true" ELSE "false"
    <3> DEFINE i == SubmittedId(s)
    <3>1. i \in Ids
      BY StorageAssumption, BatcherAssumption DEF SubmittedId
    <3>2. batchOf[i] # NULL
      BY <1>1, <2>1, <3>1 DEF SealedInv, SealedIffBatched
    <3>3. Leaf(i) = AttestationOf[s]
      BY <1>1, <2>1 DEF SealedInv, SealedLeaves
    <3>4. VerifyAttestationInclusion(i) =
            IF rows[i] \in Genuine /\ rows[i] = Leaf(i) THEN "true" ELSE "false"
      BY <1>1, <3>1, <3>2, ConsistentAudits DEF BatcherTypeOK
    <3>5. i = IdOf[AttestationOf[s]]
      BY DEF SubmittedId
    <3> HIDE DEF i
    <3> QED
      BY <3>3, <3>4, <3>5
  <2>2. ASSUME NEW i \in Ids, \A s \in Submissions : SubmittedId(s) = i => stage[s] # "sealed"
        PROVE  VerifyAttestationInclusion(i)
                 \in {"AttestationNotFound", "AttestationNotBatched", "false"}
    <3>1. batchOf[i] = NULL
      BY <1>1, <2>2 DEF SealedInv, SealedIffBatched
    <3> QED
      BY <1>1, <3>1, ConsistentAudits DEF BatcherTypeOK
  <2> QED
    BY <2>1, <2>2 DEF AuditsAgree
<1> QED
  BY <1>1, BatcherTypes, BatchesNeverPartial, SealedAlways, PTL

----------------------------------------------------------------------------
(* The barrier.                                                            *)

(* What happens to the channel keeps the order of what stays in it. *)
LEMMA SendKeepsOrder ==
  ASSUME channel \in Seq(Commands), NEW cmd \in Commands, Send(cmd),
         NEW s, NEW f, Before(s, f)
  PROVE  Before(s, f)'
<1>1. /\ Len(channel') = Len(channel) + 1
      /\ \A i \in 1 .. Len(channel) : channel'[i] = channel[i]
      /\ Len(channel) \in Nat
      /\ DOMAIN channel = 1 .. Len(channel)
      /\ DOMAIN channel' = 1 .. Len(channel')
  BY AppendProperties, LenProperties DEF Send
<1>2. PICK i, j \in DOMAIN channel : i < j /\ channel[i] = s /\ channel[j] = f
  BY DEF Before
<1>3. i \in DOMAIN channel' /\ j \in DOMAIN channel' /\ channel'[i] = s /\ channel'[j] = f
  BY <1>1, <1>2
<1> QED
  BY <1>2, <1>3 DEF Before

LEMMA ReceiveKeepsOrder ==
  ASSUME channel \in Seq(Commands), NEW cmd, Receive(cmd), NEW s, NEW f, s # cmd, Before(s, f)
  PROVE  Before(s, f)'
<1>1. /\ channel # <<>> /\ channel[1] = cmd /\ channel' = Tail(channel)
  BY EmptySeq, HeadTailProperties DEF Receive
<1>2. /\ Len(channel') = Len(channel) - 1
      /\ \A i \in 1 .. Len(channel') : channel'[i] = channel[i + 1]
      /\ Len(channel) \in Nat
      /\ DOMAIN channel = 1 .. Len(channel)
      /\ DOMAIN channel' = 1 .. Len(channel')
  BY <1>1, HeadTailProperties, LenProperties
<1>3. PICK i, j \in DOMAIN channel : i < j /\ channel[i] = s /\ channel[j] = f
  BY DEF Before
<1>4. i # 1 /\ i \in Nat /\ j \in Nat
  BY <1>1, <1>2, <1>3
<1>5. /\ i - 1 \in DOMAIN channel' /\ j - 1 \in DOMAIN channel'
      /\ channel'[i - 1] = s /\ channel'[j - 1] = f /\ i - 1 < j - 1
  BY <1>2, <1>3, <1>4
<1> QED
  BY <1>5 DEF Before

(* A flush_now that enters the channel enters it behind all the others. *)
LEMMA SendComesLast ==
  ASSUME channel \in Seq(Commands), NEW f \in Commands, Send(f), NEW s \in Range(channel)
  PROVE  Before(s, f)'
<1>1. /\ Len(channel') = Len(channel) + 1
      /\ \A i \in 1 .. Len(channel) : channel'[i] = channel[i]
      /\ channel'[Len(channel) + 1] = f
      /\ Len(channel) \in Nat
      /\ DOMAIN channel = 1 .. Len(channel)
      /\ DOMAIN channel' = 1 .. Len(channel')
  BY AppendProperties, LenProperties DEF Send
<1>2. PICK i \in DOMAIN channel : channel[i] = s
  BY DEF Range
<1>3. /\ i \in DOMAIN channel' /\ Len(channel) + 1 \in DOMAIN channel'
      /\ i < Len(channel) + 1 /\ channel'[i] = s
  BY <1>1, <1>2
<1> QED
  BY <1>1, <1>3 DEF Before

(* The one the task receives has nothing before it. *)
LEMMA ReceivedIsFirst ==
  ASSUME channel \in Seq(Commands), IsInjective(channel), NEW f, Receive(f), NEW s
  PROVE  ~Before(s, f)
<1>1. channel # <<>> /\ channel[1] = f
  BY EmptySeq, HeadTailProperties DEF Receive
<1>2. Len(channel) \in Nat /\ DOMAIN channel = 1 .. Len(channel)
  BY LenProperties
<1>3. ASSUME NEW i \in DOMAIN channel, NEW j \in DOMAIN channel, channel[j] = f
      PROVE  ~(i < j)
  <2>1. 1 \in DOMAIN channel
    BY <1>2, <1>3
  <2>2. j = 1
    BY <1>1, <1>3, <2>1 DEF IsInjective
  <2> QED
    BY <1>2, <1>3, <2>2
<1> QED
  BY <1>3 DEF Before

(* An accepted submission is never again on its way in, and a settled one  *)
(* never again in memory.                                                  *)
LEMMA FatesAreFinal ==
  ASSUME BatcherTypeOK, ChannelInv, [Next]_vars, NEW s \in Submissions
  PROVE  /\ Accepted(s) => Accepted(s)'
         /\ Gone(s) => Gone(s)'
         /\ Accepted(s) /\ stage'[s] = "queued" => stage[s] = "queued"
<1> DEFINE Final == /\ Accepted(s) => Accepted(s)'
                    /\ Gone(s) => Gone(s)'
                    /\ Accepted(s) /\ stage'[s] = "queued" => stage[s] = "queued"
<1>1. \A t \in Range(buffer) : t \in Submissions /\ stage[t] = "buffered"
  BY ElementOfSeq DEF Range, BatcherTypeOK, ChannelInv, NothingVanishes
<1>2. ASSUME NEW S, \A t \in S : t \in Submissions => stage[t] \in InMemory,
             NEW end \in {"sealed", "failed", "discarded"},
             stage'[s] = IF s \in S THEN end ELSE stage[s]
      PROVE  Final
  BY <1>2 DEF Accepted, Gone, InMemory
<1>3. CASE Caller
  BY <1>3 DEF Caller, SubmitCall, SubmitSend, SubmitCancel, FlushCall, FlushSend, FlushCancel,
              ShutdownCall, ShutdownSend, DropHandle, history, BatcherTypeOK, Accepted, Gone, InMemory
<1>4. ASSUME NEW u \in Submissions, BufferSubmission(u) \/ CountTrigger(u)
      PROVE  Final
  <2>1. stage[u] = "queued"
    BY <1>4, ReceiveEffect DEF BufferSubmission, CountTrigger, BatcherTypeOK, ChannelInv, NothingVanishes
  <2>2. CASE BufferSubmission(u)
    BY <2>1, <2>2 DEF BufferSubmission, BatcherTypeOK, Accepted, Gone, InMemory
  <2>3. CASE CountTrigger(u)
    <3>1. Append(buffer, u) \in Seq(Submissions) /\ Range(Append(buffer, u)) = Range(buffer) \cup {u}
      BY RangeAppend DEF BatcherTypeOK
    <3>2. PICK end \in {"sealed", "failed"} : stage' = MarkAll(Append(buffer, u), end)
      BY <2>3, <3>1, FlushEffect DEF CountTrigger
    <3>3. \A t \in Range(Append(buffer, u)) : stage[t] \in InMemory
      BY <1>1, <2>1, <3>1 DEF InMemory
    <3> QED
      BY <1>2, <3>2, <3>3 DEF MarkAll
  <2> QED
    BY <1>4, <2>2, <2>3
<1>5. ASSUME NEW end \in {"sealed", "failed", "discarded"}, stage' = MarkAll(buffer, end)
      PROVE  Final
  BY <1>1, <1>2, <1>5 DEF MarkAll, InMemory
<1>6. CASE AgeTrigger \/ \E f \in FlushCalls : HandleFlush(f)
  BY <1>5, <1>6, FlushEffect DEF AgeTrigger, HandleFlush, BatcherTypeOK
<1>7. CASE HandleShutdown \/ HandleDisconnect
  BY <1>5, <1>7, FinalFlushEffect DEF HandleShutdown, HandleDisconnect
<1>8. CASE Crash
  BY <1>8 DEF Crash, Accepted, Gone, InMemory
<1>9. CASE IdleTick \/ Second \/ Restart \/ (\E a \in Attestations : RecordUnbatched(a)) \/ UNCHANGED vars
  BY <1>9 DEF IdleTick, Second, Restart, RecordUnbatched, history, vars, Accepted, Gone
<1> QED
  BY <1>3, <1>4, <1>6, <1>7, <1>8, <1>9 DEF Next, HandleCommand, HandleTick

(* All that can happen to the channel. *)
LEMMA ChannelMoves ==
  ASSUME BatcherTypeOK, ChannelInv, [Next]_vars
  PROVE  \/ channel' = channel
         \/ channel' = <<>>
         \/ \E cmd \in Commands : Send(cmd) \/ Receive(cmd)
<1>1. CASE Caller
  BY <1>1 DEF Caller, SubmitCall, SubmitSend, SubmitCancel, FlushCall, FlushSend, FlushCancel,
              ShutdownCall, ShutdownSend, DropHandle, Commands
<1>2. CASE HandleCommand
  BY <1>2 DEF HandleCommand, BufferSubmission, CountTrigger, HandleFlush, HandleShutdown,
              HandleDisconnect, Commands
<1>3. CASE HandleTick \/ Second \/ Crash \/ Restart \/ (\E a \in Attestations : RecordUnbatched(a))
           \/ UNCHANGED vars
  BY <1>3 DEF HandleTick, AgeTrigger, IdleTick, Second, Crash, Restart, RecordUnbatched, vars
<1> QED
  BY <1>1, <1>2, <1>3 DEF Next

(* All that can happen to one flush_now. *)
LEMMA ReplyMoves ==
  ASSUME BatcherTypeOK, [Next]_vars, NEW f \in FlushCalls
  PROVE  \/ FlushCall(f) \/ FlushSend(f) \/ HandleFlush(f)
         \/ ahead'[f] = ahead[f] /\ reply'[f] \in {reply[f], Calling("cancelled")}
<1>1. CASE Caller
  BY <1>1 DEF Caller, SubmitCall, SubmitSend, SubmitCancel, FlushCall, FlushSend, FlushCancel,
              ShutdownCall, ShutdownSend, DropHandle, callVars, history, BatcherTypeOK
<1>2. CASE HandleCommand
  BY <1>2 DEF HandleCommand, BufferSubmission, CountTrigger, HandleFlush, Respond, HandleShutdown,
              HandleDisconnect, callVars, BatcherTypeOK
<1>3. CASE HandleTick \/ Second \/ Crash \/ Restart \/ (\E a \in Attestations : RecordUnbatched(a))
           \/ UNCHANGED vars
  BY <1>3 DEF HandleTick, AgeTrigger, IdleTick, Second, Crash, Restart, RecordUnbatched, callVars,
              history, vars
<1> QED
  BY <1>1, <1>2, <1>3 DEF Next

(* What is ahead of a waiting flush_now stays ahead of it. *)
LEMMA OrderKept ==
  ASSUME BatcherTypeOK, ChannelInv, ChannelInv', [Next]_vars,
         NEW f \in FlushCalls, reply'[f] = Calling("waiting"),
         NEW s \in Submissions, stage'[s] = "queued", Before(s, f)
  PROVE  Before(s, f)'
<1>1. s \in Range(channel')
  BY DEF ChannelInv, NothingVanishes
<1>2. CASE channel' = channel
  BY <1>2 DEF Before
<1>3. CASE channel' = <<>>
  BY <1>1, <1>3, EmptyBuffer
<1>4. ASSUME NEW cmd \in Commands, Send(cmd)
      PROVE  Before(s, f)'
  BY <1>4, SendKeepsOrder DEF BatcherTypeOK
<1>5. ASSUME NEW cmd \in Commands, Receive(cmd)
      PROVE  Before(s, f)'
  <2>1. s # cmd
    BY <1>1, <1>5, ReceiveEffect DEF BatcherTypeOK, ChannelInv, NothingVanishes
  <2> QED
    BY <1>5, <2>1, ReceiveKeepsOrder DEF BatcherTypeOK
<1> QED
  BY <1>2, <1>3, <1>4, <1>5, ChannelMoves

(* A flush_now that is answered finds nothing before it in the channel,    *)
(* and the flush takes what is in the buffer.                              *)
LEMMA BarrierAnswer ==
  ASSUME BatcherTypeOK, ChannelInv, NEW f \in FlushCalls, BarrierFor(f), HandleFlush(f)
  PROVE  BarrierFor(f)'
<1>1. ahead' = ahead /\ Receive(f)
  BY DEF HandleFlush
<1>2. PICK answer \in Answers : Flush(buffer, answer) /\ Respond(f, answer)
  BY DEF HandleFlush
<1>3. /\ f \in Range(channel)
      /\ \A s \in Submissions : ~Before(s, f)
  BY <1>1, ReceiveEffect, ReceivedIsFirst DEF BatcherTypeOK, ChannelInv, NothingVanishes
<1>4. ahead[f] \subseteq Submissions
  BY DEF BatcherTypeOK
<1>5. \A s \in ahead[f] : Accepted(s)'
  BY <1>1, <1>4, FatesAreFinal DEF BarrierFor, Next, HandleCommand
<1>6. CASE reply[f] = Calling("waiting")
  <2>1. reply'[f] = answer /\ answer # Calling("waiting")
    BY <1>2, <1>6, CallsDiffer DEF Respond, BatcherTypeOK
  <2>2. ASSUME NEW s \in ahead[f]
        PROVE  Gone(s)'
    <3>1. Accepted(s) /\ stage[s] # "queued"
      BY <1>3, <1>4, <1>6 DEF BarrierFor
    <3>2. CASE Gone(s)
      BY <1>4, <3>2, FatesAreFinal DEF Next, HandleCommand
    <3>3. CASE stage[s] = "buffered"
      <4>1. s \in Range(buffer)
        BY <1>4, <3>3 DEF ChannelInv, NothingVanishes
      <4>2. PICK end \in {"sealed", "failed"} : stage' = MarkAll(buffer, end)
        BY <1>2, FlushEffect DEF BatcherTypeOK
      <4> QED
        BY <1>4, <4>1, <4>2 DEF MarkAll, Gone, Accepted, InMemory
    <3> QED
      BY <1>4, <3>1, <3>2, <3>3 DEF Gone, InMemory
  <2>3. ASSUME NEW b \in BatchIds, answer = Sealed(b)
        PROVE  batches'[b] # NULL
    <3>1. buffer # <<>> /\ CommitBatch(b, Carried(buffer))
      BY <1>2, <2>3 DEF Flush, Sealed, NoBatch, StorageError
    <3>2. /\ batches'[b] = [root |-> Carried(buffer), count |-> Len(Carried(buffer))]
          /\ Carried(buffer) \in Seq(Attestations)
          /\ Len(Carried(buffer)) \in Nat
      BY <3>1, CarriedByBuffer, LenProperties DEF CommitBatch, BatcherTypeOK, StorageTypeOK
    <3>3. batches'[b] \in BatchRow
      BY <3>2 DEF BatchRow
    <3> QED
      BY <3>3, StorageAssumption
  <2> QED
    BY <1>1, <1>5, <2>1, <2>2, <2>3 DEF BarrierFor
<1>7. CASE reply[f] = Calling("cancelled")
  <2>1. reply'[f] = Calling("cancelled")
    BY <1>2, <1>7, CallsDiffer DEF Respond
  <2>2. /\ ~IsAnswer(reply'[f]) /\ reply'[f] # Calling("waiting")
        /\ \A b \in BatchIds : reply'[f] # Sealed(b)
    BY <2>1, CallsDiffer DEF IsAnswer, Answers
  <2> QED
    BY <1>1, <1>5, <2>2 DEF BarrierFor
<1> QED
  BY <1>3, <1>6, <1>7 DEF ChannelInv, FlushesQueued

LEMMA BarrierStep ==
  ASSUME BatcherTypeOK, StorageConsistent, ChannelInv, ChannelInv', BarrierInv, [Next]_vars
  PROVE  BarrierInv'
<1> SUFFICES ASSUME NEW f \in FlushCalls
             PROVE  BarrierFor(f)'
  BY DEF BarrierInv
<1>1. BarrierFor(f) /\ ahead[f] \subseteq Submissions
  BY DEF BarrierInv, BatcherTypeOK
<1>2. CASE FlushCall(f)
  <2>1. /\ reply'[f] = Calling("sending") /\ stage' = stage
        /\ ahead'[f] = {s \in Submissions : stage[s] \in InMemory}
    BY <1>2 DEF FlushCall, BatcherTypeOK
  <2>2. \A s \in ahead'[f] : Accepted(s)'
    BY <2>1 DEF Accepted, InMemory
  <2>3. /\ ~IsAnswer(reply'[f]) /\ reply'[f] # Calling("waiting")
        /\ \A b \in BatchIds : reply'[f] # Sealed(b)
    BY <2>1, CallsDiffer DEF IsAnswer, Answers
  <2> QED
    BY <2>2, <2>3 DEF BarrierFor
<1>3. CASE FlushSend(f)
  <2>1. reply'[f] = Calling("waiting") /\ stage' = stage /\ ahead' = ahead /\ Send(f)
    BY <1>3 DEF FlushSend, history, BatcherTypeOK
  <2>2. \A s \in ahead[f] : stage[s] = "queued" => Before(s, f)'
    BY <1>1, <2>1, SendComesLast DEF ChannelInv, NothingVanishes, BatcherTypeOK, Commands
  <2>3. ~IsAnswer(reply'[f]) /\ \A b \in BatchIds : reply'[f] # Sealed(b)
    BY <2>1, CallsDiffer DEF IsAnswer, Answers
  <2> QED
    BY <1>1, <2>1, <2>2, <2>3 DEF BarrierFor, Accepted
<1>4. CASE ahead'[f] = ahead[f] /\ reply'[f] \in {reply[f], Calling("cancelled")}
  <2>1. /\ \A s \in ahead[f] : Accepted(s)'
        /\ \A s \in ahead[f] : Gone(s) => Gone(s)'
        /\ \A s \in ahead[f] : stage'[s] = "queued" => stage[s] = "queued"
    BY <1>1, FatesAreFinal DEF BarrierFor
  <2>2. ASSUME reply'[f] = Calling("waiting"), NEW s \in ahead[f], stage'[s] = "queued"
        PROVE  Before(s, f)'
    <3>1. reply[f] = Calling("waiting") /\ stage[s] = "queued" /\ s \in Submissions
      BY <1>1, <1>4, <2>1, <2>2, CallsDiffer
    <3> QED
      BY <1>1, <2>2, <3>1, OrderKept DEF BarrierFor
  <2>3. IsAnswer(reply'[f]) => reply[f] = reply'[f]
    BY <1>4, CallsDiffer DEF IsAnswer
  <2>4. ASSUME NEW b \in BatchIds, reply'[f] = Sealed(b)
        PROVE  batches'[b] # NULL
    <3>1. reply[f] = Sealed(b)
      BY <2>3, <2>4 DEF IsAnswer, Answers
    <3> QED
      BY <1>1, <3>1, NextStorageStep, SealedForeverStep DEF BarrierFor, BatcherTypeOK
  <2> QED
    BY <1>1, <1>4, <2>1, <2>2, <2>3, <2>4 DEF BarrierFor
<1> QED
  BY <1>1, <1>2, <1>3, <1>4, ReplyMoves, BarrierAnswer

(* flush_now is a barrier for any number of callers and any interleaving:  *)
(* the commands ahead of it leave the channel first, and its flush takes   *)
(* what they left in the buffer.                                           *)
THEOREM FlushIsABarrier == Spec => []FlushBarrier
<1>1. Init => BarrierInv
  <2> SUFFICES ASSUME Init, NEW f \in FlushCalls
               PROVE  BarrierFor(f)
    BY DEF BarrierInv
  <2>1. ahead[f] = {} /\ reply[f] = Calling("idle")
    BY DEF Init
  <2> QED
    BY <2>1, CallsDiffer DEF BarrierFor, IsAnswer, Answers
<1>2. BatcherTypeOK /\ StorageConsistent /\ ChannelInv /\ ChannelInv' /\ BarrierInv /\ [Next]_vars
        => BarrierInv'
  BY BarrierStep
<1>3. BarrierInv => FlushBarrier
  BY DEF BarrierInv, BarrierFor, FlushBarrier, Gone
<1> QED
  BY <1>1, <1>2, <1>3, BatcherTypes, ChannelAlways, BatchesNeverPartial, PTL DEF Spec

----------------------------------------------------------------------------
(* The refinement of SealedLog.                                            *)

(* Steps the abstract log does not see. *)
LEMMA Invisible ==
  ASSUME batchOf' = batchOf,
         \A s \in Submissions :
            \/ stage'[s] = stage[s]
            \/ stage[s] \in InMemory /\ stage'[s] \in InMemory
            \/ stage[s] \in {"idle", "sending"} /\ stage'[s] \in {"sending", "cancelled"}
  PROVE  UNCHANGED Log!logVars
<1>1. Pending' = Pending /\ SealedCalls' = SealedCalls /\ Lost' = Lost
  BY DEF Pending, SealedCalls, Lost, InMemory
<1>2. Contents' = Contents
  BY DEF Contents
<1> QED
  BY <1>1, <1>2 DEF Log!logVars

(* Submissions in memory that come to a bad end together. *)
LEMMA LosesTogether ==
  ASSUME batchOf' = batchOf, NEW S \in SUBSET Submissions,
         \A s \in S : stage[s] \in InMemory /\ stage'[s] \in {"failed", "discarded", "crashed"},
         \A s \in Submissions \ S : \/ stage'[s] = stage[s]
                                    \/ stage'[s] = "cancelled" /\ stage[s] = "sending"
  PROVE  Log!Lose(S)
<1>1. Pending' = Pending \ S /\ SealedCalls' = SealedCalls /\ Lost' = Lost \cup S /\ S \subseteq Pending
  BY DEF Pending, SealedCalls, Lost, InMemory
<1>2. Contents' = Contents
  BY DEF Contents
<1> QED
  BY <1>1, <1>2 DEF Log!Lose

(* A buffer holds no more submissions than it is long. *)
LEMMA BufferCardinality ==
  ASSUME NEW buf \in Seq(Submissions)
  PROVE  /\ Cardinality(Range(buf)) <= Len(buf)
         /\ Len(buf) = 1 => Cardinality(Range(buf)) = 1
<1>1. /\ Len(buf) \in Nat /\ DOMAIN buf = 1 .. Len(buf)
      /\ buf \in [1 .. Len(buf) -> Submissions]
  BY LenProperties
<1>2. buf \in Surjection(1 .. Len(buf), Range(buf))
  BY <1>1 DEF Surjection, Range
<1>3. ExistsSurjection(1 .. Len(buf), Range(buf))
  BY <1>2 DEF ExistsSurjection
<1>4. Cardinality(Range(buf)) <= Len(buf)
  BY <1>1, <1>3, FS_SurjCardinalityBound
<1>5. Len(buf) = 1 => Range(buf) = {buf[1]}
  BY <1>1 DEF Range
<1> QED
  BY <1>4, <1>5, FS_Singleton

(* A batch that commits seals exactly the submissions that were buffered.  *)
LEMMA CommitSeals ==
  ASSUME BatcherTypeOK, StorageConsistent,
         NEW buf \in Seq(Submissions), buf # <<>>, \A s \in Range(buf) : stage[s] \in InMemory,
         Len(buf) <= MaxBatchSize \/ Len(buf) = 1,
         NEW b \in BatchIds, CommitBatch(b, Carried(buf)), stage' = MarkAll(buf, "sealed")
  PROVE  \E S \in SUBSET Submissions : Log!Seal(S, b)
<1> DEFINE S == Range(buf)
<1>1. /\ Len(buf) \in Nat /\ DOMAIN buf = 1 .. Len(buf)
      /\ \A i \in DOMAIN buf : buf[i] \in Submissions
      /\ S \subseteq Submissions
  BY LenProperties, ElementOfSeq DEF Range
<1>2. /\ Range(IdsOf(Carried(buf))) = {SubmittedId(s) : s \in S}
      /\ DOMAIN Carried(buf) = DOMAIN buf
      /\ DOMAIN IdsOf(Carried(buf)) = DOMAIN buf
      /\ \A n \in DOMAIN buf : /\ IdsOf(Carried(buf))[n] = SubmittedId(buf[n])
                              /\ IdOf[Carried(buf)[n]] = SubmittedId(buf[n])
                              /\ SubmittedId(buf[n]) \in Ids
  BY <1>1, CarriedByBuffer DEF SubmittedId
<1>3. S # {}
  <2>1. Len(buf) # 0
    BY EmptySeq
  <2>2. buf[1] \in S
    BY <1>1, <2>1 DEF Range
  <2> QED
    BY <2>2
<1>4. Cardinality(S) <= MaxBatchSize \/ Cardinality(S) = 1
  <2>1. Cardinality(S) \in Nat
    <3>1. IsFiniteSet(S)
      <4>1. buf \in Surjection(1 .. Len(buf), S) /\ IsFiniteSet(1 .. Len(buf))
        BY <1>1, FS_Interval DEF Surjection, Range
      <4> QED
        BY <4>1, FS_Surjection
    <3> QED
      BY <3>1, FS_CardinalityType
  <2> QED
    BY <1>1, <2>1, BufferCardinality, BatcherAssumption
<1>5. /\ \A i, j \in DOMAIN buf : SubmittedId(buf[i]) = SubmittedId(buf[j]) => i = j
      /\ \A i \in DOMAIN buf : proofs[SubmittedId(buf[i])] = NULL
      /\ batches[b] = NULL
  BY <1>2 DEF CommitBatch, NoKeyCollision, IsInjective
<1>6. \A s, t \in S : SubmittedId(s) = SubmittedId(t) => s = t
  BY <1>5 DEF Range
<1>7. \A s \in S : SubmittedId(s) \in Ids /\ batchOf[SubmittedId(s)] = NULL
  BY <1>2, <1>5 DEF Range, StorageConsistent, ProofsMatchLinks
<1>8. {SubmittedId(s) : s \in S} \cap Log!Batched = {}
  BY <1>7, StorageAssumption DEF Log!Batched, Contents
<1>9. Contents[b] = {}
  BY <1>5, StorageAssumption DEF Contents, StorageConsistent, ProofsMatchLinks
<1>10. Contents' = [Contents EXCEPT ![b] = {SubmittedId(s) : s \in S}]
  <2>1. ASSUME NEW c \in BatchIds
        PROVE  {a \in Ids : batchOf'[a] = c}
                 = IF c = b THEN {SubmittedId(s) : s \in S} ELSE {a \in Ids : batchOf[a] = c}
    <3>1. \A a \in Ids :
            batchOf'[a] = IF a \in {SubmittedId(s) : s \in S} THEN b ELSE batchOf[a]
      BY <1>2 DEF CommitBatch
    <3>2. {a \in Ids : batchOf[a] = b} = {}
      BY <1>9 DEF Contents
    <3>3. \A a \in {SubmittedId(s) : s \in S} : a \in Ids /\ batchOf[a] = NULL
      BY <1>7
    <3> QED
      BY <3>1, <3>2, <3>3, StorageAssumption
  <2> QED
    BY <2>1 DEF Contents
<1>11. /\ Pending' = Pending \ S /\ SealedCalls' = SealedCalls \cup S /\ Lost' = Lost
       /\ S \subseteq Pending
  <2>1. \A s \in Submissions : stage'[s] = IF s \in S THEN "sealed" ELSE stage[s]
    BY DEF MarkAll
  <2>2. \A s \in S : s \in Submissions /\ stage[s] \in InMemory
    BY <1>1
  <2> HIDE DEF S
  <2> QED
    BY <2>1, <2>2 DEF Pending, SealedCalls, Lost, InMemory
<1>12. Log!Cardinality(S) = Cardinality(S)
  BY DEF Cardinality, Log!Cardinality, IsFiniteSet, Log!IsFiniteSet
<1>13. /\ \A s \in S : SubmittedIds[s] = SubmittedId(s)
       /\ {SubmittedIds[s] : s \in S} = {SubmittedId(s) : s \in S}
  BY <1>1 DEF SubmittedIds
<1>14. Log!Seal(S, b)
  <2> DEFINE ids == {SubmittedIds[s] : s \in S}
  <2>1. ids = {SubmittedId(s) : s \in S}
    BY <1>13
  <2>2. /\ ids \cap Log!Batched = {}
        /\ Contents' = [Contents EXCEPT ![b] = ids]
    BY <1>8, <1>10, <2>1, Zenon
  <2>3. \A s, t \in S : SubmittedIds[s] = SubmittedIds[t] => s = t
    BY <1>6, <1>13
  <2>4. Log!Cardinality(S) <= MaxBatchSize \/ Log!Cardinality(S) = 1
    BY <1>4, <1>12
  <2> HIDE DEF S
  <2> QED
    BY <1>3, <1>9, <1>11, <2>2, <2>3, <2>4, Zenon DEF Log!Seal
<1> QED
  BY <1>1, <1>14

(* A flush seals, loses, or finds nothing to do. *)
LEMMA FlushRefines ==
  ASSUME BatcherTypeOK, StorageConsistent,
         NEW buf \in Seq(Submissions), \A s \in Range(buf) : stage[s] \in InMemory,
         buf # <<>> => Len(buf) <= MaxBatchSize \/ Len(buf) = 1,
         NEW answer \in Answers, Flush(buf, answer)
  PROVE  [Log!LogNext]_(Log!logVars)
<1>1. CASE buf = <<>>
  BY <1>1, Invisible DEF Flush, storageVars
<1>2. CASE buf # <<>>
  <2>1. PICK b \in BatchIds :
          \/ CommitBatch(b, Carried(buf)) /\ stage' = MarkAll(buf, "sealed")
          \/ RollbackBatch(b, Carried(buf)) /\ stage' = MarkAll(buf, "failed")
    BY <1>2 DEF Flush
  <2>2. CASE CommitBatch(b, Carried(buf)) /\ stage' = MarkAll(buf, "sealed")
    BY <1>2, <2>2, CommitSeals DEF Log!LogNext
  <2>3. CASE RollbackBatch(b, Carried(buf)) /\ stage' = MarkAll(buf, "failed")
    <3>1. Range(buf) \in SUBSET Submissions /\ batchOf' = batchOf
      BY <2>3, ElementOfSeq DEF Range, RollbackBatch, storageVars
    <3>2. /\ \A s \in Range(buf) : stage'[s] = "failed"
          /\ \A s \in Submissions \ Range(buf) : stage'[s] = stage[s]
      BY <2>3, <3>1 DEF MarkAll
    <3>3. Log!Lose(Range(buf))
      BY <3>1, <3>2, LosesTogether
    <3> QED
      BY <3>1, <3>3 DEF Log!LogNext
  <2> QED
    BY <2>1, <2>2, <2>3
<1> QED
  BY <1>1, <1>2

LEMMA RefineStep ==
  ASSUME BatcherTypeOK, StorageConsistent, ChannelInv, SizesBounded, [Next]_vars
  PROVE  [Log!LogNext]_(Log!logVars)
<1>1. \A s \in Range(buffer) : s \in Submissions /\ stage[s] = "buffered"
  BY ElementOfSeq DEF Range, BatcherTypeOK, ChannelInv, NothingVanishes
<1>2. ASSUME NEW answer \in Answers, Flush(buffer, answer)
      PROVE  [Log!LogNext]_(Log!logVars)
  BY <1>1, <1>2, BufferWithinBound, FlushRefines DEF BatcherTypeOK, InMemory
<1>3. ASSUME NEW s \in Submissions, SubmitSend(s)
      PROVE  Log!Accept(s)
  <2>1. stage[s] = "sending" /\ stage' = [stage EXCEPT ![s] = "queued"] /\ batchOf' = batchOf
    BY <1>3 DEF SubmitSend, storageVars
  <2>2. /\ s \notin Pending \cup SealedCalls \cup Lost
        /\ Pending' = Pending \cup {s} /\ SealedCalls' = SealedCalls /\ Lost' = Lost
    BY <2>1 DEF Pending, SealedCalls, Lost, InMemory, BatcherTypeOK
  <2>3. Contents' = Contents
    BY <2>1 DEF Contents
  <2> QED
    BY <2>2, <2>3 DEF Log!Accept
<1>4. CASE Caller
  <2>1. CASE \E s \in Submissions : SubmitSend(s)
    BY <1>3, <2>1 DEF Log!LogNext
  <2>2. CASE ~\E s \in Submissions : SubmitSend(s)
    <3>1. batchOf' = batchOf
      BY <1>4 DEF Caller, SubmitCall, SubmitSend, SubmitCancel, FlushCall, FlushSend, FlushCancel,
                  ShutdownCall, ShutdownSend, DropHandle, storageVars
    <3>2. ASSUME NEW s \in Submissions
          PROVE  \/ stage'[s] = stage[s]
                 \/ stage[s] \in {"idle", "sending"} /\ stage'[s] \in {"sending", "cancelled"}
      BY <1>4, <2>2 DEF Caller, SubmitCall, SubmitCancel, FlushCall, FlushSend, FlushCancel,
                        ShutdownCall, ShutdownSend, DropHandle, history, BatcherTypeOK
    <3> QED
      BY <3>1, <3>2, Invisible
  <2> QED
    BY <2>1, <2>2
<1>5. ASSUME NEW s \in Submissions, BufferSubmission(s) \/ CountTrigger(s)
      PROVE  [Log!LogNext]_(Log!logVars)
  <2>1. stage[s] = "queued"
    BY <1>5, ReceiveEffect DEF BufferSubmission, CountTrigger, BatcherTypeOK, ChannelInv, NothingVanishes
  <2>2. CASE BufferSubmission(s)
    <3>1. stage' = [stage EXCEPT ![s] = "buffered"] /\ batchOf' = batchOf
      BY <2>2 DEF BufferSubmission, storageVars
    <3> QED
      BY <2>1, <3>1, Invisible DEF BatcherTypeOK, InMemory
  <2>3. CASE CountTrigger(s)
    <3>1. /\ Append(buffer, s) \in Seq(Submissions)
          /\ \A t \in Range(Append(buffer, s)) : stage[t] \in InMemory
      BY <1>1, <2>1, RangeAppend DEF BatcherTypeOK, InMemory
    <3> QED
      BY <2>3, <3>1, BufferWithinBound, FlushRefines DEF CountTrigger
  <2> QED
    BY <1>5, <2>2, <2>3
<1>6. CASE AgeTrigger \/ \E f \in FlushCalls : HandleFlush(f)
  BY <1>2, <1>6 DEF AgeTrigger, HandleFlush
<1>7. CASE HandleShutdown \/ HandleDisconnect
  <2>1. PICK answer \in Answers : FinalFlush(answer)
    BY <1>7 DEF HandleShutdown, HandleDisconnect
  <2>2. CASE ~Flush(buffer, answer)
    <3>1. /\ batchOf' = batchOf /\ Range(buffer) \in SUBSET Submissions
          /\ \A s \in Range(buffer) : stage[s] \in InMemory
      BY <1>1, <2>1, <2>2 DEF FinalFlush, storageVars, InMemory
    <3>2. /\ \A s \in Range(buffer) : stage'[s] = "discarded"
          /\ \A s \in Submissions \ Range(buffer) : stage'[s] = stage[s]
      BY <2>1, <2>2, <3>1 DEF FinalFlush, MarkAll
    <3>3. Log!Lose(Range(buffer))
      BY <3>1, <3>2, LosesTogether
    <3> QED
      BY <3>1, <3>3 DEF Log!LogNext
  <2> QED
    BY <1>2, <2>2
<1>8. CASE Crash
  <2>1. batchOf' = batchOf /\ Pending \in SUBSET Submissions
    BY <1>8 DEF Crash, storageVars, Pending
  <2>2. /\ \A s \in Pending : stage[s] \in InMemory /\ stage'[s] = "crashed"
        /\ \A s \in Submissions \ Pending : \/ stage'[s] = stage[s]
                                            \/ stage'[s] = "cancelled" /\ stage[s] = "sending"
    BY <1>8 DEF Crash, Pending, InMemory
  <2>3. Log!Lose(Pending)
    BY <2>1, <2>2, LosesTogether
  <2> QED
    BY <2>1, <2>3 DEF Log!LogNext
<1>9. CASE IdleTick \/ Second \/ Restart \/ (\E a \in Attestations : RecordUnbatched(a)) \/ UNCHANGED vars
  <2>1. batchOf' = batchOf /\ stage' = stage
    BY <1>9 DEF IdleTick, Second, Restart, RecordUnbatched, InsertAttestation, storageVars, history, vars
  <2> QED
    BY <2>1, Invisible
<1> QED
  BY <1>4, <1>5, <1>6, <1>7, <1>8, <1>9 DEF Next, HandleCommand, HandleTick

(* The Batcher promises no less than SealedLog: what was accepted is       *)
(* pending, sealed or lost, for good; a batch appears once and whole, with *)
(* distinct ids that were in no batch before, within its bound.   *)
THEOREM BatcherImplementsSealedLog == Spec => ImplementsSealedLog
<1>1. Init => Log!LogInit
  BY StorageAssumption DEF Init, StorageInit, Log!LogInit, Pending, SealedCalls, Lost, Contents, InMemory
<1>2. BatcherTypeOK /\ StorageConsistent /\ ChannelInv /\ SizesBounded /\ [Next]_vars
        => [Log!LogNext]_(Log!logVars)
  BY RefineStep
<1> QED
  BY <1>1, <1>2, BatcherTypes, BatchesNeverPartial, ChannelAlways, SizesAlwaysBounded, PTL
     DEF Spec, ImplementsSealedLog, Log!LogSpec
=============================================================================
