----------------------------- MODULE MCBatcher -----------------------------
(***************************************************************************)
(* Instances of Batcher for TLC.  Three submissions over two ids, two of   *)
(* them of one id, are enough for a duplicate inside a batch, a duplicate  *)
(* of a sealed id, an innocent attestation beside either, and a buffer left*)
(* over after the count trigger.  a1 and a1x are two attestations of the id*)
(* i1; other connections record any attestation, so the row of an id may be*)
(* of the one while the other is sealed.                                   *)
(***************************************************************************)
EXTENDS Batcher, TLC

CONSTANTS s1, s2, s3, a1, a1x, a2, i1, i2

MCIdOf == (a1 :> i1) @@ (a1x :> i1) @@ (a2 :> i2)
MCAttestationOf == (s1 :> a1) @@ (s2 :> a2) @@ (s3 :> a1x)
MCResubmitted == (s1 :> a1) @@ (s2 :> a2) @@ (s3 :> a1)
MCSymmetry == Permutations(BatchIds)
=============================================================================
