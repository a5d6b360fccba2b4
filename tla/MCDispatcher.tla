---------------------------- MODULE MCDispatcher ----------------------------
(***************************************************************************)
(* Instances of Dispatcher for TLC: a run of one or two Verifiers with a   *)
(* Batcher next to one of at most one Verifier and without a Batcher.      *)
(***************************************************************************)
EXTENDS Dispatcher, TLC

CONSTANTS r1, r2

MCRuns           == {r1, r2}
MCVerifierCounts == r1 :> {1, 2} @@ r2 :> {0, 1}
MCOneVerifier    == r1 :> {1} @@ r2 :> {1}
MCAttached       == {r1}
MCVerdicts       == {<<TRUE, TRUE>>, <<TRUE, FALSE>>}
=============================================================================
