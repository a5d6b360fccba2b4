----------------------------- MODULE MCJsonlLog -----------------------------
(***************************************************************************)
(* The instance of JsonlLog whose counterexample is two appends that       *)
(* overlap.  MCPipeline has the larger one, of five records.               *)
(***************************************************************************)
EXTENDS JsonlLog
=============================================================================
