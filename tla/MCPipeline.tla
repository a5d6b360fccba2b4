----------------------------- MODULE MCPipeline -----------------------------
(***************************************************************************)
(* The pipeline that attestations take, in the three parts that the code   *)
(* keeps apart; a behaviour is one of                                      *)
(*   - runs of the dispatchers (Dispatcher), which know of the Batcher only*)
(*     whether it still takes attestations: one with two Verifiers next to *)
(*     one without any, or two runs with one each.  One has a Batcher;     *)
(*   - the Batcher (Batcher), with a channel of one and a size that is     *)
(*     never reached, so that only the tick can flush;                     *)
(*   - a log by itself (JsonlLog), with five records: enough for two       *)
(*     failures with a record before, between and after them.              *)
(***************************************************************************)
EXTENDS MCBatcher, MCDispatcher, JsonlLog

VARIABLE part   \* bound: the part this behaviour is of

MCTwoSubmissions == (s1 :> a1) @@ (s2 :> a2)

pipelineVars == <<part, dispatchVars, vars, jsonlVars>>

PipelineInit ==
  /\ part \in {"verifiers", "runs", "batcher", "log"}
  /\ DispatcherInit
  /\ Init
  /\ JsonlInit

OfRuns == part \in {"verifiers", "runs"}

(* How many Verifiers each run has, once it has started.                   *)
Verifiers == [verifiers |-> r1 :> 2 @@ r2 :> 0, runs |-> r1 :> 1 @@ r2 :> 1]
Sized == \A r \in Runs : pc'[r] # "idle" => Last(r)' = Verifiers[part][r]

(* The valid records of a log are interchangeable: it is enough to look at *)
(* the behaviours that begin to append them in order.                      *)
InOrder == \A r, s \in Valid : r < s /\ phase'[s] # "idle" => phase'[r] # "idle"

PipelineNext ==
  /\ UNCHANGED part
  /\ \/ OfRuns /\ DispatcherNext /\ Sized /\ UNCHANGED <<vars, jsonlVars>>
     \/ part = "batcher" /\ Next /\ UNCHANGED <<dispatchVars, jsonlVars>>
     \/ part = "log" /\ JsonlNext /\ InOrder /\ UNCHANGED <<dispatchVars, vars>>

(* The fairness of Dispatcher and of Batcher, each for its own part.       *)
Proceeds(r)  == OfRuns /\ Proceed(r) /\ UNCHANGED <<part, vars, jsonlVars>>
ForBatcher   == UNCHANGED <<part, dispatchVars, jsonlVars>>
Handles      == part = "batcher" /\ HandleCommand /\ ForBatcher
Ticks        == part = "batcher" /\ HandleTick /\ ForBatcher
TimePasses   == part = "batcher" /\ Second /\ ForBatcher
SendsClosing == part = "batcher" /\ ShutdownSend /\ ForBatcher

PipelineSpec ==
  /\ PipelineInit /\ [][PipelineNext]_pipelineVars
  /\ \A r \in Runs : WF_pipelineVars(Proceeds(r))
  /\ WF_pipelineVars(Handles) /\ WF_pipelineVars(Ticks)
  /\ WF_pipelineVars(TimePasses) /\ WF_pipelineVars(SendsClosing)
=============================================================================
