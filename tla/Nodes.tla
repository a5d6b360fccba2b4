-------------------------------- MODULE Nodes -------------------------------
(***************************************************************************)
(* attest() of the Python SDK (attestly/langgraph/wrapper.py): the nodes   *)
(* of a graph are wrapped so that each call of one sends a receipt to the  *)
(* sink, or two when there is a Verifier: the node's function is then      *)
(* called again, with a copy of its input, and the second receipt refers   *)
(* to the first and says whether the outputs agree.  Branches of a graph   *)
(* run in parallel.                                                        *)
(*                                                                         *)
(* A function is one of three kinds: pure, or counting its calls in memory *)
(* that it keeps, or returning that very memory, an object that later      *)
(* calls change.  A hash is what was hashed.                               *)
(***************************************************************************)
EXTENDS Integers, Sequences, FiniteSets

CONSTANTS
  GraphNodes,    \* the nodes of the graph
  KindOf,        \* the kind of the function of each: pure, counting, sharing
  Opaque,        \* nodes that hold no callable the wrapper finds
  Uncopyable,    \* nodes whose input deepcopy refuses
  NodeCalls,     \* calls of nodes
  NodeOf,        \* the node of each
  Dual           \* whether there is a Verifier

ASSUME NodesAssumption ==
  /\ KindOf \in [GraphNodes -> {"pure", "counting", "sharing"}]
  /\ Opaque \subseteq GraphNodes /\ Uncopyable \subseteq GraphNodes
  /\ NodeOf \in [NodeCalls -> GraphNodes]
  /\ Dual \in BOOLEAN

VARIABLES
  added,       \* the nodes added to the graph so far
  wraps,       \* how many wrappers each has
  marked,      \* the marker that attest leaves on the graph
  memory,      \* what the functions of each node keep
  unwrapped,   \* what they would keep, had the graph not been wrapped
  call,        \* each call
  sink,        \* the receipts that landed
  recorded     \* what telemetry counted

nodesVars == <<added, wraps, marked, memory, unwrapped, call, sink, recorded>>
graphVars == <<added, wraps, marked>>

Uncalled == [step |-> "idle", out |-> <<>>, again |-> <<>>, hash |-> -1,
             value |-> -1, alone |-> -1, failed |-> FALSE]

NodesInit ==
  /\ added = {}
  /\ wraps = [n \in GraphNodes |-> 0]
  /\ marked = FALSE
  /\ memory = [n \in GraphNodes |-> 0]
  /\ unwrapped = [n \in GraphNodes |-> 0]
  /\ call = [c \in NodeCalls |-> Uncalled]
  /\ sink = <<>>
  /\ recorded = 0

----------------------------------------------------------------------------
(* attest, and the add_node that it puts in place of the graph's           *)
AlwaysAgain == TRUE      \* mutant
Unmarked == ~marked

Attest ==
  /\ Unmarked
  /\ marked' = TRUE
  /\ wraps' = [n \in GraphNodes |-> IF n \in added \ Opaque THEN wraps[n] + 1 ELSE wraps[n]]
  /\ UNCHANGED <<added, memory, unwrapped, call, sink, recorded>>

(* The one of attest raises if it finds nothing to call.                   *)
AddNode(n) ==
  /\ n \notin added
  /\ marked => n \notin Opaque
  /\ added' = added \cup {n}
  /\ wraps' = IF marked THEN [wraps EXCEPT ![n] = @ + 1] ELSE wraps
  /\ UNCHANGED <<marked, memory, unwrapped, call, sink, recorded>>

----------------------------------------------------------------------------
(* The function of a node: what it returns, and what it keeps              *)
Keeps(n, kept) == IF KindOf[n] = "pure" THEN kept ELSE [kept EXCEPT ![n] = @ + 1]
Returns(n, kept) == <<KindOf[n], Keeps(n, kept)[n]>>
Value(n, out) == IF out[1] = "sharing" THEN memory[n] ELSE out[2]   \* when it is looked at

Step(c, rec) == call' = [call EXCEPT ![c] = rec]

(* The call of the wrapper, or of the function itself if nothing wraps it; *)
(* the input was copied, or its repr kept.                                 *)
Invoke(c) ==
  LET n == NodeOf[c]
      out == Returns(n, memory) IN
  /\ call[c].step = "idle"
  /\ n \in added
  /\ memory' = Keeps(n, memory)
  /\ unwrapped' = Keeps(n, unwrapped)
  /\ Step(c, [Uncalled EXCEPT !.out = out, !.value = out[2], !.alone = Returns(n, unwrapped)[2],
                              !.step = IF wraps[n] = 0 THEN "unattested"
                                       ELSE IF Dual THEN "replay" ELSE "worker"])
  /\ UNCHANGED <<graphVars, sink, recorded>>

FunctionRaises(c) ==
  /\ call[c].step = "idle" /\ NodeOf[c] \in added
  /\ Step(c, [Uncalled EXCEPT !.step = "raised", !.failed = TRUE])
  /\ UNCHANGED <<graphVars, memory, unwrapped, sink, recorded>>

(* The Verifier's call, with the copy of the input, or with its repr: what *)
(* a function makes of a string may be nothing it would make of the input. *)
FromRepr == <<"pure", -1>>

Replay(c) ==
  LET n == NodeOf[c] IN
  /\ call[c].step = "replay"
  /\ memory' = Keeps(n, memory)
  /\ \E out \in {Returns(n, memory)} \cup (IF n \in Uncopyable THEN {FromRepr} ELSE {}) :
       Step(c, [call[c] EXCEPT !.again = out, !.step = "worker"])
  /\ UNCHANGED <<graphVars, unwrapped, sink, recorded>>

ReplayRaises(c) ==
  /\ call[c].step = "replay"
  /\ Step(c, [call[c] EXCEPT !.step = "raised", !.failed = TRUE])
  /\ UNCHANGED <<graphVars, memory, unwrapped, sink, recorded>>

----------------------------------------------------------------------------
(* _emit_for_node: the sink takes the receipt, and telemetry counts it; or *)
(* the sink raises, and the receipt has landed or not.  What it raises     *)
(* goes through the wrapper to the graph.                                  *)
Emit(c, receipt, rec) ==
  \/ /\ sink' = Append(sink, receipt)
     /\ recorded' = recorded + 1
     /\ Step(c, rec)
  \/ /\ sink' \in {sink, Append(sink, receipt)}
     /\ Step(c, [call[c] EXCEPT !.step = "raised"])
     /\ UNCHANGED recorded

Returned(c) == [call[c] EXCEPT !.step = "returned", !.value = Value(NodeOf[c], call[c].out)]

EmitWorker(c) ==
  LET h == Value(NodeOf[c], call[c].out) IN
  /\ call[c].step = "worker"
  /\ Emit(c, [call |-> c, agent |-> "worker", hash |-> h, correct |-> FALSE],
          IF Dual THEN [call[c] EXCEPT !.step = "verifier", !.hash = h] ELSE Returned(c))
  /\ UNCHANGED <<graphVars, memory, unwrapped>>

(* Its output is hashed only now.                                          *)
EmitVerifier(c) ==
  LET h == Value(NodeOf[c], call[c].again) IN
  /\ call[c].step = "verifier"
  /\ Emit(c, [call |-> c, agent |-> "verifier", hash |-> h, correct |-> h = call[c].hash],
          Returned(c))
  /\ UNCHANGED <<graphVars, memory, unwrapped>>

NodesNext ==
  \/ Attest
  \/ \E n \in GraphNodes : AddNode(n)
  \/ \E c \in NodeCalls :
       \/ Invoke(c) \/ FunctionRaises(c) \/ Replay(c) \/ ReplayRaises(c)
       \/ EmitWorker(c) \/ EmitVerifier(c)

NodesSpec == NodesInit /\ [][NodesNext]_nodesVars

----------------------------------------------------------------------------
(* The receipts tell what was done: a call of an attested node that has    *)
(* returned left one receipt of the Worker and, with a Verifier, one that  *)
(* finds it in the sink and says truly whether the second output was the   *)
(* same (of a shared object it cannot tell); a call that failed in the     *)
(* function left none, however the graph was put together, in whatever     *)
(* order branches ran and wherever the sink failed.                        *)
ReceiptsOf(c, agent) == {i \in DOMAIN sink : sink[i].call = c /\ sink[i].agent = agent}

ReceiptsSound ==
  /\ \A n \in GraphNodes : wraps[n] <= 1
  /\ marked => \A n \in added \ Opaque : wraps[n] = 1
  /\ \A c \in NodeCalls :
       /\ call[c].step = "returned" =>
            /\ Cardinality(ReceiptsOf(c, "worker")) = 1
            /\ Dual => ReceiptsOf(c, "verifier") # {}
       /\ call[c].failed => ReceiptsOf(c, "worker") = {}
       /\ \A j \in ReceiptsOf(c, "verifier") :
            /\ ReceiptsOf(c, "verifier") = {j}
            /\ \E i \in ReceiptsOf(c, "worker") : i < j
            /\ KindOf[NodeOf[c]] # "sharing" =>
                 (sink[j].correct <=> call[c].out[2] = call[c].again[2])
  /\ recorded <= Len(sink)

(* What the README of the SDK says: wrapped and unwrapped runs produce     *)
(* identical state.  A call that returns, returns what it would have.      *)
GraphPreserved ==
  \A c \in NodeCalls : call[c].step = "returned" => call[c].value = call[c].alone
=============================================================================
