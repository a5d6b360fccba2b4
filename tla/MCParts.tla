------------------------------- MODULE MCParts ------------------------------
(***************************************************************************)
(* Parts of the system that share nothing, checked in one run: a behaviour *)
(* is one of the two stores, of the creation of identities, of the         *)
(* telemetry of the SDK, of the calculator, of the agents that use it, of  *)
(* the wrapped graph, or of a proof of inclusion.                          *)
(***************************************************************************)
EXTENDS Stores, Identity, Telemetry, Agents, MCNodes, Merkle

VARIABLE part   \* bound: the part this behaviour is of

partsVars == <<part, storesVars, identityVars, telemetryVars,
               calculatorVars, agentVars, nodesVars, vars>>

Idle ==   \* the other parts of a behaviour
  /\ part # "stores" => UNCHANGED storesVars
  /\ part # "identity" => UNCHANGED identityVars
  /\ part # "telemetry" => UNCHANGED telemetryVars
  /\ part # "calculator" => UNCHANGED calculatorVars
  /\ part # "agents" => UNCHANGED agentVars
  /\ part # "nodes" => UNCHANGED nodesVars
  /\ part # "merkle" => UNCHANGED vars

PartsInit ==
  /\ part \in {"stores", "identity", "telemetry", "calculator", "agents", "nodes", "merkle"}
  /\ StoresInit /\ (part # "stores" => table = "accounts")
  /\ IdentityInit /\ (part # "identity" => keyFile = Absent)
  /\ TelemetryInit
  /\ CalculatorInit
  /\ AgentsInit
  /\ NodesInit
  /\ Init /\ (part # "merkle" => leaves = <<>> /\ index = 0)

(* Two processes are alike: one of them is enough to emit on the last day. *)
OneLateEmitter == made'["q"][MaxDay] = 0

PartsNext ==
  /\ UNCHANGED part
  /\ \/ part = "stores" /\ StoresNext
     \/ part = "identity" /\ IdentityNext
     \/ part = "telemetry" /\ TelemetryNext /\ OneLateEmitter
     \/ part = "calculator" /\ CalculatorNext
     \/ part = "agents" /\ AgentsNext
     \/ part = "nodes" /\ NodesNext
     \/ part = "merkle" /\ Next
  /\ Idle

PartsSpec == PartsInit /\ [][PartsNext]_partsVars

MCIdOf == [c \in Contents |-> CASE c = "c1" -> 1 [] c = "c2" -> 2 [] OTHER -> 3]
MCAgentOf == [c \in Contents |-> IF c \in {"c1", "c2"} THEN "g1" ELSE "g2"]
MCCustomerOf == [c \in Contents |-> IF c = "c1" THEN "k1" ELSE None]
MCRetention == [p \in Plans |-> IF p = "team" THEN 1 ELSE 3]
MCIncluded == [p \in Plans |-> IF p = "team" THEN 1 ELSE 9]
MCOwners == <<"e1", "e2">>
MCMaxRows == [t \in Tables |-> IF t \in {"accounts", "attestations"} THEN 3 ELSE 2]
MCWindows == {<<0, 9>>, <<2, 3>>}   \* all of time, and one instant

MCValueOf == [t \in {"0", "2", "3"} |-> CASE t = "0" -> 0 [] t = "2" -> 2 [] OTHER -> 3]
MCPieces ==
  {<<t>> : t \in Tokens} \cup {<<"(", "3", "-", "2", ")">>}
MCExpressions ==   \* the same answer twice, none, one that is rounded, and -0
  {<<"2", "*", "3">>, <<"3", "+", "3">>, <<"2", "/", "0">>, <<"2", "/", "3">>, <<"-", "0">>}
Request(a, j, t) == [amount |-> a, jurisdiction |-> j, type |-> t]
MCKycRequests ==
  {Request(1, "US", "ach"), Request(3, "XX", "wire"), Request(3, "US", "wire"),
   Request(2, "XX", "ach"), Request(2, "US", "ach")}
=============================================================================
