------------------------------- MODULE Agents -------------------------------
(***************************************************************************)
(* The agents of attestly-agents (worker.rs, verifier.rs, kyc_agents.rs)   *)
(* and what they sign (attestly-core: attestation.rs, signing.rs).  A      *)
(* Worker solves a task and signs its answer; the record is stored, and    *)
(* may be damaged there; a Verifier checks the record, solves the task it  *)
(* is given, perhaps not the same one, and signs what it thinks of both.   *)
(*                                                                         *)
(* Hashes and signatures are ideal: a hash is what was hashed, a signature *)
(* is the key that made it and what it covers.                             *)
(***************************************************************************)
EXTENDS Calculator

CONSTANTS
  Expressions,        \* tasks of a Worker
  KycRequests,        \* tasks of a KycWorker: [amount, jurisdiction, type]
  Payloads,           \* dicts that Python code signs
  HighRisk,           \* HIGH_RISK_JURISDICTIONS
  FlagAmount,         \* FLAG_AMOUNT_CENTS
  WireRejectAmount    \* WIRE_REJECT_AMOUNT_CENTS

VARIABLES
  signed,      \* the record that the Worker signed
  record,      \* the one that is stored
  asked,       \* the task the Verifier was given
  verdict      \* the record that the Verifier signed

agentVars == <<signed, record, asked, verdict>>

Task(kind, input) == <<kind, input>>
Tasks == {Task("calc", e) : e \in Expressions} \cup {Task("kyc", q) : q \in KycRequests}
Nothing == [id |-> "none"]

----------------------------------------------------------------------------
(* Tools                                                                   *)
KycDecide(q) ==
  LET reasons == (IF q.jurisdiction \in HighRisk THEN <<"high-risk jurisdiction">> ELSE <<>>)
                 \o (IF q.amount > FlagAmount THEN <<"amount exceeds threshold">> ELSE <<>>) IN
  IF q.type = "wire" /\ q.amount > WireRejectAmount THEN <<"Reject", <<"manual review">>>>
  ELSE IF reasons = <<>> THEN <<"Approve">>
  ELSE <<"Flag", reasons>>

(* What an agent makes of a task: the text of an answer, or no answer.     *)
CanonicalBytes(task) == task
DecisionOutput(q) == [ok |-> TRUE, output |-> <<"decision", KycDecide(q)>>]
Solve(task) ==
  IF task[1] = "kyc" THEN DecisionOutput(task[2])
  ELSE LET r == Calculate(task[2]) IN
       IF r.ok THEN [ok |-> TRUE, output |-> <<"number", FormatResult(r.value)>>]
       ELSE [ok |-> FALSE, output |-> <<"", <<>>>>]

Sha256(data) == <<"sha256", data>>

----------------------------------------------------------------------------
(* Attestation::new, its signing_payload, and the signature over that      *)
Zero == [by |-> "nobody", over |-> <<>>]

Attestation(id, agent, task, output, status, references) ==
  [id |-> id, agent |-> agent, pubkey |-> "nobody", task |-> Sha256(CanonicalBytes(task)),
   hash |-> Sha256(output), output |-> output, status |-> status,
   references |-> references, signature |-> Zero]

WithoutStatus(a) ==                                           \* mutant
  <<a.id, a.agent, a.pubkey, a.task, a.hash, a.output, a.references>>
SigningPayload(a) ==
  <<a.id, a.agent, a.pubkey, a.task, a.hash, a.output, a.status, a.references>>

SignAttestation(key, a) ==
  LET keyed == [a EXCEPT !.pubkey = key] IN
  [keyed EXCEPT !.signature = [by |-> key, over |-> SigningPayload(keyed)]]

VerifySignature(a) == a.signature = [by |-> a.pubkey, over |-> SigningPayload(a)]

VerifyAttestation(a) == VerifySignature(a) /\ Sha256(a.output) = a.hash

AttestlyVerify(a) == IF VerifySignature(a) THEN 0 ELSE 1   \* its exit code

(* verify_attestation of the Python bindings: it knows whose key it wants, *)
(* and does not look at the output's hash.                                 *)
VerifyFor(a, key) == a.pubkey = key /\ VerifySignature(a)

----------------------------------------------------------------------------
Completed == <<"Completed">>
Failed == <<"Failed">>
Verified(valid, correct) == <<"Verified", valid, correct>>

Signs(a) ==
  /\ signed = Nothing
  /\ signed' = a
  /\ record' = a
  /\ UNCHANGED <<asked, verdict>>

Answers(task) ==
  LET s == Solve(task) IN
  Signs(SignAttestation("kw", Attestation("w", "worker", task, s.output,
                                          IF s.ok THEN Completed ELSE Failed, "none")))

WorkerRuns(e) == Answers(Task("calc", e))
KycWorkerRuns(q) == Answers(Task("kyc", q))

(* sign_attestation of the Python bindings: a payload is task and output.  *)
PythonSigns(p) ==
  Signs(SignAttestation("kw", Attestation("w", "worker", Task("payload", p),
                                          <<"payload", p>>, Completed, "none")))

(* The stored record changes: one field, or an output with its hash.       *)
Damage(a) ==
  {[a EXCEPT !.id = "damaged"], [a EXCEPT !.agent = "damaged"], [a EXCEPT !.pubkey = "kv"],
   [a EXCEPT !.signature = Zero], [a EXCEPT !.references = "w"]}
  \cup {[a EXCEPT !.task = Sha256(CanonicalBytes(t))] : t \in Tasks}
  \cup {[a EXCEPT !.status = s] : s \in {Completed, Failed}}
  \cup {[a EXCEPT !.output = Solve(t).output] : t \in Tasks}
  \cup {[a EXCEPT !.output = Solve(t).output, !.hash = Sha256(Solve(t).output)] : t \in Tasks}

RecordDamaged ==
  /\ signed # Nothing
  /\ record = signed
  /\ verdict = Nothing
  /\ record' \in Damage(signed)
  /\ UNCHANGED <<signed, asked, verdict>>

Judgement(task) ==
  Verified(VerifyAttestation(record),
           record.status = Completed /\ Solve(task).ok /\ Solve(task).output = record.output)

Judges(task) ==
  /\ signed # Nothing
  /\ verdict = Nothing
  /\ asked' = task
  /\ verdict' = SignAttestation("kv",
       Attestation("v", "verifier", task, <<"judgement", Judgement(task)>>, Judgement(task), record.id))
  /\ UNCHANGED <<signed, record>>

VerifierRuns(e) == Judges(Task("calc", e))
KycVerifierRuns(q) == Judges(Task("kyc", q))

AgentsInit == signed = Nothing /\ record = Nothing /\ asked = Nothing /\ verdict = Nothing

AgentsNext ==
  \/ \E e \in Expressions : WorkerRuns(e) \/ VerifierRuns(e)
  \/ \E q \in KycRequests : KycWorkerRuns(q) \/ KycVerifierRuns(q)
  \/ \E p \in Payloads : PythonSigns(p)
  \/ RecordDamaged

AgentsSpec == AgentsInit /\ [][AgentsNext]_agentVars

----------------------------------------------------------------------------
(* What a Verifier signs can be checked by anyone, and is the judgement it *)
(* came to: a record is valid just when it is what the Worker signed, and, *)
(* if so, its answer is correct just when the Verifier's task has an       *)
(* answer and the Worker's task has the same one.  (The tasks need not be  *)
(* the same: the Verifier does not compare their hashes.)  attestly-verify *)
(* accepts the same records.                                               *)
SameAnswer(s, t) == s.ok /\ t.ok /\ s.output = t.output

VerdictsRight ==
  verdict # Nothing =>
    /\ VerifyAttestation(verdict) /\ VerifyFor(verdict, "kv") /\ ~VerifyFor(verdict, "kw")
    /\ verdict.references = record.id
    /\ verdict.status[2] <=> record = signed
    /\ verdict.status[2] <=> AttestlyVerify(record) = 0
    /\ verdict.status[2] =>
         (verdict.status[3] <=>
            \E t \in Tasks : signed.task = Sha256(CanonicalBytes(t))
                             /\ SameAnswer(Solve(t), Solve(asked)))
=============================================================================
