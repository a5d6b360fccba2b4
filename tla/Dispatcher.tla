----------------------------- MODULE Dispatcher -----------------------------
(***************************************************************************)
(* Runs of the dispatchers of attestly-agents: one Worker, then any number *)
(* of Verifiers concurrently (ParallelDispatcher::run, parallel.rs); with  *)
(* one Verifier it is Dispatcher::run (dispatcher.rs).  A run writes its   *)
(* attestations to one JSON-lines log and its record to another, and hands *)
(* the attestations to the Batcher.                                        *)
(*                                                                         *)
(* Each log is an instance of JsonlLog, shared by all runs: the appends of *)
(* concurrent runs, threads or processes, interleave write by write.       *)
(* Agents are user code: one may answer, fail, hang, or give any verdict,  *)
(* but it signs what it produces.  A run ends "dropped" if its future is   *)
(* dropped where it suspends (at the agents, at the channel of the         *)
(* Batcher) or if its process dies, anywhere.                              *)
(***************************************************************************)
EXTENDS Naturals, Sequences, FiniteSets

CONSTANTS
  Runs,           \* calls of run
  MaxVerifiers,   \* bound: how many Verifiers a run is given
  VerifierCounts, \* how many that may be, for each run
  Attached,       \* the runs whose dispatcher has a Batcher
  Verdicts,       \* the pairs <<attestation_valid, answer_correct>> of Verifiers
  MaxOverlap      \* how many appends to one log may be in progress at once

(* The attestations of a run: 0 is the Worker's, i the i-th Verifier's.    *)
RunAttestations == Runs \X (0 .. MaxVerifiers)

ASSUME DispatcherAssumption ==
  /\ IsFiniteSet(Runs)
  /\ MaxVerifiers \in Nat
  /\ VerifierCounts \in [Runs -> SUBSET (0 .. MaxVerifiers)]
  /\ Attached \subseteq Runs
  /\ Verdicts \subseteq BOOLEAN \X BOOLEAN
  /\ MaxOverlap \in Nat \ {0}

VARIABLES
  pc,         \* where each run is
  cursor,     \* the attestation it appends or submits
  verdict,    \* what each Verifier of a run answered
  execution,  \* what the run records: its status, and the attestations it names
  forwarded,  \* the attestations of a run that the Batcher accepted, in order
  batcher,    \* the task of the Batcher: "running", "gone"
  attFile, attPhase, attOverlapped,    \* the attestations log
  exeFile, exePhase, exeOverlapped     \* the executions log

attVars == <<attFile, attPhase, attOverlapped>>
exeVars == <<exeFile, exePhase, exeOverlapped>>
runVars == <<pc, cursor, verdict, execution>>
dispatchVars == <<runVars, forwarded, batcher, attVars, exeVars>>

Attested == INSTANCE JsonlLog WITH
  Records <- RunAttestations, Valid <- RunAttestations, MaxAppends <- MaxOverlap,
  file <- attFile, phase <- attPhase, overlapped <- attOverlapped

Executed == INSTANCE JsonlLog WITH
  Records <- Runs, Valid <- Runs, MaxAppends <- MaxOverlap,
  file <- exeFile, phase <- exePhase, overlapped <- exeOverlapped

Points == {"idle", "worker", "persist", "verify", "judge", "record", "submit",
           "ok", "err", "dropped"}
Ended == {"ok", "err", "dropped"}

Unanswered  == <<>>
NonVerified == <<"other">>   \* an attestation whose status is not Verified

Failed(stage)  == [kind |-> "failed", stage |-> stage, valid |-> FALSE, correct |-> FALSE]
Complete(pair) == [kind |-> "complete", stage |-> "", valid |-> pair[1], correct |-> pair[2]]
PendingStatus == [kind |-> "pending", stage |-> "", valid |-> FALSE, correct |-> FALSE]
Statuses == {Failed(s) : s \in {"WorkerRunning", "VerifierRunning"}}
              \cup {Complete(p) : p \in BOOLEAN \X BOOLEAN} \cup {PendingStatus}

VerifiersOf(r) == DOMAIN verdict[r]
Last(r) == Len(verdict[r])   \* the attestation of the last Verifier
All(r)  == 0 .. Last(r)      \* the attestations of a run that goes well

DispatcherTypeOK ==
  /\ pc \in [Runs -> Points]
  /\ verdict \in [Runs -> Seq(Verdicts \cup {Unanswered, NonVerified})]
  /\ cursor \in [Runs -> Nat]
  /\ \A r \in Runs : cursor[r] <= Last(r) /\ Last(r) <= MaxVerifiers
  /\ execution \in [Runs -> [status : Statuses, names : SUBSET {0, 1}]]
  /\ forwarded \in [Runs -> Seq(Nat)]
  /\ batcher \in {"running", "gone"}
  /\ Attested!JsonlTypeOK
  /\ Executed!JsonlTypeOK

DispatcherInit ==
  /\ pc = [r \in Runs |-> "idle"]
  /\ cursor = [r \in Runs |-> 0]
  /\ verdict = [r \in Runs |-> <<>>]
  /\ execution = [r \in Runs |-> [status |-> PendingStatus, names |-> {}]]
  /\ forwarded = [r \in Runs |-> <<>>]
  /\ batcher = "running"
  /\ Attested!JsonlInit
  /\ Executed!JsonlInit

OneShort(r) == cursor[r] > 0 /\ cursor[r] + 1 >= Last(r)   \* mutant
IsLast(r)   == cursor[r] = Last(r)

GoTo(r, point) == pc' = [pc EXCEPT ![r] = point]

(* The status of the run is decided; its record names the Worker's and the *)
(* first Verifier's attestation, as far as the run has appended them.      *)
Conclude(r, status, names) ==
  /\ execution' = [execution EXCEPT ![r] = [status |-> status, names |-> names]]
  /\ GoTo(r, "record")

FinalizeFailure(r, stage, names) == Conclude(r, Failed(stage), names)

logVars == <<attVars, exeVars>>

----------------------------------------------------------------------------
(* run is called with n Verifiers; with none it fails before the Worker.   *)
Start(r, n) ==
  /\ pc[r] = "idle"
  /\ verdict' = [verdict EXCEPT ![r] = [i \in 1 .. n |-> Unanswered]]
  /\ IF n = 0
     THEN FinalizeFailure(r, "VerifierRunning", {})
     ELSE GoTo(r, "worker") /\ UNCHANGED execution
  /\ UNCHANGED <<cursor, forwarded, batcher, logVars>>

WorkerAnswers(r) ==
  /\ pc[r] = "worker"
  /\ GoTo(r, "persist")
  /\ UNCHANGED <<cursor, verdict, execution, forwarded, batcher, logVars>>

(* The Worker returns an error, or its stage times out. *)
WorkerFails(r) ==
  /\ pc[r] = "worker"
  /\ FinalizeFailure(r, "WorkerRunning", {})
  /\ UNCHANGED <<cursor, verdict, forwarded, batcher, logVars>>

VerifierAnswers(r, i, v) ==
  /\ pc[r] = "verify"
  /\ verdict[r][i] = Unanswered
  /\ verdict' = [verdict EXCEPT ![r][i] = v]
  /\ UNCHANGED <<pc, cursor, execution, forwarded, batcher, logVars>>

VerifiersHang(r) == FALSE /\ UNCHANGED dispatchVars   \* mutant

(* try_join_all: one Verifier that fails or times out drops the others,    *)
(* and the attestations they have already produced.                        *)
VerifierFails(r) ==
  /\ pc[r] = "verify"
  /\ \E i \in VerifiersOf(r) : verdict[r][i] = Unanswered
  /\ FinalizeFailure(r, "VerifierRunning", {0})
  /\ UNCHANGED <<cursor, verdict, forwarded, batcher, logVars>>

AllAnswered(r) == \A i \in VerifiersOf(r) : verdict[r][i] # Unanswered

VerifiersJoin(r) ==
  /\ pc[r] = "verify"
  /\ AllAnswered(r)
  /\ GoTo(r, "persist")
  /\ UNCHANGED <<cursor, verdict, execution, forwarded, batcher, logVars>>

----------------------------------------------------------------------------
(* append_attestation, in its two writes. *)
WriteAttestation(r) ==
  /\ pc[r] = "persist"
  /\ Attested!WriteRecord(<<r, cursor[r]>>)
  /\ UNCHANGED <<runVars, forwarded, batcher, exeVars>>

VerifiersOnly == 1   \* mutant
FirstToSubmit == 0

AckAttestation(r) ==
  /\ pc[r] = "persist"
  /\ Attested!WriteNewline(<<r, cursor[r]>>)
  /\ IF IsLast(r)
     THEN GoTo(r, "judge") /\ cursor' = [cursor EXCEPT ![r] = FirstToSubmit]
     ELSE /\ cursor' = [cursor EXCEPT ![r] = @ + 1]
          /\ IF cursor[r] = 0 THEN GoTo(r, "verify") ELSE UNCHANGED pc
  /\ UNCHANGED <<verdict, execution, forwarded, batcher, exeVars>>

(* The append fails and run returns Err, or the process dies in it. *)
LoseAttestation(r) ==
  /\ pc[r] = "persist"
  /\ Attested!FailRecord(<<r, cursor[r]>>) \/ Attested!FailNewline(<<r, cursor[r]>>)
  /\ GoTo(r, "err") \/ GoTo(r, "dropped")
  /\ UNCHANGED <<cursor, verdict, execution, forwarded, batcher, exeVars>>

FirstVerdict(r) == verdict[r][1]                                        \* mutant
(* The unanimous verdict, or a negative one where the Verifiers disagree.  *)
Consensus(r) ==
  IF \A i \in VerifiersOf(r) : verdict[r][i] = verdict[r][1] THEN verdict[r][1]
  ELSE <<FALSE, FALSE>>

(* A Verifier answered, with something else than a verdict.                *)
Malformed(r) == \E i \in VerifiersOf(r) : verdict[r][i] = NonVerified

Judge(r) ==
  /\ pc[r] = "judge"
  /\ IF Malformed(r)
     THEN FinalizeFailure(r, "VerifierRunning", {0, 1})
     ELSE Conclude(r, Complete(Consensus(r)), {0, 1})
  /\ UNCHANGED <<cursor, verdict, forwarded, batcher, logVars>>

(* append_execution, in its two writes. *)
WriteExecution(r) ==
  /\ pc[r] = "record"
  /\ Executed!WriteRecord(r)
  /\ UNCHANGED <<runVars, forwarded, batcher, attVars>>

AckExecution(r) ==
  /\ pc[r] = "record"
  /\ Executed!WriteNewline(r)
  /\ GoTo(r, IF execution[r].status.kind = "complete" /\ r \in Attached THEN "submit" ELSE "ok")
  /\ UNCHANGED <<cursor, verdict, execution, forwarded, batcher, attVars>>

IgnoresLoss(r) ==   \* mutant
  /\ pc[r] = "record"
  /\ Executed!FailRecord(r) \/ Executed!FailNewline(r)
  /\ GoTo(r, "ok")
  /\ UNCHANGED <<cursor, verdict, execution, forwarded, batcher, attVars>>

LoseExecution(r) ==
  /\ pc[r] = "record"
  /\ Executed!FailRecord(r) \/ Executed!FailNewline(r)
  /\ GoTo(r, "err") \/ GoTo(r, "dropped")
  /\ UNCHANGED <<cursor, verdict, execution, forwarded, batcher, attVars>>

----------------------------------------------------------------------------
(* Batcher::submit, of the Worker's attestation first. *)
Submit(r) ==
  /\ pc[r] = "submit"
  /\ batcher = "running"
  /\ forwarded' = [forwarded EXCEPT ![r] = Append(@, cursor[r])]
  /\ IF IsLast(r)
     THEN GoTo(r, "ok") /\ UNCHANGED cursor
     ELSE cursor' = [cursor EXCEPT ![r] = @ + 1] /\ UNCHANGED pc
  /\ UNCHANGED <<verdict, execution, batcher, logVars>>

(* BatcherError::Closed. *)
SubmitFails(r) ==
  /\ pc[r] = "submit"
  /\ batcher = "gone"
  /\ GoTo(r, "err")
  /\ UNCHANGED <<cursor, verdict, execution, forwarded, batcher, logVars>>

(* No dispatcher's handle lets the task exit (Batcher, NeverClosedUnderA-  *)
(* Caller), but it may panic, or its runtime be shut down.                 *)
BatcherDies ==
  /\ batcher = "running"
  /\ batcher' = "gone"
  /\ UNCHANGED <<runVars, forwarded, logVars>>

Cancel(r) ==
  /\ pc[r] \in {"worker", "verify", "submit"}
  /\ GoTo(r, "dropped")
  /\ UNCHANGED <<cursor, verdict, execution, forwarded, batcher, logVars>>

(* The process of the run dies between two appends. *)
Die(r) ==
  /\ pc[r] \in {"worker", "verify", "judge", "submit"}
  /\ GoTo(r, "dropped")
  /\ UNCHANGED <<cursor, verdict, execution, forwarded, batcher, logVars>>

(* What the dispatcher does by itself, its timers included.                *)
Proceed(r) ==
  \/ WorkerFails(r) \/ VerifierFails(r) \/ VerifiersJoin(r)
  \/ WriteAttestation(r) \/ AckAttestation(r) \/ Judge(r)
  \/ WriteExecution(r) \/ AckExecution(r)
  \/ Submit(r) \/ SubmitFails(r)

DispatcherNext ==
  \/ BatcherDies
  \/ \E r \in Runs :
       \/ \E n \in VerifierCounts[r] : Start(r, n)
       \/ Proceed(r) \/ Cancel(r) \/ Die(r)
       \/ WorkerAnswers(r) \/ LoseAttestation(r) \/ LoseExecution(r)
       \/ \E i \in VerifiersOf(r), v \in Verdicts \cup {NonVerified} : VerifierAnswers(r, i, v)

DispatcherSpec == DispatcherInit /\ [][DispatcherNext]_dispatchVars

(* Timers fire and synchronous code runs on; the Batcher drains its        *)
(* channel.  No agent is obliged to answer and no call need be made.       *)
DispatcherFairSpec == DispatcherSpec /\ \A r \in Runs : WF_dispatchVars(Proceed(r))

----------------------------------------------------------------------------
Produced(r) ==
  {i \in VerifiersOf(r) : verdict[r][i] # Unanswered}
    \cup (IF pc[r] = "persist" \/ attPhase[<<r, 0>>] # "idle" THEN {0} ELSE {})

Persisted(r) == {i \in All(r) : attPhase[<<r, i>>] = "acked"}
Recorded(r)  == exePhase[r] = "acked"

(* The order of the appends: a record in the log, even half written, names *)
(* only attestations whose append had succeeded, a Complete one names two  *)
(* and all its Verifiers are in the log.                                   *)
RecordsBacked ==
  \A r \in Runs : exePhase[r] \in {"written", "acked"} =>
    /\ execution[r].names \subseteq Persisted(r)
    /\ execution[r].status.kind = "complete" =>
         execution[r].names = {0, 1} /\ Persisted(r) = All(r)

(* What enters a Merkle batch is on disk, with the record of its run, and  *)
(* in the order of the run: the Worker's attestation, then the Verifiers', *)
(* none skipped or repeated; a run that returns Ok has handed over all.    *)
ForwardedDurable ==
  \A r \in Runs :
    /\ forwarded[r] # <<>> => Recorded(r) /\ Persisted(r) = All(r)
    /\ forwarded[r] = [i \in 1 .. Len(forwarded[r]) |-> i - 1]
    /\ pc[r] = "ok" /\ r \in Attached /\ execution[r].status.kind = "complete" =>
         Len(forwarded[r]) = Last(r) + 1

(* A recorded verdict speaks for every Verifier that was configured: no    *)
(* positive judgement is recorded over a dissenting, a failed, a late or a *)
(* malformed Verifier.                                                     *)
VerdictUnanimous ==
  \A r \in Runs : exePhase[r] # "idle" =>
    /\ execution[r].status.valid =>
         \A i \in VerifiersOf(r) : verdict[r][i] \in {<<TRUE, TRUE>>, <<TRUE, FALSE>>}
    /\ execution[r].status.correct =>
         \A i \in VerifiersOf(r) : verdict[r][i] \in {<<TRUE, TRUE>>, <<FALSE, TRUE>>}

(* What the caller is told: Ok only for a run whose record is in the log,  *)
(* and Err for a run of which the log keeps a record only if the Batcher   *)
(* was gone.                                                               *)
OutcomeTold ==
  \A r \in Runs :
    /\ pc[r] = "ok" => Recorded(r)
    /\ pc[r] = "err" /\ Recorded(r) => batcher = "gone" /\ execution[r].status.kind = "complete"

(* into_execution: what of a record loads with it.                         *)
Rejoined(r) == {i \in execution[r].names : <<r, i>> \in Attested!Loaded}

(* load_execution rejoins: while no append failed or overlapped another,   *)
(* every record that was written loads with all the attestations it names. *)
CleanRunsRejoin ==
  Attested!FailedRecords \cup Executed!FailedRecords \cup attOverlapped \cup exeOverlapped = {} =>
    \A r \in Runs : Recorded(r) =>
      r \in Executed!Loaded /\ Rejoined(r) = execution[r].names

(* Agents may hang: every run that was started ends all the same.          *)
EveryRunEnds == \A r \in Runs : pc[r] = "worker" ~> pc[r] \in Ended

(* parallel.rs:158: every produced attestation is persisted.  A run that   *)
(* returns Ok has persisted all that was produced in it.                   *)
EveryProducedPersisted == \A r \in Runs : pc[r] = "ok" => Produced(r) \subseteq Persisted(r)

(* dispatcher.rs:137-139: every attestation produced by a run is forwarded *)
(* to the Batcher that is attached.                                        *)
EveryProducedForwarded ==
  \A r \in Attached : pc[r] = "ok" =>
    \A i \in Produced(r) : \E k \in DOMAIN forwarded[r] : forwarded[r][k] = i
=============================================================================
