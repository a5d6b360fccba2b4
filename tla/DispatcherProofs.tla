-------------------------- MODULE DispatcherProofs --------------------------
(***************************************************************************)
(* Theorems about Dispatcher, for any number of runs and Verifiers and any *)
(* number of overlapping appends: its type invariant, and what the logs,   *)
(* the Batcher and the caller are told of a run.                           *)
(***************************************************************************)
EXTENDS Dispatcher, FiniteSetTheorems, SequenceTheorems, TLAPS

Phases == {"idle", "written", "acked", "failed"}

LEMMA FiniteLogs == IsFiniteSet(RunAttestations) /\ IsFiniteSet(Runs)
<1>1. IsFiniteSet(0 .. MaxVerifiers)
  BY FS_Interval, DispatcherAssumption
<1> QED
  BY <1>1, FS_Product, DispatcherAssumption DEF RunAttestations

(* One record of a log moves on: the bound on appends in progress is kept  *)
(* if it was not yet reached, or if the record leaves them.                *)
LEMMA PhaseStep ==
  ASSUME NEW R, IsFiniteSet(R), NEW M \in Nat,
         NEW ph \in [R -> Phases], NEW ph2, NEW r \in R, NEW p \in Phases,
         ph2 = [ph EXCEPT ![r] = p],
         NEW old \in SUBSET R, \A q \in R : q \in old <=> ph[q] = "written",
         NEW new \in SUBSET R, \A q \in R : q \in new <=> ph2[q] = "written",
         Cardinality(old) <= M,
         p = "written" => Cardinality(old) < M
  PROVE  ph2 \in [R -> Phases] /\ Cardinality(new) <= M
<1>1. old \subseteq R /\ new \subseteq R
  OBVIOUS
<1>2. IsFiniteSet(old) /\ IsFiniteSet(new)
  BY <1>1, FS_Subset
<1>3. Cardinality(old) \in Nat /\ Cardinality(new) \in Nat
  BY <1>2, FS_CardinalityType
<1>4. ph2 \in [R -> Phases]
  OBVIOUS
<1>5. CASE p = "written"
  <2> DEFINE more == old \cup {r}
  <2>1. new \subseteq more
    OBVIOUS
  <2>2. IsFiniteSet(more) /\ (Cardinality(more) = Cardinality(old) \/ Cardinality(more) = Cardinality(old) + 1)
    BY <1>2, FS_AddElement
  <2> HIDE DEF more
  <2>3. Cardinality(new) <= Cardinality(more)
    BY <2>1, <2>2, FS_Subset
  <2> QED
    BY <1>3, <1>4, <1>5, <2>2, <2>3
<1>6. CASE p # "written"
  <2>1. new \subseteq old
    BY <1>6
  <2>2. Cardinality(new) <= Cardinality(old)
    BY <2>1, <1>2, FS_Subset
  <2> QED
    BY <1>3, <1>4, <2>2
<1> QED
  BY <1>5, <1>6

(* What the actions of a log do to the record they are about. *)
LEMMA AttestedEffect ==
  ASSUME Attested!JsonlTypeOK, NEW a \in RunAttestations
  PROVE  /\ Attested!WriteRecord(a) =>
              attPhase[a] = "idle" /\ attPhase' = [attPhase EXCEPT ![a] = "written"]
         /\ Attested!WriteNewline(a) =>
              attPhase[a] = "written" /\ attPhase' = [attPhase EXCEPT ![a] = "acked"]
         /\ Attested!FailRecord(a) \/ Attested!FailNewline(a) =>
              /\ attPhase[a] \in {"idle", "written"}
              /\ attPhase' = [attPhase EXCEPT ![a] = "failed"]
         /\ (\/ Attested!WriteRecord(a) \/ Attested!WriteNewline(a)
             \/ Attested!FailRecord(a) \/ Attested!FailNewline(a)) => Attested!JsonlTypeOK'
<1>1. /\ Attested!WriteRecord(a) =>
           attPhase[a] = "idle" /\ attPhase' = [attPhase EXCEPT ![a] = "written"]
      /\ Attested!WriteNewline(a) =>
           attPhase[a] = "written" /\ attPhase' = [attPhase EXCEPT ![a] = "acked"]
      /\ Attested!FailRecord(a) \/ Attested!FailNewline(a) =>
           /\ attPhase[a] \in {"idle", "written"}
           /\ attPhase' = [attPhase EXCEPT ![a] = "failed"]
  BY DEF Attested!WriteRecord, Attested!WriteNewline, Attested!FailRecord,
         Attested!FailNewline, Attested!MayBegin
<1>2. ASSUME \/ Attested!WriteRecord(a) \/ Attested!WriteNewline(a)
             \/ Attested!FailRecord(a) \/ Attested!FailNewline(a)
      PROVE  Attested!JsonlTypeOK'
  <2>1. /\ attFile' \in Seq(Attested!Chunks)
        /\ attOverlapped' \subseteq RunAttestations
    BY <1>2 DEF Attested!WriteRecord, Attested!WriteNewline, Attested!FailRecord,
                Attested!FailNewline, Attested!Write, Attested!Chunks, Attested!InProgress,
                Attested!JsonlTypeOK
  <2>2. PICK p \in Phases : /\ attPhase' = [attPhase EXCEPT ![a] = p]
                            /\ p = "written" => Attested!WriteRecord(a)
    BY <1>1, <1>2 DEF Phases
  <2>3. p = "written" => Cardinality(Attested!InProgress) < MaxOverlap
    BY <2>2 DEF Attested!WriteRecord, Attested!MayBegin, Attested!Cardinality, Cardinality,
                Attested!IsFiniteSet, IsFiniteSet
  <2> DEFINE old == {q \in RunAttestations : attPhase[q] = "written"}
             new == {q \in RunAttestations : attPhase'[q] = "written"}
  <2>4. /\ attPhase \in [RunAttestations -> Phases]
        /\ Cardinality(old) <= MaxOverlap
        /\ p = "written" => Cardinality(old) < MaxOverlap
    BY <2>3 DEF Attested!JsonlTypeOK, Attested!InProgress, Phases, Attested!Cardinality, Cardinality,
                Attested!IsFiniteSet, IsFiniteSet
  <2>5. attPhase' \in [RunAttestations -> Phases] /\ Cardinality(new) <= MaxOverlap
    <3>1. MaxOverlap \in Nat /\ IsFiniteSet(RunAttestations)
      BY DispatcherAssumption, FiniteLogs
    <3>2. /\ old \in SUBSET RunAttestations /\ \A q \in RunAttestations : q \in old <=> attPhase[q] = "written"
          /\ new \in SUBSET RunAttestations /\ \A q \in RunAttestations : q \in new <=> attPhase'[q] = "written"
      OBVIOUS
    <3> HIDE DEF old, new
    <3> QED
      BY <2>2, <2>4, <3>1, <3>2, PhaseStep
  <2> QED
    BY <2>1, <2>5 DEF Attested!JsonlTypeOK, Attested!InProgress, Phases,
                      Attested!Cardinality, Cardinality, Attested!IsFiniteSet, IsFiniteSet
<1> QED
  BY <1>1, <1>2

LEMMA ExecutedEffect ==
  ASSUME Executed!JsonlTypeOK, NEW r \in Runs
  PROVE  /\ Executed!WriteRecord(r) =>
              exePhase[r] = "idle" /\ exePhase' = [exePhase EXCEPT ![r] = "written"]
         /\ Executed!WriteNewline(r) =>
              exePhase[r] = "written" /\ exePhase' = [exePhase EXCEPT ![r] = "acked"]
         /\ Executed!FailRecord(r) \/ Executed!FailNewline(r) =>
              /\ exePhase[r] \in {"idle", "written"}
              /\ exePhase' = [exePhase EXCEPT ![r] = "failed"]
         /\ (\/ Executed!WriteRecord(r) \/ Executed!WriteNewline(r)
             \/ Executed!FailRecord(r) \/ Executed!FailNewline(r)) => Executed!JsonlTypeOK'
<1>1. /\ Executed!WriteRecord(r) =>
           exePhase[r] = "idle" /\ exePhase' = [exePhase EXCEPT ![r] = "written"]
      /\ Executed!WriteNewline(r) =>
           exePhase[r] = "written" /\ exePhase' = [exePhase EXCEPT ![r] = "acked"]
      /\ Executed!FailRecord(r) \/ Executed!FailNewline(r) =>
           /\ exePhase[r] \in {"idle", "written"}
           /\ exePhase' = [exePhase EXCEPT ![r] = "failed"]
  BY DEF Executed!WriteRecord, Executed!WriteNewline, Executed!FailRecord,
         Executed!FailNewline, Executed!MayBegin
<1>2. ASSUME \/ Executed!WriteRecord(r) \/ Executed!WriteNewline(r)
             \/ Executed!FailRecord(r) \/ Executed!FailNewline(r)
      PROVE  Executed!JsonlTypeOK'
  <2>1. /\ exeFile' \in Seq(Executed!Chunks)
        /\ exeOverlapped' \subseteq Runs
    BY <1>2 DEF Executed!WriteRecord, Executed!WriteNewline, Executed!FailRecord,
                Executed!FailNewline, Executed!Write, Executed!Chunks, Executed!InProgress,
                Executed!JsonlTypeOK
  <2>2. PICK p \in Phases : /\ exePhase' = [exePhase EXCEPT ![r] = p]
                            /\ p = "written" => Executed!WriteRecord(r)
    BY <1>1, <1>2 DEF Phases
  <2>3. p = "written" => Cardinality(Executed!InProgress) < MaxOverlap
    BY <2>2 DEF Executed!WriteRecord, Executed!MayBegin, Executed!Cardinality, Cardinality,
                Executed!IsFiniteSet, IsFiniteSet
  <2> DEFINE old == {q \in Runs : exePhase[q] = "written"}
             new == {q \in Runs : exePhase'[q] = "written"}
  <2>4. /\ exePhase \in [Runs -> Phases]
        /\ Cardinality(old) <= MaxOverlap
        /\ p = "written" => Cardinality(old) < MaxOverlap
    BY <2>3 DEF Executed!JsonlTypeOK, Executed!InProgress, Phases, Executed!Cardinality, Cardinality,
                Executed!IsFiniteSet, IsFiniteSet
  <2>5. exePhase' \in [Runs -> Phases] /\ Cardinality(new) <= MaxOverlap
    <3>1. MaxOverlap \in Nat /\ IsFiniteSet(Runs)
      BY DispatcherAssumption, FiniteLogs
    <3>2. /\ old \in SUBSET Runs /\ \A q \in Runs : q \in old <=> exePhase[q] = "written"
          /\ new \in SUBSET Runs /\ \A q \in Runs : q \in new <=> exePhase'[q] = "written"
      OBVIOUS
    <3> HIDE DEF old, new
    <3> QED
      BY <2>2, <2>4, <3>1, <3>2, PhaseStep
  <2> QED
    BY <2>1, <2>5 DEF Executed!JsonlTypeOK, Executed!InProgress, Phases,
                      Executed!Cardinality, Cardinality, Executed!IsFiniteSet, IsFiniteSet
<1> QED
  BY <1>1, <1>2

----------------------------------------------------------------------------
(* The invariant of one run.  First, how far its attestations have come at *)
(* each of its points.                                                     *)
Untouched(r, from) == \A i \in from .. MaxVerifiers : attPhase[<<r, i>>] = "idle"

AttestationsInv(r) ==
  /\ pc[r] \in {"idle", "worker"} => cursor[r] = 0 /\ Untouched(r, 0)
  /\ pc[r] = "persist" =>
       /\ \A i \in 0 .. MaxVerifiers : i < cursor[r] => attPhase[<<r, i>>] = "acked"
       /\ Untouched(r, cursor[r] + 1)
       /\ cursor[r] # 0 => AllAnswered(r)
  /\ pc[r] = "verify" => cursor[r] = 1 /\ attPhase[<<r, 0>>] = "acked" /\ Untouched(r, 1)
  /\ pc[r] = "judge" => cursor[r] = 0 /\ AllAnswered(r) /\ Persisted(r) = All(r)
  /\ pc[r] \in {"worker", "persist", "verify", "judge"} => Last(r) >= 1

(* Then what its record may say, once the run has concluded...             *)
Backed(r) ==
  /\ execution[r].names \subseteq Persisted(r)
  /\ execution[r].status.kind = "complete" =>
       execution[r].names = {0, 1} /\ Persisted(r) = All(r)

Unanimous(r) ==
  /\ execution[r].status.valid =>
       \A i \in VerifiersOf(r) : verdict[r][i] \in {<<TRUE, TRUE>>, <<TRUE, FALSE>>}
  /\ execution[r].status.correct =>
       \A i \in VerifiersOf(r) : verdict[r][i] \in {<<TRUE, TRUE>>, <<FALSE, TRUE>>}

RecordInv(r) ==
  /\ pc[r] \in {"idle", "worker", "persist", "verify", "judge"} => exePhase[r] = "idle"
  /\ pc[r] = "record" \/ exePhase[r] # "idle" => Backed(r) /\ Unanimous(r)
  /\ pc[r] \in {"submit", "ok"} => exePhase[r] = "acked"
  /\ pc[r] = "err" /\ exePhase[r] = "acked" =>
       batcher = "gone" /\ execution[r].status.kind = "complete"

(* ...and what the Batcher has been handed.                                *)
ForwardInv(r) ==
  /\ forwarded[r] = [i \in 1 .. Len(forwarded[r]) |-> i - 1]
  /\ pc[r] \in {"idle", "worker", "persist", "verify", "judge", "record"} => forwarded[r] = <<>>
  /\ pc[r] = "record" /\ execution[r].status.kind = "complete" => cursor[r] = 0
  /\ pc[r] = "submit" => /\ execution[r].status.kind = "complete"
                         /\ Len(forwarded[r]) = cursor[r]
  /\ forwarded[r] # <<>> => exePhase[r] = "acked" /\ execution[r].status.kind = "complete"
  /\ pc[r] = "ok" /\ r \in Attached /\ execution[r].status.kind = "complete" =>
       Len(forwarded[r]) = Last(r) + 1

RunInv(r) == AttestationsInv(r) /\ RecordInv(r) /\ ForwardInv(r)

DispatcherInv == DispatcherTypeOK /\ \A r \in Runs : RunInv(r)

----------------------------------------------------------------------------
(* Type correctness, action by action.                                     *)

LEMMA AttestationsOfRun ==
  ASSUME DispatcherTypeOK, NEW r \in Runs
  PROVE  /\ Last(r) \in Nat /\ cursor[r] \in Nat
         /\ <<r, cursor[r]>> \in RunAttestations
         /\ \A i \in 0 .. MaxVerifiers : <<r, i>> \in RunAttestations
         /\ VerifiersOf(r) = 1 .. Last(r)
         /\ All(r) \subseteq 0 .. MaxVerifiers
BY DispatcherAssumption DEF DispatcherTypeOK, RunAttestations, Last, VerifiersOf, All

LEMMA StatusesAreStatuses ==
  /\ PendingStatus \in Statuses
  /\ Failed("WorkerRunning") \in Statuses /\ Failed("VerifierRunning") \in Statuses
  /\ \A p \in BOOLEAN \X BOOLEAN : Complete(p) \in Statuses
BY DEF Statuses

(* The verdict of a run all of whose Verifiers answered properly.          *)
LEMMA ConsensusIsVerdict ==
  ASSUME DispatcherTypeOK, NEW r \in Runs, Last(r) >= 1, AllAnswered(r),
         \A i \in VerifiersOf(r) : verdict[r][i] # NonVerified
  PROVE  /\ \A i \in VerifiersOf(r) : verdict[r][i] \in Verdicts
         /\ Consensus(r) \in BOOLEAN \X BOOLEAN
<1>1. verdict[r] \in Seq(Verdicts \cup {Unanswered, NonVerified})
  BY DEF DispatcherTypeOK
<1>2. \A i \in VerifiersOf(r) : verdict[r][i] \in Verdicts
  BY <1>1 DEF VerifiersOf, AllAnswered
<1>3. 1 \in VerifiersOf(r)
  <2>1. Last(r) \in Nat /\ VerifiersOf(r) = 1 .. Last(r)
    BY AttestationsOfRun
  <2>2. 1 \in 1 .. Last(r)
    BY <2>1
  <2> QED
    BY <2>1, <2>2
<1> QED
  BY <1>2, <1>3, DispatcherAssumption DEF Consensus

LEMMA TypeInit == DispatcherInit => DispatcherTypeOK
<1> SUFFICES ASSUME DispatcherInit PROVE DispatcherTypeOK
  OBVIOUS
<1>1. \A S : S = {} => Cardinality(S) = 0
  BY FS_EmptySet
<1>2. Attested!JsonlTypeOK
  <2>1. Attested!InProgress = {}
    BY DEF DispatcherInit, Attested!JsonlInit, Attested!InProgress
  <2>2. Cardinality({}) = 0
    BY <1>1
  <2>3. Attested!Cardinality(Attested!InProgress) <= MaxOverlap
    BY <2>1, <2>2, DispatcherAssumption DEF Attested!Cardinality, Cardinality
  <2> QED
    BY <2>3 DEF DispatcherInit, Attested!JsonlInit, Attested!JsonlTypeOK
<1>3. Executed!JsonlTypeOK
  <2>1. Executed!InProgress = {}
    BY DEF DispatcherInit, Executed!JsonlInit, Executed!InProgress
  <2>2. Cardinality({}) = 0
    BY <1>1
  <2>3. Executed!Cardinality(Executed!InProgress) <= MaxOverlap
    BY <2>1, <2>2, DispatcherAssumption DEF Executed!Cardinality, Cardinality
  <2> QED
    BY <2>3 DEF DispatcherInit, Executed!JsonlInit, Executed!JsonlTypeOK
<1>4. \A r \in Runs : cursor[r] <= Last(r) /\ Last(r) <= MaxVerifiers
  BY DispatcherAssumption DEF DispatcherInit, Last
<1>5. execution \in [Runs -> [status : Statuses, names : SUBSET {0, 1}]]
  BY StatusesAreStatuses DEF DispatcherInit
<1> QED
  BY <1>2, <1>3, <1>4, <1>5 DEF DispatcherInit, DispatcherTypeOK, Points

LEMMA LogsUnchanged ==
  /\ Attested!JsonlTypeOK /\ UNCHANGED attVars => Attested!JsonlTypeOK'
  /\ Executed!JsonlTypeOK /\ UNCHANGED exeVars => Executed!JsonlTypeOK'
<1>1. Attested!JsonlTypeOK /\ UNCHANGED attVars => Attested!JsonlTypeOK'
  BY DEF attVars, Attested!JsonlTypeOK, Attested!InProgress, Attested!Cardinality
<1>2. Executed!JsonlTypeOK /\ UNCHANGED exeVars => Executed!JsonlTypeOK'
  BY DEF exeVars, Executed!JsonlTypeOK, Executed!InProgress, Executed!Cardinality
<1> QED
  BY <1>1, <1>2

RunStep(r) ==
  \/ \E n \in VerifierCounts[r] : Start(r, n)
  \/ Proceed(r) \/ Cancel(r) \/ Die(r)
  \/ WorkerAnswers(r) \/ LoseAttestation(r) \/ LoseExecution(r)
  \/ \E i \in VerifiersOf(r), v \in Verdicts \cup {NonVerified} : VerifierAnswers(r, i, v)

(* What is said of the judge needs AttestationsInv: without the answers of *)
(* all Verifiers there is no verdict to record.                            *)
LEMMA TypeStep == DispatcherInv /\ [DispatcherNext]_dispatchVars => DispatcherTypeOK'
<1> SUFFICES ASSUME DispatcherInv, [DispatcherNext]_dispatchVars PROVE DispatcherTypeOK'
  OBVIOUS
<1> USE DEF DispatcherInv
<1>l. Attested!JsonlTypeOK /\ Executed!JsonlTypeOK
  BY DEF DispatcherTypeOK
<1>1. ASSUME NEW r \in Runs, NEW n \in VerifierCounts[r], Start(r, n) PROVE DispatcherTypeOK'
  <2>1. n \in 0 .. MaxVerifiers /\ n \in Nat
    BY DispatcherAssumption
  <2>2. [i \in 1 .. n |-> Unanswered] \in Seq(Verdicts \cup {Unanswered, NonVerified})
        /\ Len([i \in 1 .. n |-> Unanswered]) = n
    <3> DEFINE none == [i \in 1 .. n |-> Unanswered]
    <3>1. none \in [1 .. n -> Verdicts \cup {Unanswered, NonVerified}]
      OBVIOUS
    <3>2. none \in Seq(Verdicts \cup {Unanswered, NonVerified})
      BY <2>1, <3>1, SeqDef
    <3>3. DOMAIN none = 1 .. n /\ DOMAIN none = 1 .. Len(none) /\ Len(none) \in Nat
      BY <3>2, LenProperties
    <3> QED
      BY <2>1, <3>2, <3>3
  <2>3. /\ pc' \in [Runs -> Points]
        /\ execution' \in [Runs -> [status : Statuses, names : SUBSET {0, 1}]]
    <3>1. CASE n = 0
      <4>1. pc' = [pc EXCEPT ![r] = "record"]
            /\ execution' = [execution EXCEPT ![r] = [status |-> Failed("VerifierRunning"), names |-> {}]]
        BY <1>1, <3>1 DEF Start, FinalizeFailure, Conclude, GoTo
      <4>2. [status |-> Failed("VerifierRunning"), names |-> {}] \in [status : Statuses, names : SUBSET {0, 1}]
        BY StatusesAreStatuses
      <4> QED
        BY <4>1, <4>2 DEF DispatcherTypeOK, Points
    <3>2. CASE n # 0
      BY <1>1, <3>2 DEF Start, GoTo, DispatcherTypeOK, Points
    <3> QED
      BY <3>1, <3>2
  <2>4. /\ verdict' \in [Runs -> Seq(Verdicts \cup {Unanswered, NonVerified})]
        /\ Len(verdict'[r]) = n /\ \A q \in Runs \ {r} : verdict'[q] = verdict[q]
    BY <1>1, <2>2 DEF Start, DispatcherTypeOK
  <2>5. UNCHANGED <<cursor, forwarded, batcher, attVars, exeVars>> /\ cursor[r] = 0
    BY <1>1 DEF Start, logVars, RunInv, AttestationsInv
  <2>6. \A q \in Runs : cursor'[q] <= Len(verdict'[q]) /\ Len(verdict'[q]) <= MaxVerifiers
    <3>1. ASSUME NEW q \in Runs, q # r
          PROVE  cursor'[q] <= Len(verdict'[q]) /\ Len(verdict'[q]) <= MaxVerifiers
      <4>1. verdict'[q] = verdict[q] /\ cursor'[q] = cursor[q]
        BY <2>4, <2>5, <3>1
      <4>2. cursor[q] <= Len(verdict[q]) /\ Len(verdict[q]) <= MaxVerifiers
        BY DEF DispatcherTypeOK, Last
      <4> QED
        BY <4>1, <4>2
    <3>2. cursor'[r] = 0 /\ Len(verdict'[r]) = n /\ 0 <= n /\ n <= MaxVerifiers
      BY <2>1, <2>4, <2>5
    <3> QED
      BY <3>1, <3>2
  <2> QED
    BY <1>l, <2>3, <2>4, <2>5, <2>6, LogsUnchanged DEF DispatcherTypeOK, Last
<1>2. ASSUME NEW r \in Runs, WorkerAnswers(r) \/ VerifiersJoin(r) \/ SubmitFails(r)
                              \/ Cancel(r) \/ Die(r)
      PROVE  DispatcherTypeOK'
  <2>1. pc' \in [Runs -> Points]
    BY <1>2 DEF WorkerAnswers, VerifiersJoin, SubmitFails, Cancel, Die, GoTo, DispatcherTypeOK,
                Points
  <2>2. UNCHANGED <<cursor, verdict, execution, forwarded, batcher, attVars, exeVars>>
    BY <1>2 DEF WorkerAnswers, VerifiersJoin, SubmitFails, Cancel, Die, logVars
  <2> QED
    BY <1>l, <2>1, <2>2, LogsUnchanged DEF DispatcherTypeOK, Last
<1>3. ASSUME NEW r \in Runs, WorkerFails(r) \/ VerifierFails(r) PROVE DispatcherTypeOK'
  <2>1. UNCHANGED <<cursor, verdict, forwarded, batcher, attVars, exeVars>>
    BY <1>3 DEF WorkerFails, VerifierFails, logVars
  <2>2. \E stage \in {"WorkerRunning", "VerifierRunning"}, names \in SUBSET {0, 1} :
           FinalizeFailure(r, stage, names)
    BY <1>3 DEF WorkerFails, VerifierFails
  <2>3. /\ pc' \in [Runs -> Points]
        /\ execution' \in [Runs -> [status : Statuses, names : SUBSET {0, 1}]]
    BY <2>2, StatusesAreStatuses DEF FinalizeFailure, Conclude, GoTo, DispatcherTypeOK, Points
  <2> QED
    BY <1>l, <2>1, <2>3, LogsUnchanged DEF DispatcherTypeOK, Last
<1>4. ASSUME NEW r \in Runs, NEW i \in VerifiersOf(r), NEW v \in Verdicts \cup {NonVerified},
             VerifierAnswers(r, i, v)
      PROVE  DispatcherTypeOK'
  <2>1. /\ [verdict[r] EXCEPT ![i] = v] \in Seq(Verdicts \cup {Unanswered, NonVerified})
        /\ Len([verdict[r] EXCEPT ![i] = v]) = Len(verdict[r])
    BY DEF DispatcherTypeOK, VerifiersOf
  <2> QED
    BY <1>4, <1>l, <2>1, LogsUnchanged DEF VerifierAnswers, DispatcherTypeOK, Last, logVars
<1>5. ASSUME NEW r \in Runs, WriteAttestation(r) \/ LoseAttestation(r) PROVE DispatcherTypeOK'
  <2>1. pc' \in [Runs -> Points]
    BY <1>5 DEF WriteAttestation, LoseAttestation, GoTo, runVars, DispatcherTypeOK, Points
  <2>2. UNCHANGED <<cursor, verdict, execution, forwarded, batcher, exeVars>>
    BY <1>5 DEF WriteAttestation, LoseAttestation, runVars
  <2>3. Attested!JsonlTypeOK'
    BY <1>5, <1>l, AttestationsOfRun, AttestedEffect DEF WriteAttestation, LoseAttestation
  <2> QED
    BY <1>l, <2>1, <2>2, <2>3, LogsUnchanged DEF DispatcherTypeOK, Last
<1>6. ASSUME NEW r \in Runs, AckAttestation(r) PROVE DispatcherTypeOK'
  <2>1. pc' \in [Runs -> Points]
    BY <1>6 DEF AckAttestation, GoTo, DispatcherTypeOK, Points
  <2>2. cursor' \in [Runs -> Nat] /\ \A q \in Runs : cursor'[q] <= Last(q)
    <3>1. \A q \in Runs : cursor[q] \in Nat /\ Last(q) \in Nat /\ cursor[q] <= Last(q)
      BY AttestationsOfRun DEF DispatcherTypeOK
    <3>2. cursor \in [Runs -> Nat]
      BY DEF DispatcherTypeOK
    <3>3. \E c \in Nat : cursor' = [cursor EXCEPT ![r] = c] /\ c <= Last(r)
      BY <1>6, <3>1 DEF AckAttestation, IsLast, FirstToSubmit
    <3> QED
      BY <3>1, <3>2, <3>3
  <2>3. Attested!JsonlTypeOK'
    BY <1>6, <1>l, AttestationsOfRun, AttestedEffect DEF AckAttestation
  <2>4. UNCHANGED <<verdict, execution, forwarded, batcher, exeVars>>
    BY <1>6 DEF AckAttestation
  <2> QED
    BY <1>l, <2>1, <2>2, <2>3, <2>4, LogsUnchanged DEF DispatcherTypeOK, Last
<1>7. ASSUME NEW r \in Runs, Judge(r) PROVE DispatcherTypeOK'
  <2>1. Last(r) >= 1 /\ AllAnswered(r)
    BY <1>7 DEF Judge, RunInv, AttestationsInv
  <2>2. UNCHANGED <<cursor, verdict, forwarded, batcher, attVars, exeVars>>
    BY <1>7 DEF Judge, Malformed, logVars
  <2>3. \E status \in Statuses : Conclude(r, status, {0, 1})
    <3>1. CASE \E i \in VerifiersOf(r) : verdict[r][i] = NonVerified
      BY <1>7, <3>1, StatusesAreStatuses DEF Judge, Malformed, FinalizeFailure
    <3>2. CASE ~ \E i \in VerifiersOf(r) : verdict[r][i] = NonVerified
      <4>1. Consensus(r) \in BOOLEAN \X BOOLEAN
        BY <2>1, <3>2, ConsensusIsVerdict
      <4> QED
        BY <1>7, <3>2, <4>1, StatusesAreStatuses DEF Judge, Malformed
    <3> QED
      BY <3>1, <3>2
  <2>4. /\ pc' \in [Runs -> Points]
        /\ execution' \in [Runs -> [status : Statuses, names : SUBSET {0, 1}]]
    BY <2>3 DEF Conclude, GoTo, DispatcherTypeOK, Points
  <2> QED
    BY <1>l, <2>2, <2>4, LogsUnchanged DEF DispatcherTypeOK, Last
<1>8. ASSUME NEW r \in Runs, WriteExecution(r) \/ AckExecution(r) \/ LoseExecution(r)
      PROVE  DispatcherTypeOK'
  <2>1. pc' \in [Runs -> Points]
    BY <1>8 DEF WriteExecution, AckExecution, LoseExecution, GoTo, runVars, DispatcherTypeOK,
                Points
  <2>2. UNCHANGED <<cursor, verdict, execution, forwarded, batcher, attVars>>
    BY <1>8 DEF WriteExecution, AckExecution, LoseExecution, runVars
  <2>3. Executed!JsonlTypeOK'
    BY <1>8, <1>l, ExecutedEffect DEF WriteExecution, AckExecution, LoseExecution
  <2> QED
    BY <1>l, <2>1, <2>2, <2>3, LogsUnchanged DEF DispatcherTypeOK, Last
<1>9. ASSUME NEW r \in Runs, Submit(r) PROVE DispatcherTypeOK'
  <2>1. UNCHANGED <<verdict, execution, batcher, attVars, exeVars>>
    BY <1>9 DEF Submit, logVars
  <2>2. pc' \in [Runs -> Points] /\ forwarded' \in [Runs -> Seq(Nat)]
    <3>1. pc' \in [Runs -> Points]
      BY <1>9 DEF Submit, GoTo, DispatcherTypeOK, Points
    <3>2. forwarded' = [forwarded EXCEPT ![r] = Append(forwarded[r], cursor[r])]
      BY <1>9 DEF Submit
    <3>3. forwarded \in [Runs -> Seq(Nat)] /\ cursor[r] \in Nat
      BY DEF DispatcherTypeOK
    <3>4. Append(forwarded[r], cursor[r]) \in Seq(Nat)
      BY <3>3
    <3> QED
      BY <3>1, <3>2, <3>3, <3>4
  <2>3. \A q \in Runs : cursor[q] \in Nat /\ Last(q) \in Nat /\ cursor[q] <= Last(q)
    BY AttestationsOfRun DEF DispatcherTypeOK
  <2>4. cursor' \in [Runs -> Nat] /\ \A q \in Runs : cursor'[q] <= Last(q)
    <3>1. cursor \in [Runs -> Nat]
      BY DEF DispatcherTypeOK
    <3>2. \/ UNCHANGED cursor
          \/ cursor' = [cursor EXCEPT ![r] = cursor[r] + 1] /\ cursor[r] # Last(r)
      BY <1>9 DEF Submit, IsLast
    <3> QED
      BY <2>3, <3>1, <3>2
  <2> QED
    BY <1>l, <2>1, <2>2, <2>4, LogsUnchanged DEF DispatcherTypeOK, Last
<1>10. CASE BatcherDies
  BY <1>10, <1>l, LogsUnchanged DEF BatcherDies, runVars, DispatcherTypeOK, Last, logVars
<1>11. CASE UNCHANGED dispatchVars
  BY <1>11, <1>l, LogsUnchanged DEF dispatchVars, runVars, DispatcherTypeOK, Last
<1> QED
  BY <1>1, <1>2, <1>3, <1>4, <1>5, <1>6, <1>7, <1>8, <1>9, <1>10, <1>11
     DEF DispatcherNext, Proceed

----------------------------------------------------------------------------
(* What the invariant of a run reads: if none of it changes, but for the   *)
(* Batcher's death, the invariant is kept.                                 *)
SameVerdicts(r) == verdict'[r] = verdict[r]
SameAppends(r)  == \A i \in 0 .. MaxVerifiers : attPhase'[<<r, i>>] = attPhase[<<r, i>>]
SameRecord(r)   == execution'[r] = execution[r] /\ exePhase'[r] = exePhase[r]
BatcherMayDie   == batcher' = batcher \/ batcher' = "gone"

LEMMA VerdictsRead ==
  ASSUME NEW r \in Runs, SameVerdicts(r)
  PROVE  /\ VerifiersOf(r)' = VerifiersOf(r) /\ Last(r)' = Last(r) /\ All(r)' = All(r)
         /\ AllAnswered(r)' <=> AllAnswered(r)
BY DEF SameVerdicts, VerifiersOf, Last, All, AllAnswered

LEMMA AppendsRead ==
  ASSUME DispatcherTypeOK, NEW r \in Runs, SameVerdicts(r), SameAppends(r)
  PROVE  /\ Persisted(r)' = Persisted(r)
         /\ \A i \in 0 .. MaxVerifiers : attPhase'[<<r, i>>] = attPhase[<<r, i>>]
<1>1. All(r)' = All(r) /\ All(r) \subseteq 0 .. MaxVerifiers
  BY VerdictsRead, AttestationsOfRun
<1> QED
  BY <1>1 DEF SameAppends, Persisted

LEMMA RecordRead ==
  ASSUME DispatcherTypeOK, NEW r \in Runs, SameVerdicts(r), SameAppends(r),
         execution'[r] = execution[r], Backed(r), Unanimous(r)
  PROVE  Backed(r)' /\ Unanimous(r)'
<1>1. Backed(r)'
  BY VerdictsRead, AppendsRead DEF Backed
<1>2. Unanimous(r)'
  BY VerdictsRead DEF Unanimous, SameVerdicts
<1> QED
  BY <1>1, <1>2

LEMMA Frame ==
  ASSUME DispatcherTypeOK, NEW r \in Runs, RunInv(r),
         pc'[r] = pc[r], cursor'[r] = cursor[r], forwarded'[r] = forwarded[r],
         SameVerdicts(r), SameAppends(r), SameRecord(r), BatcherMayDie
  PROVE  RunInv(r)'
<1>1. AttestationsInv(r)'
  <2>1. /\ VerifiersOf(r)' = VerifiersOf(r) /\ Last(r)' = Last(r) /\ All(r)' = All(r)
        /\ AllAnswered(r)' <=> AllAnswered(r)
        /\ Persisted(r)' = Persisted(r)
    BY VerdictsRead, AppendsRead
  <2>2. \A i \in 0 .. MaxVerifiers : attPhase'[<<r, i>>] = attPhase[<<r, i>>]
    BY DEF SameAppends
  <2>3. /\ (pc[r] \in {"idle", "worker"} => cursor[r] = 0 /\ Untouched(r, 0))'
        /\ (pc[r] = "verify" => cursor[r] = 1 /\ attPhase[<<r, 0>>] = "acked" /\ Untouched(r, 1))'
    BY <2>2, DispatcherAssumption DEF RunInv, AttestationsInv, Untouched
  <2>4. (pc[r] = "persist" =>
           /\ \A i \in 0 .. MaxVerifiers : i < cursor[r] => attPhase[<<r, i>>] = "acked"
           /\ Untouched(r, cursor[r] + 1)
           /\ cursor[r] # 0 => AllAnswered(r))'
    <3>1. cursor[r] \in Nat
      BY DEF DispatcherTypeOK
    <3> QED
      BY <2>1, <2>2, <3>1, DispatcherAssumption DEF RunInv, AttestationsInv, Untouched
  <2> QED
    BY <2>1, <2>3, <2>4 DEF RunInv, AttestationsInv
<1>2. RecordInv(r)'
  BY RecordRead DEF RunInv, RecordInv, SameRecord, BatcherMayDie
<1>3. ForwardInv(r)'
  BY VerdictsRead DEF RunInv, ForwardInv, SameRecord
<1> QED
  BY <1>1, <1>2, <1>3 DEF RunInv

(* An append of r touches no other attestation and no other run. *)
LEMMA AppendOf ==
  ASSUME DispatcherTypeOK, NEW r \in Runs, NEW c \in 0 .. MaxVerifiers, NEW p,
         attPhase' = [attPhase EXCEPT ![<<r, c>>] = p]
  PROVE  /\ attPhase'[<<r, c>>] = p
         /\ \A i \in 0 .. MaxVerifiers : i # c => attPhase'[<<r, i>>] = attPhase[<<r, i>>]
         /\ \A q \in Runs \ {r} : SameAppends(q)
<1>1. DOMAIN attPhase = RunAttestations
  BY DEF DispatcherTypeOK, Attested!JsonlTypeOK
<1>2. \A q \in Runs, i \in 0 .. MaxVerifiers : <<q, i>> \in RunAttestations
  BY DEF RunAttestations
<1> QED
  BY <1>1, <1>2 DEF SameAppends

(* A step of one run leaves the others as they are. *)
LEMMA OthersStay ==
  ASSUME DispatcherInv, NEW r \in Runs, RunStep(r), NEW q \in Runs \ {r}
  PROVE  RunInv(q)'
<1> USE DEF DispatcherInv
<1>1. pc'[q] = pc[q]
  BY DEF RunStep, Proceed, Start, WorkerAnswers, WorkerFails, VerifierAnswers, VerifierFails,
         VerifiersJoin, WriteAttestation, AckAttestation, LoseAttestation, Judge,
         WriteExecution, AckExecution, LoseExecution, Submit, SubmitFails, Cancel, Die,
         FinalizeFailure, Conclude, GoTo, runVars, DispatcherTypeOK
<1>2. cursor'[q] = cursor[q]
  BY DEF RunStep, Proceed, Start, WorkerAnswers, WorkerFails, VerifierAnswers, VerifierFails,
         VerifiersJoin, WriteAttestation, AckAttestation, LoseAttestation, Judge,
         WriteExecution, AckExecution, LoseExecution, Submit, SubmitFails, Cancel, Die,
         runVars, DispatcherTypeOK
<1>3. forwarded'[q] = forwarded[q]
  BY DEF RunStep, Proceed, Start, WorkerAnswers, WorkerFails, VerifierAnswers, VerifierFails,
         VerifiersJoin, WriteAttestation, AckAttestation, LoseAttestation, Judge,
         WriteExecution, AckExecution, LoseExecution, Submit, SubmitFails, Cancel, Die,
         DispatcherTypeOK
<1>4. SameVerdicts(q)
  BY DEF RunStep, Proceed, Start, WorkerAnswers, WorkerFails, VerifierAnswers, VerifierFails,
         VerifiersJoin, WriteAttestation, AckAttestation, LoseAttestation, Judge,
         WriteExecution, AckExecution, LoseExecution, Submit, SubmitFails, Cancel, Die,
         runVars, DispatcherTypeOK, SameVerdicts
<1>5. execution'[q] = execution[q]
  BY DEF RunStep, Proceed, Start, WorkerAnswers, WorkerFails, VerifierAnswers, VerifierFails,
         VerifiersJoin, WriteAttestation, AckAttestation, LoseAttestation, Judge,
         WriteExecution, AckExecution, LoseExecution, Submit, SubmitFails, Cancel, Die,
         FinalizeFailure, Conclude, runVars, DispatcherTypeOK
<1>6. BatcherMayDie
  BY DEF RunStep, Proceed, Start, WorkerAnswers, WorkerFails, VerifierAnswers, VerifierFails,
         VerifiersJoin, WriteAttestation, AckAttestation, LoseAttestation, Judge,
         WriteExecution, AckExecution, LoseExecution, Submit, SubmitFails, Cancel, Die,
         BatcherMayDie
<1>7. exePhase'[q] = exePhase[q]
  <2>1. CASE UNCHANGED exeVars
    BY <2>1 DEF exeVars
  <2>2. CASE WriteExecution(r) \/ AckExecution(r) \/ LoseExecution(r)
    <3>1. Executed!JsonlTypeOK /\ exePhase \in [Runs -> Phases]
      BY DEF DispatcherTypeOK, Executed!JsonlTypeOK, Phases
    <3>2. \E p : exePhase' = [exePhase EXCEPT ![r] = p]
      BY <2>2, <3>1, ExecutedEffect DEF WriteExecution, AckExecution, LoseExecution
    <3> QED
      BY <3>1, <3>2
  <2> QED
    BY <2>1, <2>2 DEF RunStep, Proceed, Start, WorkerAnswers, WorkerFails, VerifierAnswers,
       VerifierFails, VerifiersJoin, WriteAttestation, AckAttestation, LoseAttestation, Judge,
       Submit, SubmitFails, Cancel, Die, logVars
<1>8. SameAppends(q)
  <2>1. CASE UNCHANGED attVars
    BY <2>1 DEF attVars, SameAppends
  <2>2. CASE WriteAttestation(r) \/ AckAttestation(r) \/ LoseAttestation(r)
    <3>1. cursor[r] \in 0 .. MaxVerifiers /\ <<r, cursor[r]>> \in RunAttestations
      BY AttestationsOfRun, DispatcherAssumption DEF DispatcherTypeOK, RunAttestations
    <3>2. \E p : attPhase' = [attPhase EXCEPT ![<<r, cursor[r]>>] = p]
      BY <2>2, <3>1, AttestedEffect
         DEF WriteAttestation, AckAttestation, LoseAttestation, DispatcherTypeOK
    <3> QED
      BY <3>1, <3>2, AppendOf
  <2> QED
    BY <2>1, <2>2 DEF RunStep, Proceed, Start, WorkerAnswers, WorkerFails, VerifierAnswers,
       VerifierFails, VerifiersJoin, WriteExecution, AckExecution, LoseExecution, Judge,
       Submit, SubmitFails, Cancel, Die, logVars
<1> QED
  BY <1>1, <1>2, <1>3, <1>4, <1>5, <1>6, <1>7, <1>8, Frame DEF SameRecord

----------------------------------------------------------------------------
(* A run concludes with a failure, before its record is written. *)
LEMMA FailureKeeps ==
  ASSUME NEW r \in Runs, NEW stage, NEW names,
         pc'[r] = "record", execution'[r] = [status |-> Failed(stage), names |-> names],
         names \subseteq Persisted(r)', exePhase'[r] = "idle",
         forwarded'[r] = forwarded[r], ForwardInv(r), forwarded[r] = <<>>
  PROVE  RunInv(r)'
<1>1. /\ execution'[r].status = Failed(stage) /\ execution'[r].names = names
      /\ Failed(stage).kind = "failed" /\ Failed(stage).valid = FALSE
      /\ Failed(stage).correct = FALSE
  BY DEF Failed
<1>2. AttestationsInv(r)'
  BY DEF AttestationsInv
<1>3. Backed(r)' /\ Unanimous(r)'
  BY <1>1 DEF Backed, Unanimous
<1>4. RecordInv(r)'
  BY <1>3 DEF RecordInv
<1>5. ForwardInv(r)'
  BY <1>1 DEF ForwardInv
<1> QED
  BY <1>2, <1>4, <1>5 DEF RunInv

(* The steps of a run itself: first those of its agents. *)
LEMMA StartKeeps ==
  ASSUME DispatcherInv, NEW r \in Runs, NEW n \in VerifierCounts[r], Start(r, n)
  PROVE  RunInv(r)'
<1> USE DEF DispatcherInv
<1>1. n \in 0 .. MaxVerifiers /\ n \in Nat
  BY DispatcherAssumption
<1>2. /\ SameAppends(r) /\ exePhase'[r] = "idle" /\ forwarded'[r] = forwarded[r]
      /\ forwarded[r] = <<>> /\ cursor'[r] = 0
      /\ \A i \in 0 .. MaxVerifiers : attPhase'[<<r, i>>] = "idle"
  BY DispatcherAssumption
     DEF Start, logVars, attVars, exeVars, SameAppends, RunInv, AttestationsInv, RecordInv,
         ForwardInv, Untouched
<1>3. Last(r)' = n
  <2>1. Last(r)' = Len([i \in 1 .. n |-> Unanswered])
    BY DEF Start, Last, DispatcherTypeOK
  <2> QED
    BY <1>1, <2>1
<1>4. CASE n = 0
  <2>1. pc'[r] = "record" /\ execution'[r] = [status |-> Failed("VerifierRunning"), names |-> {}]
    BY <1>4 DEF Start, FinalizeFailure, Conclude, GoTo, DispatcherTypeOK
  <2> QED
    BY <1>2, <2>1, FailureKeeps DEF RunInv
<1>5. CASE n # 0
  <2>1. pc'[r] = "worker"
    BY <1>5 DEF Start, GoTo, DispatcherTypeOK
  <2> QED
    BY <1>1, <1>2, <1>3, <1>5, <2>1, DispatcherAssumption
       DEF RunInv, AttestationsInv, RecordInv, ForwardInv, Untouched
<1> QED
  BY <1>4, <1>5

LEMMA WorkerKeeps ==
  ASSUME DispatcherInv, NEW r \in Runs, WorkerAnswers(r) \/ WorkerFails(r)
  PROVE  RunInv(r)'
<1> USE DEF DispatcherInv
<1>0. pc[r] = "worker" /\ UNCHANGED <<cursor, verdict, forwarded, attPhase, exePhase>>
  BY DEF WorkerAnswers, WorkerFails, logVars, attVars, exeVars
<1>1. /\ SameVerdicts(r) /\ SameAppends(r) /\ exePhase'[r] = "idle"
      /\ forwarded'[r] = forwarded[r] /\ forwarded[r] = <<>> /\ cursor'[r] = 0
      /\ Last(r) >= 1
      /\ \A i \in 0 .. MaxVerifiers : attPhase'[<<r, i>>] = "idle"
  <2>1. AttestationsInv(r) /\ RecordInv(r) /\ ForwardInv(r)
    BY DEF RunInv
  <2>2. cursor[r] = 0 /\ Last(r) >= 1 /\ \A i \in 0 .. MaxVerifiers : attPhase[<<r, i>>] = "idle"
    BY <1>0, <2>1 DEF AttestationsInv, Untouched
  <2>3. exePhase[r] = "idle"
    BY <1>0, <2>1 DEF RecordInv
  <2>4. forwarded[r] = <<>>
    BY <1>0, <2>1 DEF ForwardInv
  <2> QED
    BY <1>0, <2>2, <2>3, <2>4 DEF SameVerdicts, SameAppends
<1>2. CASE WorkerAnswers(r)
  <2>1. pc'[r] = "persist"
    BY <1>2 DEF WorkerAnswers, GoTo, DispatcherTypeOK
  <2> QED
    BY <1>1, <2>1, VerdictsRead, DispatcherAssumption
       DEF RunInv, AttestationsInv, RecordInv, ForwardInv, Untouched
<1>3. CASE WorkerFails(r)
  <2>1. pc'[r] = "record" /\ execution'[r] = [status |-> Failed("WorkerRunning"), names |-> {}]
    BY <1>3 DEF WorkerFails, FinalizeFailure, Conclude, GoTo, DispatcherTypeOK
  <2> QED
    BY <1>1, <2>1, FailureKeeps DEF RunInv
<1> QED
  BY <1>2, <1>3

LEMMA VerifiersKeep ==
  ASSUME DispatcherInv, NEW r \in Runs,
         \/ VerifierFails(r) \/ VerifiersJoin(r)
         \/ \E i \in VerifiersOf(r), v \in Verdicts \cup {NonVerified} : VerifierAnswers(r, i, v)
  PROVE  RunInv(r)'
<1> USE DEF DispatcherInv
<1>0. pc[r] = "verify" /\ UNCHANGED <<cursor, forwarded, attPhase, exePhase>>
  BY DEF VerifierFails, VerifiersJoin, VerifierAnswers, logVars, attVars, exeVars
<1>1. /\ SameAppends(r) /\ exePhase'[r] = "idle"
      /\ forwarded'[r] = forwarded[r] /\ forwarded[r] = <<>> /\ cursor'[r] = 1
      /\ attPhase'[<<r, 0>>] = "acked" /\ Last(r) >= 1
      /\ \A i \in 1 .. MaxVerifiers : attPhase'[<<r, i>>] = "idle"
  <2>1. AttestationsInv(r) /\ RecordInv(r) /\ ForwardInv(r)
    BY DEF RunInv
  <2>2. /\ cursor[r] = 1 /\ Last(r) >= 1 /\ attPhase[<<r, 0>>] = "acked"
        /\ \A i \in 1 .. MaxVerifiers : attPhase[<<r, i>>] = "idle"
    BY <1>0, <2>1 DEF AttestationsInv, Untouched
  <2>3. exePhase[r] = "idle"
    BY <1>0, <2>1 DEF RecordInv
  <2>4. forwarded[r] = <<>>
    BY <1>0, <2>1 DEF ForwardInv
  <2> QED
    BY <1>0, <2>2, <2>3, <2>4 DEF SameAppends
<1>2. CASE VerifiersJoin(r)
  <2>1. pc'[r] = "persist" /\ SameVerdicts(r) /\ AllAnswered(r)
    BY <1>2 DEF VerifiersJoin, GoTo, DispatcherTypeOK, SameVerdicts
  <2> QED
    BY <1>1, <2>1, VerdictsRead, DispatcherAssumption
       DEF RunInv, AttestationsInv, RecordInv, ForwardInv, Untouched
<1>3. CASE VerifierFails(r)
  <2>1. /\ pc'[r] = "record" /\ SameVerdicts(r)
        /\ execution'[r] = [status |-> Failed("VerifierRunning"), names |-> {0}]
    BY <1>3 DEF VerifierFails, FinalizeFailure, Conclude, GoTo, DispatcherTypeOK, SameVerdicts
  <2>2. {0} \subseteq Persisted(r)'
    <3>1. Last(r)' = Last(r) /\ Last(r) \in Nat
      BY <2>1, AttestationsOfRun, VerdictsRead
    <3>2. 0 \in All(r)'
      BY <3>1 DEF All
    <3> QED
      BY <1>1, <3>2 DEF Persisted
  <2> QED
    BY <1>1, <2>1, <2>2, FailureKeeps DEF RunInv
<1>4. ASSUME NEW i \in VerifiersOf(r), NEW v \in Verdicts \cup {NonVerified}, VerifierAnswers(r, i, v)
      PROVE  RunInv(r)'
  <2>1. pc'[r] = "verify"
    BY <1>4 DEF VerifierAnswers
  <2>2. Last(r)' = Last(r)
    <3>1. verdict'[r] = [verdict[r] EXCEPT ![i] = v]
      BY <1>4 DEF VerifierAnswers, DispatcherTypeOK
    <3>2. Len([verdict[r] EXCEPT ![i] = v]) = Len(verdict[r])
      BY DEF DispatcherTypeOK
    <3> QED
      BY <3>1, <3>2 DEF Last
  <2> QED
    BY <1>1, <2>1, <2>2, DispatcherAssumption
       DEF RunInv, AttestationsInv, RecordInv, ForwardInv, Untouched
<1> QED
  BY <1>2, <1>3, <1>4

(* A run before its record: none is in the log, and nothing is forwarded. *)
LEMMA BeforeRecord ==
  ASSUME NEW r \in Runs, ForwardInv(r),
         pc[r] \in {"idle", "worker", "persist", "verify", "judge", "record"},
         pc'[r] \in {"persist", "verify", "judge", "err", "dropped"},
         exePhase'[r] = "idle", forwarded'[r] = forwarded[r]
  PROVE  RecordInv(r)' /\ ForwardInv(r)'
<1>1. forwarded[r] = <<>>
  BY DEF ForwardInv
<1>2. RecordInv(r)'
  BY DEF RecordInv
<1>3. ForwardInv(r)'
  BY <1>1 DEF ForwardInv
<1> QED
  BY <1>2, <1>3

(* The appends of the attestations, one after the other. *)
LEMMA PersistKeeps ==
  ASSUME DispatcherInv, NEW r \in Runs,
         WriteAttestation(r) \/ AckAttestation(r) \/ LoseAttestation(r)
  PROVE  RunInv(r)'
<1> USE DEF DispatcherInv
<1>1. /\ pc[r] = "persist" /\ UNCHANGED <<verdict, forwarded, exePhase>>
      /\ AttestationsInv(r) /\ RecordInv(r) /\ ForwardInv(r)
  BY DEF WriteAttestation, AckAttestation, LoseAttestation, exeVars, runVars, RunInv
<1>2. exePhase'[r] = "idle"
  BY <1>1 DEF RecordInv
<1>3. /\ cursor[r] \in Nat /\ Last(r) \in Nat /\ cursor[r] <= Last(r) /\ Last(r) <= MaxVerifiers
      /\ cursor[r] \in 0 .. MaxVerifiers /\ <<r, cursor[r]>> \in RunAttestations
  BY AttestationsOfRun, DispatcherAssumption DEF DispatcherTypeOK
<1>4. SameVerdicts(r)
  BY <1>1 DEF SameVerdicts
<1>5. /\ \A i \in 0 .. MaxVerifiers : i < cursor[r] => attPhase[<<r, i>>] = "acked"
      /\ \A i \in 0 .. MaxVerifiers : cursor[r] < i => attPhase[<<r, i>>] = "idle"
      /\ cursor[r] # 0 => AllAnswered(r)
      /\ Last(r) >= 1
  BY <1>1, <1>3 DEF AttestationsInv, Untouched
<1>6. \A i \in 0 .. MaxVerifiers : i # cursor[r] => attPhase'[<<r, i>>] = attPhase[<<r, i>>]
  <2>1. \E p : attPhase' = [attPhase EXCEPT ![<<r, cursor[r]>>] = p]
    BY <1>3, AttestedEffect
       DEF WriteAttestation, AckAttestation, LoseAttestation, DispatcherTypeOK
  <2> QED
    BY <1>3, <2>1, AppendOf
<1>7. CASE WriteAttestation(r)
  <2>1. pc'[r] = "persist" /\ cursor'[r] = cursor[r]
    BY <1>1, <1>7 DEF WriteAttestation, runVars
  <2>2. AttestationsInv(r)'
    BY <1>3, <1>4, <1>5, <1>6, <2>1, VerdictsRead, DispatcherAssumption DEF AttestationsInv, Untouched
  <2> QED
    BY <1>1, <1>2, <2>1, <2>2, BeforeRecord DEF RunInv
<1>8. CASE AckAttestation(r)
  <2>1. attPhase'[<<r, cursor[r]>>] = "acked"
    <3>1. attPhase' = [attPhase EXCEPT ![<<r, cursor[r]>>] = "acked"]
      BY <1>3, <1>8, AttestedEffect DEF AckAttestation, DispatcherTypeOK
    <3>2. attPhase \in [RunAttestations -> Phases]
      BY DEF DispatcherTypeOK, Attested!JsonlTypeOK, Phases
    <3> QED
      BY <1>3, <3>1, <3>2
  <2>2. /\ \A i \in 0 .. MaxVerifiers : i <= cursor[r] => attPhase'[<<r, i>>] = "acked"
        /\ \A i \in 0 .. MaxVerifiers : cursor[r] < i => attPhase'[<<r, i>>] = "idle"
    BY <1>3, <1>5, <1>6, <2>1
  <2>3. CASE IsLast(r)
    <3>1. pc'[r] = "judge" /\ cursor'[r] = 0 /\ cursor[r] = Last(r)
      BY <1>8, <2>3 DEF AckAttestation, IsLast, GoTo, FirstToSubmit, DispatcherTypeOK
    <3>2. Persisted(r)' = All(r)'
      <4>1. All(r)' = 0 .. Last(r)
        BY <1>4, VerdictsRead DEF All
      <4>2. \A i \in 0 .. Last(r) : attPhase'[<<r, i>>] = "acked"
        BY <1>3, <2>2, <3>1, DispatcherAssumption
      <4> QED
        BY <4>1, <4>2 DEF Persisted
    <3>3. AttestationsInv(r)'
      BY <1>4, <1>5, <3>1, <3>2, VerdictsRead DEF AttestationsInv
    <3> QED
      BY <1>1, <1>2, <3>1, <3>3, BeforeRecord DEF RunInv
  <2>4. CASE ~IsLast(r)
    <3>1. /\ pc'[r] = IF cursor[r] = 0 THEN "verify" ELSE "persist"
          /\ cursor'[r] = cursor[r] + 1
      BY <1>1, <1>8, <2>4 DEF AckAttestation, GoTo, DispatcherTypeOK
    <3>2. AttestationsInv(r)'
      BY <1>3, <1>4, <1>5, <2>2, <3>1, VerdictsRead, DispatcherAssumption
         DEF AttestationsInv, Untouched
    <3> QED
      BY <1>1, <1>2, <3>1, <3>2, BeforeRecord DEF RunInv
  <2> QED
    BY <2>3, <2>4
<1>9. CASE LoseAttestation(r)
  <2>1. pc'[r] \in {"err", "dropped"}
    BY <1>9 DEF LoseAttestation, GoTo, DispatcherTypeOK
  <2>2. AttestationsInv(r)'
    BY <2>1 DEF AttestationsInv
  <2> QED
    BY <1>1, <1>2, <2>1, <2>2, BeforeRecord DEF RunInv
<1> QED
  BY <1>7, <1>8, <1>9

(* The status of a run that completes says what its verdict says. *)
LEMMA CompleteSays ==
  ASSUME NEW p \in BOOLEAN \X BOOLEAN
  PROVE  /\ Complete(p).kind = "complete"
         /\ Complete(p).valid => p \in {<<TRUE, TRUE>>, <<TRUE, FALSE>>}
         /\ Complete(p).correct => p \in {<<TRUE, TRUE>>, <<FALSE, TRUE>>}
<1>1. p \in {<<TRUE, TRUE>>, <<TRUE, FALSE>>, <<FALSE, TRUE>>, <<FALSE, FALSE>>}
  <2>1. PICK a \in BOOLEAN, b \in BOOLEAN : p = <<a, b>>
    BY Z3
  <2>2. (a = TRUE \/ a = FALSE) /\ (b = TRUE \/ b = FALSE)
    BY Zenon
  <2> QED
    BY <2>1, <2>2, Zenon
<1>2. /\ Complete(p).kind = "complete" /\ Complete(p).valid = p[1] /\ Complete(p).correct = p[2]
  BY DEF Complete
<1>3. CASE p = <<TRUE, TRUE>>
  BY <1>2, <1>3
<1>4. CASE p = <<TRUE, FALSE>>
  <2>1. p[2] = FALSE
    BY <1>4
  <2>2. Complete(p).correct = FALSE
    BY <1>2, <2>1
  <2> QED
    BY <1>2, <1>4, <2>2
<1>5. CASE p = <<FALSE, TRUE>>
  <2>1. p[1] = FALSE
    BY <1>5
  <2> QED
    BY <1>2, <1>5, <2>1
<1>6. CASE p = <<FALSE, FALSE>>
  <2>1. p[1] = FALSE /\ p[2] = FALSE
    BY <1>6
  <2> QED
    BY <1>2, <2>1
<1> QED
  BY <1>1, <1>2, <1>3, <1>4, <1>5, <1>6

(* The verdict: positive only if every Verifier's is. *)
LEMMA JudgeKeeps ==
  ASSUME DispatcherInv, NEW r \in Runs, Judge(r)
  PROVE  RunInv(r)'
<1> USE DEF DispatcherInv
<1>1. /\ pc[r] = "judge" /\ UNCHANGED <<cursor, verdict, forwarded, attPhase, exePhase>>
      /\ pc'[r] = "record"
      /\ AttestationsInv(r) /\ RecordInv(r) /\ ForwardInv(r)
  BY DEF Judge, Malformed, FinalizeFailure, Conclude, GoTo, logVars, attVars, exeVars, RunInv, DispatcherTypeOK
<1>2. exePhase'[r] = "idle" /\ forwarded[r] = <<>>
  BY <1>1 DEF RecordInv, ForwardInv
<1>3. cursor[r] = 0 /\ AllAnswered(r) /\ Persisted(r) = All(r) /\ Last(r) >= 1
  BY <1>1 DEF AttestationsInv
<1>4. SameVerdicts(r) /\ SameAppends(r)
  BY <1>1 DEF SameVerdicts, SameAppends
<1>5. Persisted(r)' = All(r)' /\ {0, 1} \subseteq All(r)'
  <2>1. Last(r) \in Nat /\ All(r)' = All(r) /\ Persisted(r)' = Persisted(r)
    BY <1>4, AttestationsOfRun, VerdictsRead, AppendsRead
  <2>2. All(r) = 0 .. Last(r) /\ 0 \in 0 .. Last(r) /\ 1 \in 0 .. Last(r)
    BY <1>3, <2>1 DEF All
  <2> QED
    BY <1>3, <2>1, <2>2
<1>6. CASE \E i \in VerifiersOf(r) : verdict[r][i] = NonVerified
  <2>1. execution'[r] = [status |-> Failed("VerifierRunning"), names |-> {0, 1}]
    BY <1>6 DEF Judge, Malformed, FinalizeFailure, Conclude, DispatcherTypeOK
  <2> QED
    BY <1>1, <1>2, <1>5, <2>1, FailureKeeps
<1>7. CASE ~ \E i \in VerifiersOf(r) : verdict[r][i] = NonVerified
  <2>1. execution'[r] = [status |-> Complete(Consensus(r)), names |-> {0, 1}]
    BY <1>7 DEF Judge, Malformed, Conclude, DispatcherTypeOK
  <2>2. execution'[r].status = Complete(Consensus(r)) /\ execution'[r].names = {0, 1}
    BY <2>1
  <2>3. /\ Complete(Consensus(r)).valid => Consensus(r) \in {<<TRUE, TRUE>>, <<TRUE, FALSE>>}
        /\ Complete(Consensus(r)).correct => Consensus(r) \in {<<TRUE, TRUE>>, <<FALSE, TRUE>>}
    BY <1>3, <1>7, ConsensusIsVerdict, CompleteSays
  <2>4. Backed(r)'
    BY <1>5, <2>2 DEF Backed
  <2>5. Consensus(r) # <<FALSE, FALSE>> => \A i \in VerifiersOf(r) : verdict[r][i] = Consensus(r)
    BY DEF Consensus
  <2>6. <<FALSE, FALSE>> \notin {<<TRUE, TRUE>>, <<TRUE, FALSE>>, <<FALSE, TRUE>>}
    OBVIOUS
  <2>7. Unanimous(r)'
    <3>1. VerifiersOf(r)' = VerifiersOf(r) /\ verdict' = verdict
      BY <1>1 DEF VerifiersOf
    <3>2. execution'[r].status.valid =>
            \A i \in VerifiersOf(r) : verdict[r][i] \in {<<TRUE, TRUE>>, <<TRUE, FALSE>>}
      BY <2>2, <2>3, <2>5, <2>6, Zenon
    <3>3. execution'[r].status.correct =>
            \A i \in VerifiersOf(r) : verdict[r][i] \in {<<TRUE, TRUE>>, <<FALSE, TRUE>>}
      BY <2>2, <2>3, <2>5, <2>6, Zenon
    <3> QED
      BY <3>1, <3>2, <3>3 DEF Unanimous
  <2>8. AttestationsInv(r)'
    BY <1>1 DEF AttestationsInv
  <2>9. RecordInv(r)'
    BY <1>1, <1>2, <2>4, <2>7 DEF RecordInv
  <2>10. ForwardInv(r)'
    BY <1>1, <1>2, <1>3 DEF ForwardInv
  <2> QED
    BY <2>8, <2>9, <2>10 DEF RunInv
<1> QED
  BY <1>6, <1>7

(* The append of the record. *)
LEMMA RecordKeeps ==
  ASSUME DispatcherInv, NEW r \in Runs,
         WriteExecution(r) \/ AckExecution(r) \/ LoseExecution(r)
  PROVE  RunInv(r)'
<1> USE DEF DispatcherInv
<1>1. /\ pc[r] = "record" /\ UNCHANGED <<cursor, verdict, execution, forwarded, attPhase>>
      /\ AttestationsInv(r) /\ RecordInv(r) /\ ForwardInv(r)
  BY DEF WriteExecution, AckExecution, LoseExecution, runVars, attVars, RunInv
<1>2. SameVerdicts(r) /\ SameAppends(r) /\ forwarded[r] = <<>>
  BY <1>1 DEF SameVerdicts, SameAppends, ForwardInv
<1>3. Backed(r)' /\ Unanimous(r)'
  BY <1>1, <1>2, RecordRead DEF RecordInv
<1>4. execution[r].status.kind = "complete" => cursor[r] = 0
  BY <1>1 DEF ForwardInv
<1>5. /\ WriteExecution(r) => exePhase'[r] = "written"
      /\ AckExecution(r) => exePhase'[r] = "acked"
      /\ LoseExecution(r) => exePhase'[r] = "failed"
  <2>1. Executed!JsonlTypeOK /\ DOMAIN exePhase = Runs
    BY DEF DispatcherTypeOK, Executed!JsonlTypeOK
  <2> QED
    BY <2>1, ExecutedEffect DEF WriteExecution, AckExecution, LoseExecution
<1>6. CASE WriteExecution(r)
  <2>1. pc'[r] = "record" /\ exePhase'[r] = "written"
    BY <1>1, <1>5, <1>6 DEF WriteExecution, runVars
  <2>2. AttestationsInv(r)'
    BY <2>1 DEF AttestationsInv
  <2>3. RecordInv(r)'
    BY <1>3, <2>1 DEF RecordInv
  <2>4. ForwardInv(r)'
    BY <1>1, <1>2, <1>4, <2>1 DEF ForwardInv
  <2> QED
    BY <2>2, <2>3, <2>4 DEF RunInv
<1>7. CASE AckExecution(r)
  <2>1. /\ pc'[r] = IF execution[r].status.kind = "complete" /\ r \in Attached THEN "submit" ELSE "ok"
        /\ exePhase'[r] = "acked"
    BY <1>5, <1>7 DEF AckExecution, GoTo, DispatcherTypeOK
  <2>2. AttestationsInv(r)'
    BY <2>1 DEF AttestationsInv
  <2>3. RecordInv(r)'
    BY <1>3, <2>1 DEF RecordInv
  <2>4. ForwardInv(r)'
    BY <1>1, <1>2, <1>4, <2>1 DEF ForwardInv
  <2> QED
    BY <2>2, <2>3, <2>4 DEF RunInv
<1>8. CASE LoseExecution(r)
  <2>1. pc'[r] \in {"err", "dropped"} /\ exePhase'[r] = "failed"
    BY <1>5, <1>8 DEF LoseExecution, GoTo, DispatcherTypeOK
  <2>2. AttestationsInv(r)'
    BY <2>1 DEF AttestationsInv
  <2>3. RecordInv(r)'
    BY <1>3, <2>1 DEF RecordInv
  <2>4. ForwardInv(r)'
    BY <1>1, <1>2, <2>1 DEF ForwardInv
  <2> QED
    BY <2>2, <2>3, <2>4 DEF RunInv
<1> QED
  BY <1>6, <1>7, <1>8

(* What is forwarded so far, and one more. *)
LEMMA OneMoreForwarded ==
  ASSUME NEW n \in Nat, NEW f, f = [i \in 1 .. Len(f) |-> i - 1], f \in Seq(Nat), Len(f) = n
  PROVE  /\ Append(f, n) = [i \in 1 .. Len(Append(f, n)) |-> i - 1]
         /\ Len(Append(f, n)) = n + 1
<1>1. Append(f, n) \in Seq(Nat) /\ Len(Append(f, n)) = n + 1
  OBVIOUS
<1>2. DOMAIN Append(f, n) = 1 .. n + 1
  BY <1>1
<1>3. \A i \in 1 .. n + 1 : Append(f, n)[i] = i - 1
  OBVIOUS
<1> DEFINE g == [i \in 1 .. n + 1 |-> i - 1]
<1>4. Append(f, n) = g
  <2>1. Append(f, n) \in [1 .. n + 1 -> Nat]
    BY <1>1, LenProperties
  <2>2. g \in [1 .. n + 1 -> Int] /\ \A i \in 1 .. n + 1 : g[i] = i - 1
    OBVIOUS
  <2> HIDE DEF g
  <2> QED
    BY <1>3, <2>1, <2>2
<1> QED
  BY <1>1, <1>4

LEMMA SubmitKeeps ==
  ASSUME DispatcherInv, NEW r \in Runs, Submit(r)
  PROVE  RunInv(r)'
<1> USE DEF DispatcherInv
<1>1. /\ pc[r] = "submit" /\ UNCHANGED <<verdict, execution, batcher, attPhase, exePhase>>
      /\ forwarded'[r] = Append(forwarded[r], cursor[r])
      /\ AttestationsInv(r) /\ RecordInv(r) /\ ForwardInv(r)
  BY DEF Submit, logVars, attVars, exeVars, RunInv, DispatcherTypeOK
<1>2. SameVerdicts(r) /\ SameAppends(r)
  BY <1>1 DEF SameVerdicts, SameAppends
<1>3. /\ cursor[r] \in Nat /\ Last(r) \in Nat /\ forwarded[r] \in Seq(Nat)
      /\ Len(forwarded[r]) = cursor[r]
      /\ execution[r].status.kind = "complete" /\ exePhase[r] = "acked"
  BY <1>1, AttestationsOfRun DEF DispatcherTypeOK, RecordInv, ForwardInv
<1>4. /\ forwarded'[r] = [i \in 1 .. Len(forwarded'[r]) |-> i - 1]
      /\ Len(forwarded'[r]) = cursor[r] + 1
  <2>1. forwarded[r] = [i \in 1 .. Len(forwarded[r]) |-> i - 1]
    BY <1>1 DEF ForwardInv
  <2> QED
    BY <1>1, <1>3, <2>1, OneMoreForwarded
<1>5. \/ pc'[r] = "ok" /\ cursor[r] = Last(r)
      \/ pc'[r] = "submit" /\ cursor'[r] = cursor[r] + 1
  <2>1. \/ pc' = [pc EXCEPT ![r] = "ok"] /\ cursor[r] = Last(r)
        \/ pc' = pc /\ cursor' = [cursor EXCEPT ![r] = cursor[r] + 1]
    BY DEF Submit, IsLast, GoTo
  <2>2. DOMAIN pc = Runs /\ DOMAIN cursor = Runs
    BY DEF DispatcherTypeOK
  <2> QED
    BY <1>1, <2>1, <2>2
<1>6. AttestationsInv(r)'
  BY <1>5 DEF AttestationsInv
<1>7. RecordInv(r)'
  <2>1. Backed(r)' /\ Unanimous(r)'
    BY <1>1, <1>2, <1>3, RecordRead DEF RecordInv
  <2> QED
    BY <1>1, <1>3, <1>5, <2>1 DEF RecordInv
<1>8. ForwardInv(r)'
  <2>1. Last(r)' = Last(r)
    BY <1>2, VerdictsRead
  <2> QED
    BY <1>1, <1>3, <1>4, <1>5, <2>1 DEF ForwardInv
<1> QED
  BY <1>6, <1>7, <1>8 DEF RunInv

(* A run ends: dropped where it may be, or told that the Batcher is gone. *)
LEMMA EndKeeps ==
  ASSUME DispatcherInv, NEW r \in Runs, SubmitFails(r) \/ Cancel(r) \/ Die(r)
  PROVE  RunInv(r)'
<1> USE DEF DispatcherInv
<1>1. /\ UNCHANGED <<verdict, execution, forwarded, batcher, attPhase, exePhase>>
      /\ AttestationsInv(r) /\ RecordInv(r) /\ ForwardInv(r)
      /\ \/ pc'[r] = "dropped"
         \/ pc'[r] = "err" /\ pc[r] = "submit" /\ batcher = "gone"
  <2>1. UNCHANGED <<verdict, execution, forwarded, batcher, attPhase, exePhase>>
    BY DEF SubmitFails, Cancel, Die, logVars, attVars, exeVars
  <2>2. \/ pc' = [pc EXCEPT ![r] = "dropped"]
        \/ pc' = [pc EXCEPT ![r] = "err"] /\ pc[r] = "submit" /\ batcher = "gone"
    BY DEF SubmitFails, Cancel, Die, GoTo
  <2>3. DOMAIN pc = Runs /\ RunInv(r)
    BY DEF DispatcherTypeOK
  <2> QED
    BY <2>1, <2>2, <2>3 DEF RunInv
<1>2. SameVerdicts(r) /\ SameAppends(r)
  BY <1>1 DEF SameVerdicts, SameAppends
<1>3. AttestationsInv(r)'
  BY <1>1 DEF AttestationsInv
<1>4. RecordInv(r)'
  <2>1. exePhase[r] # "idle" => Backed(r)' /\ Unanimous(r)'
    BY <1>1, <1>2, RecordRead DEF RecordInv
  <2>2. pc[r] = "submit" => execution[r].status.kind = "complete"
    BY <1>1 DEF ForwardInv
  <2> QED
    BY <1>1, <2>1, <2>2 DEF RecordInv
<1>5. ForwardInv(r)'
  BY <1>1 DEF ForwardInv
<1> QED
  BY <1>3, <1>4, <1>5 DEF RunInv

----------------------------------------------------------------------------
LEMMA RunStepKeeps ==
  ASSUME DispatcherInv, NEW r \in Runs, RunStep(r)
  PROVE  RunInv(r)'
BY StartKeeps, WorkerKeeps, VerifiersKeep, PersistKeeps, JudgeKeeps, RecordKeeps,
   SubmitKeeps, EndKeeps DEF RunStep, Proceed

LEMMA InvInit == DispatcherInit => DispatcherInv
<1> SUFFICES ASSUME DispatcherInit PROVE DispatcherInv
  OBVIOUS
<1>1. ASSUME NEW r \in Runs PROVE RunInv(r)
  <2>1. /\ pc[r] = "idle" /\ cursor[r] = 0 /\ exePhase[r] = "idle" /\ forwarded[r] = <<>>
        /\ \A i \in 0 .. MaxVerifiers : attPhase[<<r, i>>] = "idle"
    BY DEF DispatcherInit, Attested!JsonlInit, Executed!JsonlInit, RunAttestations
  <2>2. AttestationsInv(r)
    BY <2>1 DEF AttestationsInv, Untouched
  <2>3. RecordInv(r)
    BY <2>1 DEF RecordInv
  <2>4. ForwardInv(r)
    BY <2>1 DEF ForwardInv
  <2> QED
    BY <2>2, <2>3, <2>4 DEF RunInv
<1> QED
  BY <1>1, TypeInit DEF DispatcherInv

LEMMA InvStep == DispatcherInv /\ [DispatcherNext]_dispatchVars => DispatcherInv'
<1> SUFFICES ASSUME DispatcherInv, [DispatcherNext]_dispatchVars PROVE \A q \in Runs : RunInv(q)'
  BY TypeStep DEF DispatcherInv
<1>1. ASSUME NEW r \in Runs, RunStep(r), NEW q \in Runs PROVE RunInv(q)'
  BY <1>1, RunStepKeeps, OthersStay
<1>2. ASSUME BatcherDies \/ UNCHANGED dispatchVars, NEW q \in Runs PROVE RunInv(q)'
  <2>1. /\ UNCHANGED <<pc, cursor, verdict, execution, forwarded, attPhase, exePhase>>
        /\ BatcherMayDie
    BY <1>2 DEF BatcherDies, dispatchVars, runVars, logVars, attVars, exeVars, BatcherMayDie
  <2> QED
    BY <2>1, Frame DEF DispatcherInv, SameVerdicts, SameAppends, SameRecord
<1> QED
  BY <1>1, <1>2 DEF DispatcherNext, RunStep

LEMMA InvHolds == DispatcherSpec => []DispatcherInv
BY InvInit, InvStep, PTL DEF DispatcherSpec

----------------------------------------------------------------------------
(* Every run keeps its place, its cursor within its attestations and its   *)
(* record well formed, and no log has more appends in progress than        *)
(* MaxOverlap (Dispatcher, DispatcherTypeOK).                              *)
THEOREM DispatcherTypes == DispatcherSpec => []DispatcherTypeOK
<1>1. DispatcherInv => DispatcherTypeOK
  BY DEF DispatcherInv
<1> QED
  BY <1>1, InvHolds, PTL

(* The order of the appends in run (parallel.rs:203-311): however runs     *)
(* interleave, fail and die, a record in the executions log names only     *)
(* attestations whose append had succeeded, and a Complete one has all the *)
(* Verifiers it speaks for in the attestations log.                        *)
THEOREM RecordsAreBacked == DispatcherSpec => []RecordsBacked
<1>1. DispatcherInv => RecordsBacked
  BY DEF DispatcherInv, RunInv, RecordInv, Backed, RecordsBacked
<1> QED
  BY <1>1, InvHolds, PTL

(* The Batcher is handed only what is on disk together with the record of  *)
(* its run, in order and without gap, and everything by a run that returns *)
(* Ok on a Complete record (parallel.rs:315-327).                          *)
THEOREM ForwardedIsDurable == DispatcherSpec => []ForwardedDurable
<1>1. DispatcherInv => ForwardedDurable
  <2> SUFFICES ASSUME DispatcherInv, NEW r \in Runs
               PROVE  /\ forwarded[r] # <<>> => Recorded(r) /\ Persisted(r) = All(r)
                      /\ forwarded[r] = [i \in 1 .. Len(forwarded[r]) |-> i - 1]
                      /\ pc[r] = "ok" /\ r \in Attached /\ execution[r].status.kind = "complete" =>
                           Len(forwarded[r]) = Last(r) + 1
    BY DEF ForwardedDurable
  <2>1. RecordInv(r) /\ ForwardInv(r)
    BY DEF DispatcherInv, RunInv
  <2>2. forwarded[r] # <<>> => Recorded(r) /\ Persisted(r) = All(r)
    BY <2>1 DEF RecordInv, ForwardInv, Backed, Recorded
  <2> QED
    BY <2>1, <2>2 DEF ForwardInv
<1> QED
  BY <1>1, InvHolds, PTL

(* No positive judgement is recorded over a Verifier that dissents, fails, *)
(* is late or answers malformed (parallel.rs:247-299), however many        *)
(* Verifiers there are.                                                    *)
THEOREM VerdictIsUnanimous == DispatcherSpec => []VerdictUnanimous
<1>1. DispatcherInv => VerdictUnanimous
  BY DEF DispatcherInv, RunInv, RecordInv, Unanimous, VerdictUnanimous
<1> QED
  BY <1>1, InvHolds, PTL

(* run returns Ok only if the record is in the log, and Err over a record  *)
(* in the log only when the Batcher was gone.                              *)
THEOREM OutcomeIsTold == DispatcherSpec => []OutcomeTold
<1>1. DispatcherInv => OutcomeTold
  BY DEF DispatcherInv, RunInv, RecordInv, OutcomeTold, Recorded
<1> QED
  BY <1>1, InvHolds, PTL

----------------------------------------------------------------------------
(* A log of which no append failed or overlapped another: every record     *)
(* that was acknowledged has a line, and the file ends with a newline or   *)
(* with the one record whose append is in progress.                        *)
WholeOf(r) == [kind |-> "whole", rec |-> {r}]
LineEnd == [kind |-> "newline", rec |-> {}]

HasLine(f, r) ==
  \E i \in DOMAIN f : /\ f[i] = WholeOf(r)
                      /\ i = 1 \/ f[i - 1] = LineEnd
                      /\ i + 1 \in DOMAIN f /\ f[i + 1] = LineEnd

AtEnd(f, r) ==
  Len(f) # 0 /\ f[Len(f)] = WholeOf(r) /\ (Len(f) = 1 \/ f[Len(f) - 1] = LineEnd)

CleanLog(R, f, ph) ==
  /\ \A i \in DOMAIN f : f[i].kind # "utf8"
  /\ \A r \in R : ph[r] = "acked" => HasLine(f, r)
  /\ \A r \in R : ph[r] = "written" => AtEnd(f, r) /\ \A q \in R : ph[q] = "written" => q = r
  /\ (\A r \in R : ph[r] # "written") => Len(f) = 0 \/ f[Len(f)] = LineEnd

LEMMA LongerBy ==
  ASSUME NEW S, NEW f \in Seq(S), NEW x \in S, NEW g, g = Append(f, x)
  PROVE  /\ Len(f) \in Nat /\ Len(g) = Len(f) + 1 /\ DOMAIN f = 1 .. Len(f)
         /\ DOMAIN g = 1 .. Len(g) /\ g[Len(g)] = x
         /\ \A i \in DOMAIN f : i \in DOMAIN g /\ g[i] = f[i]
OBVIOUS

LEMMA LinesStay ==
  ASSUME NEW S, NEW f \in Seq(S), NEW x \in S, NEW g, g = Append(f, x), NEW r, HasLine(f, r)
  PROVE  HasLine(g, r)
<1>1. PICK i \in DOMAIN f : /\ f[i] = WholeOf(r)
                            /\ i = 1 \/ f[i - 1] = LineEnd
                            /\ i + 1 \in DOMAIN f /\ f[i + 1] = LineEnd
  BY DEF HasLine
<1>2. /\ DOMAIN f = 1 .. Len(f) /\ Len(f) \in Nat
      /\ \A k \in DOMAIN f : k \in DOMAIN g /\ g[k] = f[k]
  BY LongerBy
<1>3. i = 1 \/ i - 1 \in DOMAIN f
  BY <1>1, <1>2
<1>4. i \in DOMAIN g /\ i + 1 \in DOMAIN g /\ g[i] = f[i] /\ g[i + 1] = f[i + 1]
  BY <1>1, <1>2
<1>5. i = 1 \/ g[i - 1] = LineEnd
  BY <1>1, <1>2, <1>3
<1> QED
  BY <1>1, <1>4, <1>5 DEF HasLine

LEMMA CleanWrite ==
  ASSUME NEW R, NEW S, NEW f \in Seq(S), NEW ph \in [R -> Phases], CleanLog(R, f, ph),
         NEW r \in R, \A q \in R : ph[q] # "written", ph[r] = "idle", WholeOf(r) \in S,
         NEW g, g = Append(f, WholeOf(r)), NEW ph2, ph2 = [ph EXCEPT ![r] = "written"]
  PROVE  CleanLog(R, g, ph2)
<1>1. /\ Len(f) \in Nat /\ Len(g) = Len(f) + 1 /\ DOMAIN f = 1 .. Len(f)
      /\ DOMAIN g = 1 .. Len(g) /\ g[Len(g)] = WholeOf(r)
      /\ \A i \in DOMAIN f : i \in DOMAIN g /\ g[i] = f[i]
  BY LongerBy
<1>2. \A i \in DOMAIN g : i \in DOMAIN f \/ i = Len(g)
  BY <1>1
<1>3. \A i \in DOMAIN g : g[i].kind # "utf8"
  BY <1>1, <1>2 DEF CleanLog, WholeOf
<1>4. \A q \in R : ph2[q] = IF q = r THEN "written" ELSE ph[q]
  OBVIOUS
<1>5. \A q \in R : ph2[q] = "acked" => HasLine(g, q)
  BY <1>4, LinesStay DEF CleanLog
<1>6. AtEnd(g, r)
  <2>1. Len(f) = 0 \/ (f[Len(f)] = LineEnd /\ Len(f) \in DOMAIN f)
    BY <1>1 DEF CleanLog
  <2>2. Len(f) = 0 \/ g[Len(f)] = LineEnd
    BY <1>1, <2>1
  <2>3. Len(g) - 1 = Len(f) /\ Len(g) # 0 /\ (Len(f) = 0 => Len(g) = 1)
    BY <1>1
  <2>4. Len(g) = 1 \/ g[Len(g) - 1] = LineEnd
    BY <2>2, <2>3
  <2>5. g[Len(g)] = WholeOf(r)
    BY <1>1
  <2> QED
    BY <2>3, <2>4, <2>5 DEF AtEnd
<1> QED
  BY <1>3, <1>4, <1>5, <1>6 DEF CleanLog

LEMMA CleanNewline ==
  ASSUME NEW R, NEW S, NEW f \in Seq(S), NEW ph \in [R -> Phases], CleanLog(R, f, ph),
         NEW r \in R, ph[r] = "written", LineEnd \in S,
         NEW g, g = Append(f, LineEnd), NEW ph2, ph2 = [ph EXCEPT ![r] = "acked"]
  PROVE  CleanLog(R, g, ph2)
<1>1. /\ Len(f) \in Nat /\ Len(g) = Len(f) + 1 /\ DOMAIN f = 1 .. Len(f)
      /\ DOMAIN g = 1 .. Len(g) /\ g[Len(g)] = LineEnd
      /\ \A i \in DOMAIN f : i \in DOMAIN g /\ g[i] = f[i]
  BY LongerBy
<1>2. \A i \in DOMAIN g : i \in DOMAIN f \/ i = Len(g)
  BY <1>1
<1>3. \A i \in DOMAIN g : g[i].kind # "utf8"
  BY <1>1, <1>2 DEF CleanLog, LineEnd
<1>4. \A q \in R : ph2[q] = IF q = r THEN "acked" ELSE ph[q]
  OBVIOUS
<1>5. HasLine(g, r)
  <2>1. AtEnd(f, r)
    BY DEF CleanLog
  <2>2. Len(f) \in DOMAIN f /\ (Len(f) = 1 \/ Len(f) - 1 \in DOMAIN f)
    BY <1>1, <2>1 DEF AtEnd
  <2>3. Len(f) \in DOMAIN g /\ g[Len(f)] = WholeOf(r)
    BY <1>1, <2>1, <2>2 DEF AtEnd
  <2>4. Len(f) + 1 \in DOMAIN g /\ g[Len(f) + 1] = LineEnd
    BY <1>1
  <2>5. Len(f) = 1 \/ g[Len(f) - 1] = LineEnd
    BY <1>1, <2>1, <2>2 DEF AtEnd
  <2> QED
    BY <2>3, <2>4, <2>5 DEF HasLine
<1>6. \A q \in R : ph2[q] = "acked" => HasLine(g, q)
  BY <1>4, <1>5, LinesStay DEF CleanLog
<1>7. \A q \in R : ph2[q] # "written"
  BY <1>4 DEF CleanLog
<1> QED
  BY <1>1, <1>3, <1>6, <1>7 DEF CleanLog

AttClean ==
  (\A a \in RunAttestations : attPhase[a] # "failed") /\ attOverlapped = {} =>
    CleanLog(RunAttestations, attFile, attPhase)

ExeClean ==
  (\A r \in Runs : exePhase[r] # "failed") /\ exeOverlapped = {} =>
    CleanLog(Runs, exeFile, exePhase)

LEMMA AttestedClean ==
  ASSUME Attested!JsonlTypeOK, AttClean, NEW a \in RunAttestations,
         \/ Attested!WriteRecord(a) \/ Attested!WriteNewline(a)
         \/ Attested!FailRecord(a) \/ Attested!FailNewline(a)
  PROVE  AttClean'
<1> SUFFICES ASSUME \A q \in RunAttestations : attPhase'[q] # "failed", attOverlapped' = {}
             PROVE  CleanLog(RunAttestations, attFile', attPhase')
  BY DEF AttClean
<1>1. /\ attFile \in Seq(Attested!Chunks) /\ attPhase \in [RunAttestations -> Phases]
      /\ LineEnd \in Attested!Chunks /\ WholeOf(a) \in Attested!Chunks
  BY DEF Attested!JsonlTypeOK, Phases, Attested!Chunks, Attested!Whole, Attested!Newline,
         LineEnd, WholeOf
<1>2. CASE Attested!WriteRecord(a)
  <2>1. attPhase[a] = "idle" /\ attPhase' = [attPhase EXCEPT ![a] = "written"]
    BY <1>2, AttestedEffect
  <2>2. attFile' = Append(attFile, WholeOf(a))
    BY <1>2 DEF Attested!WriteRecord, Attested!Write, Attested!Whole, WholeOf
  <2>3. Attested!InProgress = {} /\ attOverlapped = {}
    BY <1>2 DEF Attested!WriteRecord
  <2>4. \A q \in RunAttestations : attPhase[q] # "written"
    BY <2>3 DEF Attested!InProgress
  <2>5. \A q \in RunAttestations : attPhase[q] # "failed"
    BY <1>1, <2>1
  <2>6. CleanLog(RunAttestations, attFile, attPhase)
    BY <2>3, <2>5 DEF AttClean
  <2> QED
    BY <1>1, <2>1, <2>2, <2>4, <2>6, CleanWrite
<1>3. CASE Attested!WriteNewline(a)
  <2>1. attPhase[a] = "written" /\ attPhase' = [attPhase EXCEPT ![a] = "acked"]
    BY <1>3, AttestedEffect
  <2>2. attFile' = Append(attFile, LineEnd) /\ attOverlapped = {}
    BY <1>3 DEF Attested!WriteNewline, Attested!Write, Attested!Newline, LineEnd
  <2>3. \A q \in RunAttestations : attPhase[q] # "failed"
    BY <1>1, <2>1
  <2>4. CleanLog(RunAttestations, attFile, attPhase)
    BY <2>2, <2>3 DEF AttClean
  <2> QED
    BY <1>1, <2>1, <2>2, <2>4, CleanNewline
<1>4. CASE Attested!FailRecord(a) \/ Attested!FailNewline(a)
  <2>1. attPhase' = [attPhase EXCEPT ![a] = "failed"]
    BY <1>4, AttestedEffect
  <2> QED
    BY <1>1, <2>1
<1> QED
  BY <1>2, <1>3, <1>4

LEMMA ExecutedClean ==
  ASSUME Executed!JsonlTypeOK, ExeClean, NEW r \in Runs,
         \/ Executed!WriteRecord(r) \/ Executed!WriteNewline(r)
         \/ Executed!FailRecord(r) \/ Executed!FailNewline(r)
  PROVE  ExeClean'
<1> SUFFICES ASSUME \A q \in Runs : exePhase'[q] # "failed", exeOverlapped' = {}
             PROVE  CleanLog(Runs, exeFile', exePhase')
  BY DEF ExeClean
<1>1. /\ exeFile \in Seq(Executed!Chunks) /\ exePhase \in [Runs -> Phases]
      /\ LineEnd \in Executed!Chunks /\ WholeOf(r) \in Executed!Chunks
  BY DEF Executed!JsonlTypeOK, Phases, Executed!Chunks, Executed!Whole, Executed!Newline,
         LineEnd, WholeOf
<1>2. CASE Executed!WriteRecord(r)
  <2>1. exePhase[r] = "idle" /\ exePhase' = [exePhase EXCEPT ![r] = "written"]
    BY <1>2, ExecutedEffect
  <2>2. exeFile' = Append(exeFile, WholeOf(r))
    BY <1>2 DEF Executed!WriteRecord, Executed!Write, Executed!Whole, WholeOf
  <2>3. Executed!InProgress = {} /\ exeOverlapped = {}
    BY <1>2 DEF Executed!WriteRecord
  <2>4. \A q \in Runs : exePhase[q] # "written"
    BY <2>3 DEF Executed!InProgress
  <2>5. \A q \in Runs : exePhase[q] # "failed"
    BY <1>1, <2>1
  <2>6. CleanLog(Runs, exeFile, exePhase)
    BY <2>3, <2>5 DEF ExeClean
  <2> QED
    BY <1>1, <2>1, <2>2, <2>4, <2>6, CleanWrite
<1>3. CASE Executed!WriteNewline(r)
  <2>1. exePhase[r] = "written" /\ exePhase' = [exePhase EXCEPT ![r] = "acked"]
    BY <1>3, ExecutedEffect
  <2>2. exeFile' = Append(exeFile, LineEnd) /\ exeOverlapped = {}
    BY <1>3 DEF Executed!WriteNewline, Executed!Write, Executed!Newline, LineEnd
  <2>3. \A q \in Runs : exePhase[q] # "failed"
    BY <1>1, <2>1
  <2>4. CleanLog(Runs, exeFile, exePhase)
    BY <2>2, <2>3 DEF ExeClean
  <2> QED
    BY <1>1, <2>1, <2>2, <2>4, CleanNewline
<1>4. CASE Executed!FailRecord(r) \/ Executed!FailNewline(r)
  <2>1. exePhase' = [exePhase EXCEPT ![r] = "failed"]
    BY <1>4, ExecutedEffect
  <2> QED
    BY <1>1, <2>1
<1> QED
  BY <1>2, <1>3, <1>4

CleanInv == AttClean /\ ExeClean

LEMMA CleanInit == DispatcherInit => CleanInv
<1> SUFFICES ASSUME DispatcherInit PROVE CleanInv
  OBVIOUS
<1>1. /\ attFile = <<>> /\ \A a \in RunAttestations : attPhase[a] = "idle"
      /\ exeFile = <<>> /\ \A r \in Runs : exePhase[r] = "idle"
  BY DEF DispatcherInit, Attested!JsonlInit, Executed!JsonlInit
<1>2. Len(attFile) = 0 /\ DOMAIN attFile = {} /\ Len(exeFile) = 0 /\ DOMAIN exeFile = {}
  BY <1>1
<1> QED
  BY <1>1, <1>2 DEF CleanInv, AttClean, ExeClean, CleanLog

(* Each step of a run is a step of one append to one log, or of none.      *)
LEMMA CleanStep == DispatcherInv /\ CleanInv /\ [DispatcherNext]_dispatchVars => CleanInv'
<1> SUFFICES ASSUME DispatcherInv, CleanInv, [DispatcherNext]_dispatchVars PROVE CleanInv'
  OBVIOUS
<1>t. Attested!JsonlTypeOK /\ Executed!JsonlTypeOK /\ AttClean /\ ExeClean
  BY DEF DispatcherInv, DispatcherTypeOK, CleanInv
<1>1. UNCHANGED attVars => AttClean'
  BY <1>t DEF attVars, AttClean
<1>2. UNCHANGED exeVars => ExeClean'
  BY <1>t DEF exeVars, ExeClean
<1>3. ASSUME NEW r \in Runs, WriteAttestation(r) \/ AckAttestation(r) \/ LoseAttestation(r)
      PROVE  CleanInv'
  <2>1. <<r, cursor[r]>> \in RunAttestations
    BY <1>3, AttestationsOfRun DEF DispatcherInv, DispatcherTypeOK, RunAttestations
  <2>2. UNCHANGED exeVars
    BY <1>3 DEF WriteAttestation, AckAttestation, LoseAttestation
  <2>3. AttClean'
    BY <1>3, <1>t, <2>1, AttestedClean DEF WriteAttestation, AckAttestation, LoseAttestation
  <2> QED
    BY <1>2, <2>2, <2>3 DEF CleanInv
<1>4. ASSUME NEW r \in Runs, WriteExecution(r) \/ AckExecution(r) \/ LoseExecution(r)
      PROVE  CleanInv'
  <2>1. UNCHANGED attVars
    BY <1>4 DEF WriteExecution, AckExecution, LoseExecution
  <2>2. ExeClean'
    BY <1>4, <1>t, ExecutedClean DEF WriteExecution, AckExecution, LoseExecution
  <2> QED
    BY <1>1, <2>1, <2>2 DEF CleanInv
<1>5. UNCHANGED logVars => CleanInv'
  BY <1>1, <1>2 DEF logVars, CleanInv
<1>6. ASSUME NEW r \in Runs,
             \/ \E n \in VerifierCounts[r] : Start(r, n)
             \/ WorkerAnswers(r) \/ WorkerFails(r) \/ VerifierFails(r) \/ VerifiersJoin(r)
             \/ Judge(r) \/ Submit(r) \/ SubmitFails(r) \/ Cancel(r) \/ Die(r)
             \/ \E i \in VerifiersOf(r), v \in Verdicts \cup {NonVerified} : VerifierAnswers(r, i, v)
      PROVE  UNCHANGED logVars
  BY <1>6 DEF Start, WorkerAnswers, WorkerFails, VerifierFails, VerifiersJoin, Judge, Submit,
              SubmitFails, Cancel, Die, VerifierAnswers
<1>7. BatcherDies \/ UNCHANGED dispatchVars => UNCHANGED logVars
  BY DEF BatcherDies, dispatchVars, logVars
<1> QED
  BY <1>3, <1>4, <1>5, <1>6, <1>7 DEF DispatcherNext, Proceed

LEMMA CleanHolds == DispatcherSpec => []CleanInv
BY CleanInit, CleanStep, InvHolds, PTL DEF DispatcherSpec

(* A clean log loads all that was acknowledged.                            *)
LEMMA AttestedLoads ==
  ASSUME CleanLog(RunAttestations, attFile, attPhase), NEW a \in RunAttestations, attPhase[a] = "acked"
  PROVE  a \in Attested!Loaded
<1>1. ~Attested!LoadFails
  BY DEF CleanLog, Attested!LoadFails, Attested!CutInChar
<1>2. PICK i \in DOMAIN attFile : /\ attFile[i] = WholeOf(a)
                                  /\ i = 1 \/ attFile[i - 1] = LineEnd
                                  /\ i + 1 \in DOMAIN attFile /\ attFile[i + 1] = LineEnd
  BY DEF CleanLog, HasLine
<1>3. attFile[i] = Attested!Whole(a) /\ Attested!OwnLine(i)
  BY <1>2 DEF Attested!Whole, Attested!OwnLine, Attested!Newline, WholeOf, LineEnd
<1> QED
  BY <1>1, <1>3 DEF Attested!Loaded, Attested!SignatureHolds

LEMMA ExecutedLoads ==
  ASSUME CleanLog(Runs, exeFile, exePhase), NEW r \in Runs, exePhase[r] = "acked"
  PROVE  r \in Executed!Loaded
<1>1. ~Executed!LoadFails
  BY DEF CleanLog, Executed!LoadFails, Executed!CutInChar
<1>2. PICK i \in DOMAIN exeFile : /\ exeFile[i] = WholeOf(r)
                                  /\ i = 1 \/ exeFile[i - 1] = LineEnd
                                  /\ i + 1 \in DOMAIN exeFile /\ exeFile[i + 1] = LineEnd
  BY DEF CleanLog, HasLine
<1>3. exeFile[i] = Executed!Whole(r) /\ Executed!OwnLine(i)
  BY <1>2 DEF Executed!Whole, Executed!OwnLine, Executed!Newline, WholeOf, LineEnd
<1> QED
  BY <1>1, <1>3 DEF Executed!Loaded, Executed!SignatureHolds

(* As long as no append of any run failed or overlapped another, a record  *)
(* that was acknowledged loads, with every attestation that it names       *)
(* (execution.rs, load_execution), however many runs share the two logs.   *)
THEOREM CleanRunsAlwaysRejoin == DispatcherSpec => []CleanRunsRejoin
<1>1. DispatcherInv /\ CleanInv => CleanRunsRejoin
  <2> SUFFICES ASSUME DispatcherInv, CleanInv,
                      Attested!FailedRecords \cup Executed!FailedRecords \cup attOverlapped \cup exeOverlapped = {},
                      NEW r \in Runs, Recorded(r)
               PROVE  r \in Executed!Loaded /\ Rejoined(r) = execution[r].names
    BY DEF CleanRunsRejoin
  <2>1. /\ CleanLog(RunAttestations, attFile, attPhase)
        /\ CleanLog(Runs, exeFile, exePhase)
    BY DEF CleanInv, AttClean, ExeClean, Attested!FailedRecords, Executed!FailedRecords
  <2>2. r \in Executed!Loaded
    BY <2>1, ExecutedLoads DEF Recorded
  <2>3. execution[r].names \subseteq Persisted(r)
    BY DEF DispatcherInv, RunInv, RecordInv, Backed, Recorded
  <2>4. ASSUME NEW i \in execution[r].names PROVE <<r, i>> \in Attested!Loaded
    <3>1. <<r, i>> \in RunAttestations /\ attPhase[<<r, i>>] = "acked"
      BY <2>3, <2>4, AttestationsOfRun DEF Persisted, RunAttestations, DispatcherInv
    <3> QED
      BY <2>1, <3>1, AttestedLoads
  <2> QED
    BY <2>2, <2>4 DEF Rejoined
<1> QED
  BY <1>1, InvHolds, CleanHolds, PTL
=============================================================================
