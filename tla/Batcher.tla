------------------------------ MODULE Batcher ------------------------------
(***************************************************************************)
(* The Batcher service (crates/attestly-agents/src/batcher.rs): callers    *)
(* send commands over a bounded channel to one background task, which      *)
(* buffers attestations and seals them in Merkle batches in SQLite.        *)
(*                                                                         *)
(* A call of submit or flush_now is a value of its own, made at most once; *)
(* two submissions may carry the same attestation, or two of the same id.  *)
(* The handle's operations borrow it (submit, flush_now) or consume it     *)
(* (shutdown, drop), and the Rust compiler orders them: nobody consumes a  *)
(* borrowed handle.  A caller may abandon a call at any await point by     *)
(* dropping its future.                                                    *)
(* `stage', `ahead' and `waited' are history: no guard of the task reads   *)
(* them; a caller's guard reads only whether its own call is in progress.  *)
(***************************************************************************)
EXTENDS Storage

CONSTANTS
  Submissions,      \* calls of submit
  FlushCalls,       \* calls of flush_now
  Shutdown,         \* the Shutdown command
  AttestationOf,    \* the attestation a submission carries
  MaxBatchSize,     \* config.max_batch_size
  MinBatchSize,     \* config.min_batch_size
  MaxBatchAge,      \* config.max_batch_age_secs
  ChannelCapacity,  \* the bound of the channel (64 in the code)
  StorageMayFail,   \* whether SQLite may refuse a transaction (busy, disk full)
  MaxCrashes        \* bound: how often the process dies

Commands == Submissions \cup FlushCalls \cup {Shutdown}

ASSUME BatcherAssumption ==
  /\ AttestationOf \in [Submissions -> Attestations]
  /\ Submissions \cap FlushCalls = {}
  /\ Shutdown \notin Submissions \cup FlushCalls
  /\ NULL \notin Nat
  /\ MaxBatchSize \in Nat /\ MinBatchSize \in Nat /\ MaxBatchAge \in Nat
  /\ ChannelCapacity \in Nat \ {0}
  /\ StorageMayFail \in BOOLEAN
  /\ MaxCrashes \in Nat

VARIABLES
  handle,    \* the Batcher value: "held", "closing" (shutdown waits for the
             \* channel), "closed" (Shutdown sent), "dropped"
  channel,   \* the commands sent and not yet received
  task,      \* the background task: "running", "exited", "killed"
  buffer,    \* the submissions the task holds, oldest first
  elapsed,   \* whole seconds since oldest_at, NULL where oldest_at is None
  tickDue,   \* the interval has fired and the task has not polled it
  reply,     \* where a flush_now call is, then what it returns
  result,    \* what shutdown returns
  crashes,
  stage,     \* history: where each submission is, or how it ended
  ahead,     \* history: what was accepted and unsettled when flush_now was called
  waited     \* history: the seconds each buffered submission has been there

callVars == <<reply, result>>
history  == <<stage, ahead, waited>>
vars == <<storageVars, handle, channel, task, buffer, elapsed, tickDue, callVars,
          crashes, history>>

(* What a flush may answer: Ok(Some(b)), Ok(None) or Err. *)
Sealed(b)    == [kind |-> "sealed", batch |-> b]
NoBatch      == [kind |-> "none",   batch |-> NULL]
StorageError == [kind |-> "error",  batch |-> NULL]
Answers == {Sealed(b) : b \in BatchIds} \cup {NoBatch, StorageError}
IsAnswer(r) == r \in Answers

(* A call in progress: before it starts, blocked on the channel, waiting   *)
(* for its oneshot, abandoned.                                             *)
Calling(p) == [kind |-> p, batch |-> NULL]
CallPoints == {Calling(p) : p \in {"idle", "sending", "waiting", "cancelled"}}

Stages == {"idle", "sending", "cancelled",         \* not accepted
           "queued", "buffered",                   \* accepted, in memory
           "sealed", "failed", "discarded", "crashed"}
InMemory == {"queued", "buffered"}
Settled  == {"sealed", "failed", "discarded", "crashed"}

BatcherTypeOK ==
  /\ StorageTypeOK
  /\ handle \in {"held", "closing", "closed", "dropped"}
  /\ channel \in Seq(Commands)
  /\ task \in {"running", "exited", "killed"}
  /\ buffer \in Seq(Submissions)
  /\ elapsed \in Nat \cup {NULL}
  /\ tickDue \in BOOLEAN
  /\ reply \in [FlushCalls -> CallPoints \cup Answers]
  /\ result \in Answers \cup {NULL}
  /\ crashes \in Nat
  /\ stage \in [Submissions -> Stages]
  /\ ahead \in [FlushCalls -> SUBSET Submissions]
  /\ waited \in [Submissions -> Nat]

(* Batcher::start, on a database that may hold rows already. *)
Init ==
  /\ StorageInit
  /\ handle = "held"
  /\ channel = <<>>
  /\ task = "running"
  /\ buffer = <<>>
  /\ elapsed = NULL
  /\ tickDue = FALSE
  /\ reply = [f \in FlushCalls |-> Calling("idle")]
  /\ result = NULL
  /\ crashes = 0
  /\ stage = [s \in Submissions |-> "idle"]
  /\ ahead = [f \in FlushCalls |-> {}]
  /\ waited = [s \in Submissions |-> 0]

----------------------------------------------------------------------------
(* The callers. *)

CanSend == task = "running" /\ Len(channel) < ChannelCapacity
Send(cmd) == CanSend /\ channel' = Append(channel, cmd)

taskVars == <<task, buffer, elapsed, tickDue, crashes>>

SubmitCall(s) ==
  /\ handle = "held"
  /\ stage[s] = "idle"
  /\ stage' = [stage EXCEPT ![s] = "sending"]
  /\ UNCHANGED <<storageVars, handle, channel, taskVars, callVars, ahead, waited>>

SubmitSend(s) ==
  /\ stage[s] = "sending"
  /\ Send(s)
  /\ stage' = [stage EXCEPT ![s] = "queued"]
  /\ UNCHANGED <<storageVars, handle, taskVars, callVars, ahead, waited>>

SubmitCancel(s) ==
  /\ stage[s] = "sending"
  /\ stage' = [stage EXCEPT ![s] = "cancelled"]
  /\ UNCHANGED <<storageVars, handle, channel, taskVars, callVars, ahead, waited>>

FlushCall(f) ==
  /\ handle = "held"
  /\ reply[f] = Calling("idle")
  /\ reply' = [reply EXCEPT ![f] = Calling("sending")]
  /\ ahead' = [ahead EXCEPT ![f] = {s \in Submissions : stage[s] \in InMemory}]
  /\ UNCHANGED <<storageVars, handle, channel, taskVars, result, stage, waited>>

FlushSend(f) ==
  /\ reply[f] = Calling("sending")
  /\ Send(f)
  /\ reply' = [reply EXCEPT ![f] = Calling("waiting")]
  /\ UNCHANGED <<storageVars, handle, taskVars, result, history>>

(* An abandoned flush_now may have sent its command: the task will flush   *)
(* all the same and find the oneshot closed.                               *)
FlushCancel(f) ==
  /\ reply[f] \in {Calling("sending"), Calling("waiting")}
  /\ reply' = [reply EXCEPT ![f] = Calling("cancelled")]
  /\ UNCHANGED <<storageVars, handle, channel, taskVars, result, history>>

Borrowed ==
  \/ \E s \in Submissions : stage[s] = "sending"
  \/ \E f \in FlushCalls : reply[f] \in {Calling("sending"), Calling("waiting")}

ShutdownCall ==
  /\ handle = "held" /\ ~Borrowed
  /\ handle' = "closing"
  /\ UNCHANGED <<storageVars, channel, taskVars, callVars, history>>

ShutdownSend ==
  /\ handle = "closing"
  /\ Send(Shutdown)
  /\ handle' = "closed"
  /\ UNCHANGED <<storageVars, taskVars, callVars, history>>

(* The handle goes out of scope, or shutdown is abandoned before it sends. *)
DropHandle ==
  /\ \/ handle = "held" /\ ~Borrowed
     \/ handle = "closing"
  /\ handle' = "dropped"
  /\ UNCHANGED <<storageVars, channel, taskVars, callVars, history>>

----------------------------------------------------------------------------
(* The background task. *)

Carried(buf) == [n \in DOMAIN buf |-> AttestationOf[buf[n]]]
MarkAll(buf, end) == [s \in Submissions |-> IF s \in Range(buf) THEN end ELSE stage[s]]

CloneBuffer == UNCHANGED buffer   \* mutant
TakeBuffer  == buffer' = <<>>

(* flush on the contents buf of the buffer: the buffer is taken and        *)
(* oldest_at cleared before anything can fail.                             *)
Flush(buf, answer) ==
  /\ TakeBuffer
  /\ \/ /\ buf = <<>>
        /\ answer = NoBatch
        /\ UNCHANGED <<storageVars, elapsed, stage>>
     \/ /\ buf # <<>>
        /\ elapsed' = NULL
        /\ \E b \in BatchIds :
             /\ batches[b] = NULL
             /\ \/ /\ CommitBatch(b, Carried(buf))
                   /\ answer = Sealed(b)
                   /\ stage' = MarkAll(buf, "sealed")
                \/ /\ StorageMayFail \/ ~NoKeyCollision(b, Carried(buf))
                   /\ RollbackBatch(b, Carried(buf))
                   /\ answer = StorageError
                   /\ stage' = MarkAll(buf, "failed")

(* Mutant: commands other than Submit overtake the submissions.            *)
ReceiveControlFirst(cmd) ==
  /\ task = "running"
  /\ \E i \in DOMAIN channel :
       /\ channel[i] = cmd
       /\ i = 1 \/ cmd \notin Submissions
       /\ channel' = SubSeq(channel, 1, i - 1) \o SubSeq(channel, i + 1, Len(channel))

Receive(cmd) ==
  /\ task = "running"
  /\ channel # <<>>
  /\ Head(channel) = cmd
  /\ channel' = Tail(channel)

CountReachedLate(n) == n > MaxBatchSize   \* mutant
CountReached(n)     == n >= MaxBatchSize

RestartsAge  == 0                                           \* mutant
NeverAges    == NULL                                        \* mutant
OldestAt     == IF buffer = <<>> THEN 0 ELSE elapsed

(* Command::Submit below the count trigger. *)
BufferSubmission(s) ==
  /\ Receive(s)
  /\ ~CountReached(Len(buffer) + 1)
  /\ buffer' = Append(buffer, s)
  /\ elapsed' = OldestAt
  /\ stage' = [stage EXCEPT ![s] = "buffered"]
  /\ UNCHANGED <<storageVars, handle, task, tickDue, callVars, crashes, ahead, waited>>

(* Command::Submit that fills the buffer; the answer of flush is ignored. *)
CountTrigger(s) ==
  /\ Receive(s)
  /\ CountReached(Len(buffer) + 1)
  /\ \E answer \in Answers : Flush(Append(buffer, s), answer)
  /\ UNCHANGED <<handle, task, tickDue, callVars, crashes, ahead, waited>>

(* Mutant: only a batch is worth an answer. *)
RespondWithBatch(f, answer) ==
  reply' = IF reply[f] = Calling("waiting") /\ answer # NoBatch
           THEN [reply EXCEPT ![f] = answer] ELSE reply

(* resp.send, to a caller that may have gone. *)
Respond(f, answer) ==
  reply' = IF reply[f] = Calling("waiting") THEN [reply EXCEPT ![f] = answer] ELSE reply

(* Command::Flush. *)
HandleFlush(f) ==
  /\ Receive(f)
  /\ \E answer \in Answers : Flush(buffer, answer) /\ Respond(f, answer)
  /\ UNCHANGED <<handle, task, tickDue, result, crashes, ahead, waited>>

(* The last flush of the task, or the end of a buffer that is too small. *)
FinalFlush(answer) ==
  \/ /\ Len(buffer) >= MinBatchSize
     /\ Flush(buffer, answer)
  \/ /\ Len(buffer) < MinBatchSize
     /\ answer = NoBatch
     /\ buffer' = <<>>
     /\ stage' = MarkAll(buffer, "discarded")
     /\ UNCHANGED <<storageVars, elapsed>>

KeepRunning == UNCHANGED task   \* mutant
Exit == task' = "exited"

(* Command::Shutdown. *)
HandleShutdown ==
  /\ Receive(Shutdown)
  /\ \E answer \in Answers : FinalFlush(answer) /\ result' = answer
  /\ Exit
  /\ UNCHANGED <<handle, tickDue, reply, crashes, ahead, waited>>

(* recv returns None: every sender is gone and the channel is drained. *)
DroppedUndrained == handle = "dropped"   \* mutant
Disconnected     == handle = "dropped" /\ channel = <<>>

HandleDisconnect ==
  /\ task = "running"
  /\ Disconnected
  /\ \E answer \in Answers : FinalFlush(answer)
  /\ Exit
  /\ UNCHANGED <<handle, channel, tickDue, callVars, crashes, ahead, waited>>

WaitedCap == MaxBatchAge + 2   \* bound: where the history `waited' saturates

(* The interval fires.  Assumption: the task polls it before the next one. *)
Second ==
  /\ task = "running"
  /\ ~tickDue
  /\ tickDue' = TRUE
  /\ elapsed' = IF elapsed = NULL THEN NULL ELSE elapsed + 1
  /\ waited' = [s \in Submissions |->
                  IF s \notin Range(buffer) THEN 0
                  ELSE IF waited[s] < WaitedCap THEN waited[s] + 1 ELSE waited[s]]
  /\ UNCHANGED <<storageVars, handle, channel, task, buffer, callVars, crashes, stage, ahead>>

(* The comparison of start.elapsed() with max_batch_age_secs.  The first   *)
(* of the seconds counted is a fraction of one, so at MaxBatchAge counted  *)
(* seconds either outcome is possible; an age of zero is always reached.   *)
MayBeOld   == elapsed # NULL /\ elapsed >= MaxBatchAge
MayBeYoung == elapsed \in {NULL} \cup (IF MaxBatchAge = 0 THEN {} ELSE 0 .. MaxBatchAge)

AgeTrigger ==
  /\ task = "running"
  /\ tickDue
  /\ MayBeOld
  /\ tickDue' = FALSE
  /\ \E answer \in Answers : Flush(buffer, answer)
  /\ UNCHANGED <<handle, channel, task, callVars, crashes, ahead, waited>>

IdleTick ==
  /\ task = "running"
  /\ tickDue
  /\ MayBeYoung
  /\ tickDue' = FALSE
  /\ UNCHANGED <<storageVars, handle, channel, task, buffer, elapsed, callVars, crashes, history>>

----------------------------------------------------------------------------
(* The process dies: the channel, the buffer, the handle and every call in *)
(* progress are gone, the database file stays.                             *)
Crash ==
  /\ task = "running"
  /\ crashes < MaxCrashes
  /\ crashes' = crashes + 1
  /\ task' = "killed"
  /\ handle' = "dropped"
  /\ channel' = <<>>
  /\ buffer' = <<>>
  /\ elapsed' = NULL
  /\ tickDue' = FALSE
  /\ reply' = [f \in FlushCalls |-> IF reply[f] \in {Calling("sending"), Calling("waiting")}
                                    THEN Calling("cancelled") ELSE reply[f]]
  /\ stage' = [s \in Submissions |-> IF stage[s] = "sending" THEN "cancelled"
                                     ELSE IF stage[s] \in InMemory THEN "crashed"
                                     ELSE stage[s]]
  /\ UNCHANGED <<storageVars, result, ahead, waited>>

(* A new process starts a Batcher on the same database file. *)
Restart ==
  /\ task = "killed"
  /\ task' = "running"
  /\ handle' = "held"
  /\ UNCHANGED <<storageVars, channel, buffer, elapsed, tickDue, callVars, crashes, history>>

(* Another connection to the file records an attestation on its own. *)
RecordUnbatched(a) ==
  /\ InsertAttestation(a)
  /\ UNCHANGED <<handle, channel, taskVars, callVars, history>>

Caller ==
  \/ \E s \in Submissions : SubmitCall(s) \/ SubmitSend(s) \/ SubmitCancel(s)
  \/ \E f \in FlushCalls : FlushCall(f) \/ FlushSend(f) \/ FlushCancel(f)
  \/ ShutdownCall \/ ShutdownSend \/ DropHandle

HandleCommand ==
  \/ \E s \in Submissions : BufferSubmission(s) \/ CountTrigger(s)
  \/ \E f \in FlushCalls : HandleFlush(f)
  \/ HandleShutdown \/ HandleDisconnect

HandleTick == AgeTrigger \/ IdleTick

Next ==
  \/ Caller
  \/ HandleCommand
  \/ HandleTick
  \/ Second
  \/ Crash \/ Restart
  \/ \E a \in Attestations : RecordUnbatched(a)

Spec == Init /\ [][Next]_vars

(* The runtime polls the task: select! picks at random among its ready     *)
(* branches, so neither is starved; time passes; a send that waits for     *)
(* room gets it in turn.  No caller is obliged to make or finish a call.   *)
Fairness ==
  /\ WF_vars(HandleCommand)
  /\ WF_vars(HandleTick)
  /\ WF_vars(Second)
  /\ WF_vars(ShutdownSend)

FairSpec == Spec /\ Fairness

----------------------------------------------------------------------------
(* Every accepted attestation is in exactly one place: the channel and the *)
(* buffer hold precisely the submissions whose fate is open, each once.    *)
NothingVanishes ==
  /\ \A s \in Submissions :
       /\ (s \in Range(channel)) <=> (stage[s] = "queued")
       /\ (s \in Range(buffer))  <=> (stage[s] = "buffered")
  /\ IsInjective(channel)
  /\ IsInjective(buffer)

SubmittedId(s) == IdOf[AttestationOf[s]]

(* Only what was submitted is ever sealed: the batched rows are the ids of *)
(* the sealed submissions, one submission each, however often an id was    *)
(* submitted.                                                              *)
SealedIffBatched ==
  \A i \in Ids :
    LET sealers == {s \in Submissions : SubmittedId(s) = i /\ stage[s] = "sealed"} IN
      /\ batchOf[i] # NULL <=> sealers # {}
      /\ \A s, t \in sealers : s = t

(* What an auditor is told of a submission that was sealed depends on the  *)
(* row its id had before: the proof is of what was submitted, the leaf is  *)
(* of the row, and INSERT OR IGNORE keeps a row that was there.  So a      *)
(* sealed attestation verifies exactly where it is genuine and the row is  *)
(* its own; where another attestation of that id came first, "false" is    *)
(* said for good, even of two genuine ones.  No lookup runs into a missing *)
(* proof or batch, and nothing unsealed verifies.                          *)
AuditsAgree ==
  /\ \A s \in Submissions :
       stage[s] = "sealed" =>
         LET a == AttestationOf[s] IN
           VerifyAttestationInclusion(IdOf[a]) =
             IF a \in Genuine /\ rows[IdOf[a]] = a THEN "true" ELSE "false"
  /\ \A i \in Ids :
       (\A s \in Submissions : SubmittedId(s) = i => stage[s] # "sealed") =>
         VerifyAttestationInclusion(i) \in {"AttestationNotFound", "AttestationNotBatched", "false"}

(* A buffer never outgrows the count trigger between two commands, no      *)
(* batch is larger than max_batch_size (where 0 acts as 1), and oldest_at  *)
(* is set exactly while there is something to age.                         *)
SizesBounded ==
  /\ Len(buffer) < MaxBatchSize \/ buffer = <<>>
  /\ task = "running" => ((elapsed = NULL) <=> (buffer = <<>>))
  /\ \A b \in BatchIds :
       batches[b] # NULL => batches[b].count <= MaxBatchSize \/ batches[b].count = 1

(* Whatever arrives after it, an attestation is out of the buffer at the   *)
(* poll that finds it max_batch_age_secs old: at most one second late.     *)
AgeBound ==
  \A s \in Submissions :
    stage[s] = "buffered" => waited[s] <= MaxBatchAge + (IF tickDue THEN 1 ELSE 0)

(* flush_now is a barrier: when it returns, nothing accepted before it was *)
(* called is still in memory; and a batch it names is in the database.     *)
FlushBarrier ==
  \A f \in FlushCalls :
    IsAnswer(reply[f]) =>
      /\ \A s \in ahead[f] : stage[s] \notin InMemory
      /\ \A b \in BatchIds : reply[f] = Sealed(b) => batches[b] # NULL

(* The task outlives every call that borrows the handle and leaves no      *)
(* command behind: without a crash BatcherError::Closed cannot be returned.*)
NeverClosedUnderACaller ==
  task = "exited" => /\ channel = <<>> /\ buffer = <<>>
                     /\ ~Borrowed
                     /\ handle \in {"closed", "dropped"}

(* The channel, the two triggers, the storage and the crashes together do  *)
(* no more than SealedLog allows: what it calls a batch is read off the    *)
(* batch_id column.                                                        *)
Pending     == {s \in Submissions : stage[s] \in InMemory}
SealedCalls == {s \in Submissions : stage[s] = "sealed"}
Lost        == {s \in Submissions : stage[s] \in {"failed", "discarded", "crashed"}}
Contents    == [b \in BatchIds |-> {i \in Ids : batchOf[i] = b}]

SubmittedIds == [s \in Submissions |-> SubmittedId(s)]

Log == INSTANCE SealedLog WITH
         IdOf <- SubmittedIds,
         pending <- Pending, sealed <- SealedCalls, lost <- Lost, contents <- Contents

ImplementsSealedLog == Log!LogSpec

(* docs/ARCHITECTURE.md, "Batcher trigger logic": the only way to lose an  *)
(* attestation is shutting down with a buffer below min_batch_size.  So an *)
(* accepted attestation whose flush has failed is in a batch all the same. *)
OnlyShutdownLoses ==
  \A s \in Submissions : stage[s] = "failed" => batchOf[SubmittedId(s)] # NULL

(* An accepted attestation leaves memory without any further call: the age *)
(* trigger is enough.                                                      *)
EverySubmissionSettles ==
  \A s \in Submissions : stage[s] \in InMemory ~> stage[s] \in Settled

(* A flush_now whose command is in the channel is answered. *)
EveryFlushAnswered ==
  \A f \in FlushCalls : reply[f] = Calling("waiting") ~> reply[f] # Calling("waiting")

(* After shutdown or drop the task exits. *)
TaskExits == handle \in {"closing", "closed", "dropped"} ~> task # "running"
=============================================================================
