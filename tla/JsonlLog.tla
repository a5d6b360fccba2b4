------------------------------ MODULE JsonlLog ------------------------------
(***************************************************************************)
(* An append-only JSON-lines log of attestly-core: append_attestation and  *)
(* load_attestations (crates/attestly-core/src/attestation.rs), which      *)
(* append_execution and load_execution_records (execution.rs) repeat for   *)
(* the records of runs.                                                    *)
(*                                                                         *)
(* The file is opened with O_APPEND, so that a write lands at its end; an  *)
(* append is two of them, the record and its newline, and a write may stop *)
(* short: disk full, or the process killed.  Each record is appended once. *)
(***************************************************************************)
EXTENDS Naturals, Sequences, FiniteSets

CONSTANTS
  Records,      \* the records that are appended
  Valid,        \* those whose signature checks out
  MaxAppends    \* how many appends to the file may be in progress at once

ASSUME JsonlAssumption ==
  /\ Valid \subseteq Records
  /\ MaxAppends \in Nat

VARIABLES
  file,       \* what the writes have left, in order
  phase,      \* where the append of each record is
  overlapped  \* history: the appends that were in progress together

jsonlVars == <<file, phase, overlapped>>

Whole(r)  == [kind |-> "whole",  rec |-> {r}]
Cut       == [kind |-> "cut",    rec |-> {}]   \* the beginning of a record
CutInChar == [kind |-> "utf8",   rec |-> {}]   \* the same, cut inside a character
Newline   == [kind |-> "newline", rec |-> {}]
Chunks == {Whole(r) : r \in Records} \cup {Cut, CutInChar, Newline}

InProgress    == {r \in Records : phase[r] = "written"}
FailedRecords == {r \in Records : phase[r] = "failed"}
Acked         == {r \in Records : phase[r] = "acked"}

JsonlTypeOK ==
  /\ file \in Seq(Chunks)
  /\ phase \in [Records -> {"idle", "written", "acked", "failed"}]
  /\ overlapped \subseteq Records
  /\ Cardinality(InProgress) <= MaxAppends

JsonlInit ==
  /\ file = <<>>
  /\ phase = [r \in Records |-> "idle"]
  /\ overlapped = {}

MayBegin(r)  == phase[r] = "idle" /\ Cardinality(InProgress) < MaxAppends

Truncates(chunk) == file' = IF chunk = Newline THEN Append(file, chunk) ELSE <<chunk>>   \* mutant
Write(chunk) == file' = Append(file, chunk)

(* append_attestation, up to its second write. *)
WriteRecord(r) ==
  /\ MayBegin(r)
  /\ Write(Whole(r))
  /\ phase' = [phase EXCEPT ![r] = "written"]
  /\ overlapped' = IF InProgress = {} THEN overlapped ELSE overlapped \cup InProgress \cup {r}

(* The first write fails, with nothing or part of the record in the file. *)
FailRecord(r) ==
  /\ MayBegin(r)
  /\ \E chunk \in {Cut, CutInChar} : Write(chunk) \/ UNCHANGED file
  /\ phase' = [phase EXCEPT ![r] = "failed"]
  /\ UNCHANGED overlapped

ForgetsNewline(r) ==                                 \* mutant
  /\ phase[r] = "written"
  /\ phase' = [phase EXCEPT ![r] = "acked"]
  /\ UNCHANGED <<file, overlapped>>

WriteNewline(r) ==
  /\ phase[r] = "written"
  /\ Write(Newline)
  /\ phase' = [phase EXCEPT ![r] = "acked"]
  /\ UNCHANGED overlapped

FailNewline(r) ==
  /\ phase[r] = "written"
  /\ phase' = [phase EXCEPT ![r] = "failed"]
  /\ UNCHANGED <<file, overlapped>>

JsonlNext == \E r \in Records :
  WriteRecord(r) \/ FailRecord(r) \/ WriteNewline(r) \/ FailNewline(r)

JsonlSpec == JsonlInit /\ [][JsonlNext]_jsonlVars

----------------------------------------------------------------------------
(* load_attestations.  A line that is not one whole record is skipped with *)
(* a warning; one that is not UTF-8 ends the load with an error.           *)
OwnLine(i) ==
  /\ i = 1 \/ file[i - 1] = Newline
  /\ i = Len(file) \/ file[i + 1] = Newline

SignatureHolds == Valid

LoadFails == \E i \in DOMAIN file : file[i] = CutInChar
Loaded ==
  IF LoadFails THEN {}
  ELSE {r \in SignatureHolds : \E i \in DOMAIN file : file[i] = Whole(r) /\ OwnLine(i)}

----------------------------------------------------------------------------
(* Damage is local.  Appends that overlap may spoil one another; one that  *)
(* fails costs at most one other record, the one glued to what it left;    *)
(* every other acknowledged record is loaded, if the load can be made.     *)
OneFailureCostsOneRecord ==
  ~LoadFails =>
    Cardinality((Acked \cap Valid) \ (Loaded \cup overlapped)) <= Cardinality(FailedRecords)

(* What an acknowledged record was loaded from is never damaged by later   *)
(* appends, be they concurrent, torn or killed: the log only grows.        *)
LoadedStaysLoaded == [][~LoadFails' => (Acked \cap Loaded) \subseteq Loaded']_jsonlVars

(* The comment of append_attestation (attestation.rs:147): each line is a  *)
(* single record.  Between appends, none of which failed, nothing is glued.*)
EachLineOneRecord ==
  InProgress = {} /\ FailedRecords = {} => \A r \in Acked \cap Valid : r \in Loaded
=============================================================================
