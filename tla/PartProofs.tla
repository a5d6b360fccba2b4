----------------------------- MODULE PartProofs -----------------------------
(***************************************************************************)
(* The parts of a client that share their state and stand alone, each for  *)
(* any number of appends, processes, threads, nodes and calls: the JSONL   *)
(* log, the identity store, the telemetry of the SDK and the graph that it *)
(* wraps.                                                                  *)
(***************************************************************************)
EXTENDS JsonlLog, Identity, Telemetry, Nodes,
        FiniteSetTheorems, SequenceTheorems, TLAPS

----------------------------------------------------------------------------
(* No append, torn or concurrent, damages a record that an earlier append  *)
(* acknowledged and a load found, and an append that fails costs at most   *)
(* one other record: for any records and any number of overlapping appends.*)

(* Only finitely many appends are ever in progress. *)
JsonlInv == JsonlTypeOK /\ IsFiniteSet(InProgress)

LEMMA JsonlBegins == JsonlInit => JsonlInv
<1> SUFFICES ASSUME JsonlInit PROVE JsonlInv
  OBVIOUS
<1>1. InProgress = {}
  BY DEF JsonlInit, InProgress
<1>2. IsFiniteSet(InProgress) /\ Cardinality(InProgress) = 0
  BY <1>1, FS_EmptySet
<1> QED
  BY <1>2, JsonlAssumption DEF JsonlInit, JsonlInv, JsonlTypeOK

(* An append that has ended is not in progress any more. *)
LEMMA FewerInProgress ==
  ASSUME JsonlInv, InProgress' \subseteq InProgress
  PROVE  IsFiniteSet(InProgress)' /\ (Cardinality(InProgress) <= MaxAppends)'
<1>1. IsFiniteSet(InProgress') /\ Cardinality(InProgress') <= Cardinality(InProgress)
  BY FS_Subset DEF JsonlInv
<1>2. Cardinality(InProgress) \in Nat /\ Cardinality(InProgress') \in Nat
  BY <1>1, FS_CardinalityType DEF JsonlInv
<1> QED
  BY <1>1, <1>2, JsonlAssumption DEF JsonlInv, JsonlTypeOK

LEMMA ChunksAreChunks ==
  /\ \A r \in Records : Whole(r) \in Chunks
  /\ Cut \in Chunks /\ CutInChar \in Chunks /\ Newline \in Chunks
BY DEF Chunks

LEMMA JsonlStep == JsonlInv /\ [JsonlNext]_jsonlVars => JsonlInv'
<1> SUFFICES ASSUME JsonlInv, [JsonlNext]_jsonlVars PROVE JsonlInv'
  OBVIOUS
<1> USE DEF JsonlInv
<1>1. ASSUME NEW r \in Records, WriteRecord(r) PROVE JsonlInv'
  <2>1. /\ file' \in Seq(Chunks)
        /\ phase' \in [Records -> {"idle", "written", "acked", "failed"}]
        /\ overlapped' \subseteq Records
    BY <1>1, ChunksAreChunks DEF WriteRecord, Write, JsonlTypeOK, InProgress
  <2>2. InProgress' = InProgress \cup {r} /\ r \notin InProgress
    BY <1>1 DEF WriteRecord, MayBegin, InProgress, JsonlTypeOK
  <2>3. IsFiniteSet(InProgress') /\ Cardinality(InProgress') = Cardinality(InProgress) + 1
    BY <2>2, FS_AddElement
  <2>4. Cardinality(InProgress) \in Nat /\ Cardinality(InProgress) < MaxAppends
    BY <1>1, FS_CardinalityType DEF WriteRecord, MayBegin
  <2> QED
    BY <2>1, <2>3, <2>4, JsonlAssumption DEF JsonlTypeOK
<1>2. ASSUME NEW r \in Records, FailRecord(r) \/ WriteNewline(r) \/ FailNewline(r)
      PROVE  JsonlInv'
  <2>1. /\ file' \in Seq(Chunks)
        /\ phase' \in [Records -> {"idle", "written", "acked", "failed"}]
        /\ overlapped' \subseteq Records
    BY <1>2, ChunksAreChunks DEF FailRecord, WriteNewline, FailNewline, Write, JsonlTypeOK
  <2>2. InProgress' \subseteq InProgress
    BY <1>2 DEF FailRecord, WriteNewline, FailNewline, InProgress, JsonlTypeOK
  <2> QED
    BY <2>1, <2>2, FewerInProgress DEF JsonlTypeOK
<1>3. CASE UNCHANGED jsonlVars
  <2>1. InProgress' \subseteq InProgress
    BY <1>3 DEF jsonlVars, InProgress
  <2> QED
    BY <1>3, <2>1, FewerInProgress DEF jsonlVars, JsonlTypeOK
<1> QED
  BY <1>1, <1>2, <1>3 DEF JsonlNext

LEMMA JsonlAlways == JsonlSpec => []JsonlInv
BY JsonlBegins, JsonlStep, PTL DEF JsonlSpec

(* Every variable of the log keeps its type, and no more appends are in    *)
(* progress than may be.                                                   *)
THEOREM JsonlTypes == JsonlSpec => []JsonlTypeOK
<1>1. JsonlInv => JsonlTypeOK
  BY DEF JsonlInv
<1> QED
  BY JsonlAlways, <1>1, PTL

----------------------------------------------------------------------------
(* An acknowledged record is not at the end of the file: its newline, or   *)
(* what overlapped it, has followed.                                       *)
AckedClosed ==
  \A r \in Acked, i \in DOMAIN file : file[i] = Whole(r) => i < Len(file)

LEMMA Appended ==
  ASSUME JsonlTypeOK, NEW chunk \in Chunks, Write(chunk)
  PROVE  /\ Len(file') = Len(file) + 1
         /\ DOMAIN file' = 1 .. Len(file) + 1
         /\ DOMAIN file = 1 .. Len(file)
         /\ Len(file) \in Nat
         /\ \A i \in DOMAIN file : file'[i] = file[i]
         /\ file'[Len(file) + 1] = chunk
BY DEF Write, JsonlTypeOK

LEMMA WholesDiffer == \A r, q \in Records : Whole(r) = Whole(q) => r = q
BY DEF Whole

(* A step appends one chunk, or nothing, and acknowledges a record only    *)
(* with the newline it appends.                                            *)
LEMMA StepAppends ==
  ASSUME JsonlTypeOK, [JsonlNext]_jsonlVars
  PROVE  \/ file' = file /\ Acked' = Acked
         \/ \E r \in Records :
              /\ Write(Whole(r)) \/ Write(Cut) \/ Write(CutInChar)
              /\ phase[r] = "idle" /\ phase'[r] # "acked"
              /\ Acked' = Acked
         \/ \E r \in Records : Write(Newline) /\ Acked' = Acked \cup {r}
<1>1. ASSUME NEW r \in Records, WriteRecord(r) \/ FailRecord(r) \/ FailNewline(r)
      PROVE  Acked' = Acked /\ phase'[r] # "acked"
  BY <1>1 DEF WriteRecord, FailRecord, FailNewline, MayBegin, Acked, JsonlTypeOK
<1>2. ASSUME NEW r \in Records, WriteNewline(r)
      PROVE  Acked' = Acked \cup {r} /\ Write(Newline)
  BY <1>2 DEF WriteNewline, Acked, JsonlTypeOK
<1>3. CASE UNCHANGED jsonlVars
  BY <1>3 DEF jsonlVars, Acked
<1> QED
  BY <1>1, <1>2, <1>3 DEF JsonlNext, WriteRecord, FailRecord, FailNewline, MayBegin

LEMMA ClosedStep == JsonlTypeOK /\ AckedClosed /\ [JsonlNext]_jsonlVars => AckedClosed'
<1> SUFFICES ASSUME JsonlTypeOK, AckedClosed, [JsonlNext]_jsonlVars,
                    NEW q \in Acked', NEW i \in DOMAIN file', file'[i] = Whole(q)
             PROVE  i < Len(file')
  BY DEF AckedClosed
<1>q. q \in Records
  BY DEF Acked
<1>1. CASE file' = file /\ Acked' = Acked
  BY <1>1 DEF AckedClosed
<1>2. ASSUME NEW r \in Records, Write(Whole(r)) \/ Write(Cut) \/ Write(CutInChar),
             phase[r] = "idle", Acked' = Acked
      PROVE  i < Len(file')
  <2>1. r # q
    BY <1>2 DEF Acked
  <2>2. PICK chunk \in {Whole(r), Cut, CutInChar} : Write(chunk)
    BY <1>2
  <2>3. chunk \in Chunks /\ chunk # Whole(q)
    BY <2>1, <1>q, ChunksAreChunks, WholesDiffer DEF Whole, Cut, CutInChar
  <2> QED
    BY <1>2, <2>2, <2>3, Appended DEF AckedClosed
<1>3. ASSUME NEW r \in Records, Write(Newline), Acked' = Acked \cup {r}
      PROVE  i < Len(file')
  <2>1. Newline \in Chunks /\ Newline # Whole(q)
    BY ChunksAreChunks DEF Whole, Newline
  <2> QED
    BY <1>3, <2>1, Appended
<1> QED
  BY <1>1, <1>2, <1>3, StepAppends

(* A line that is closed keeps its neighbours. *)
LEMMA OwnLineStays ==
  ASSUME JsonlTypeOK, NEW chunk \in Chunks, Write(chunk),
         NEW i \in DOMAIN file, i < Len(file), OwnLine(i)
  PROVE  i \in DOMAIN file' /\ file'[i] = file[i] /\ OwnLine(i)'
<1>1. /\ DOMAIN file = 1 .. Len(file) /\ Len(file) \in Nat
      /\ DOMAIN file' = 1 .. Len(file) + 1
      /\ \A k \in DOMAIN file : file'[k] = file[k]
      /\ Len(file') = Len(file) + 1
  BY Appended
<1>2. i \in 1 .. Len(file) /\ i + 1 \in DOMAIN file /\ (i # 1 => i - 1 \in DOMAIN file)
  BY <1>1
<1> QED
  BY <1>1, <1>2 DEF OwnLine

LEMMA LoadedStep ==
  ASSUME JsonlTypeOK, AckedClosed, [JsonlNext]_jsonlVars
  PROVE  ~LoadFails' => (Acked \cap Loaded) \subseteq Loaded'
<1> SUFFICES ASSUME ~LoadFails', NEW r \in Acked, r \in Loaded PROVE r \in Loaded'
  OBVIOUS
<1>1. r \in SignatureHolds /\ \E i \in DOMAIN file : file[i] = Whole(r) /\ OwnLine(i)
  BY DEF Loaded
<1>2. PICK i \in DOMAIN file : file[i] = Whole(r) /\ OwnLine(i)
  BY <1>1
<1>3. i < Len(file)
  BY <1>2 DEF AckedClosed
<1>4. CASE file' = file
  BY <1>1, <1>4 DEF Loaded, OwnLine, LoadFails, SignatureHolds
<1>5. ASSUME NEW chunk \in Chunks, Write(chunk) PROVE r \in Loaded'
  <2>1. i \in DOMAIN file' /\ file'[i] = Whole(r) /\ OwnLine(i)'
    BY <1>2, <1>3, <1>5, OwnLineStays
  <2> QED
    BY <1>1, <2>1 DEF Loaded, SignatureHolds
<1> QED
  BY <1>4, <1>5, StepAppends, ChunksAreChunks

(* Whatever other appends do, in whatever order, a record that was         *)
(* acknowledged and loadable stays loadable, unless the whole load fails.  *)
THEOREM DamageIsLocal == JsonlSpec => LoadedStaysLoaded
<1>1. JsonlInit => AckedClosed
  BY DEF JsonlInit, AckedClosed
<1>2. JsonlInv => JsonlTypeOK
  BY DEF JsonlInv
<1>3. JsonlTypeOK /\ AckedClosed /\ [JsonlNext]_jsonlVars
        => [~LoadFails' => (Acked \cap Loaded) \subseteq Loaded']_jsonlVars
  BY LoadedStep
<1> QED
  BY JsonlAlways, <1>1, <1>2, <1>3, ClosedStep, PTL DEF JsonlSpec, LoadedStaysLoaded

----------------------------------------------------------------------------
(* What failed appends have left in the file: records that were cut, and   *)
(* whole ones without their newline.                                       *)
Cuts == {Cut, CutInChar}
LeftBehind(i) == file[i] \in Cuts \/ \E q \in FailedRecords : file[i] = Whole(q)
Leftovers == {i \in DOMAIN file : LeftBehind(i)}

CountInv == /\ IsFiniteSet(FailedRecords) /\ IsFiniteSet(Leftovers)
            /\ Cardinality(Leftovers) <= Cardinality(FailedRecords)

(* A record is in the file at most once, and from its first write on.      *)
PlacesInv ==
  /\ \A r \in Records, i, j \in DOMAIN file : file[i] = Whole(r) /\ file[j] = Whole(r) => i = j
  /\ \A r \in Records : phase[r] = "idle" => \A i \in DOMAIN file : file[i] # Whole(r)
  /\ \A r \in Acked \cup InProgress : \E i \in DOMAIN file : file[i] = Whole(r)

(* What stands before and behind a record that no append overlapped: only  *)
(* a leftover can share its line, and no record but it is glued to one     *)
(* that follows it.                                                        *)
LeftSide(i) == i = 1 \/ file[i - 1] = Newline \/ i - 1 \in Leftovers

RightSide(i) ==
  /\ i < Len(file)
  /\ file[i + 1] # Newline =>
       /\ file[i + 1] \in Cuts
       /\ i + 2 \in DOMAIN file /\ file[i + 2] \in Cuts \cup {Newline}

AloneAtEnd(r, i) ==
  /\ InProgress = {r}
  /\ \A j \in DOMAIN file : j > i => file[j] \in Cuts

SidesInv ==
  \A r \in (Acked \cup InProgress) \ overlapped, i \in DOMAIN file : file[i] = Whole(r) =>
    /\ LeftSide(i)
    /\ r \in Acked => RightSide(i)
    /\ r \in InProgress => AloneAtEnd(r, i)

DamageInv == JsonlTypeOK /\ AckedClosed /\ CountInv /\ PlacesInv /\ SidesInv

LEMMA ChunksDiffer ==
  /\ Newline \notin Cuts
  /\ \A r \in Records : Whole(r) # Newline /\ Whole(r) \notin Cuts
BY DEF Whole, Cuts, Cut, CutInChar, Newline

LEMMA FileFacts ==
  ASSUME JsonlTypeOK
  PROVE  /\ Len(file) \in Nat /\ DOMAIN file = 1 .. Len(file)
         /\ \A i \in DOMAIN file : \/ \E r \in Records : file[i] = Whole(r)
                                   \/ file[i] \in Cuts
                                   \/ file[i] = Newline
BY DEF JsonlTypeOK, Chunks, Cuts

(* The sets of records after each of the four steps of an append           *)
LEMMA PhasesAfter ==
  ASSUME JsonlTypeOK, NEW r \in Records
  PROVE  /\ WriteRecord(r) =>
              /\ Acked' = Acked /\ FailedRecords' = FailedRecords /\ InProgress' = InProgress \cup {r}
              /\ r \notin Acked \cup FailedRecords \cup InProgress
         /\ FailRecord(r) =>
              /\ Acked' = Acked /\ FailedRecords' = FailedRecords \cup {r} /\ InProgress' = InProgress
              /\ r \notin Acked \cup FailedRecords \cup InProgress
         /\ WriteNewline(r) =>
              /\ Acked' = Acked \cup {r} /\ FailedRecords' = FailedRecords /\ InProgress' = InProgress \ {r}
              /\ r \in InProgress /\ r \notin Acked \cup FailedRecords
         /\ FailNewline(r) =>
              /\ Acked' = Acked /\ FailedRecords' = FailedRecords \cup {r} /\ InProgress' = InProgress \ {r}
              /\ r \in InProgress /\ r \notin Acked \cup FailedRecords
BY DEF WriteRecord, FailRecord, WriteNewline, FailNewline, MayBegin, JsonlTypeOK,
       Acked, FailedRecords, InProgress

(* One more leftover needs one more append that failed.                    *)
LEMMA OneMoreFailed ==
  ASSUME CountInv, NEW r, r \notin FailedRecords, FailedRecords' = FailedRecords \cup {r},
         NEW i, Leftovers' \subseteq Leftovers \cup {i}
  PROVE  CountInv'
<1>1. IsFiniteSet(FailedRecords') /\ Cardinality(FailedRecords') = Cardinality(FailedRecords) + 1
  BY FS_AddElement DEF CountInv
<1>2. /\ IsFiniteSet(Leftovers \cup {i})
      /\ Cardinality(Leftovers \cup {i}) =
           IF i \in Leftovers THEN Cardinality(Leftovers) ELSE Cardinality(Leftovers) + 1
  BY FS_AddElement DEF CountInv
<1>3. IsFiniteSet(Leftovers') /\ Cardinality(Leftovers') <= Cardinality(Leftovers \cup {i})
  BY <1>2, FS_Subset
<1>4. /\ Cardinality(FailedRecords) \in Nat /\ Cardinality(Leftovers) \in Nat
      /\ Cardinality(Leftovers') \in Nat
  BY <1>3, FS_CardinalityType DEF CountInv
<1>5. Cardinality(Leftovers') <= Cardinality(FailedRecords')
  BY <1>1, <1>2, <1>3, <1>4 DEF CountInv
<1> QED
  BY <1>1, <1>3, <1>5 DEF CountInv

(* What the file holds stays, and so do leftovers.                         *)
LEMMA FileStays ==
  ASSUME JsonlTypeOK, FailedRecords \subseteq FailedRecords',
         file' = file \/ \E chunk \in Chunks : Write(chunk)
  PROVE  /\ Len(file) <= Len(file') /\ Len(file') \in Nat /\ DOMAIN file' = 1 .. Len(file')
         /\ \A i \in DOMAIN file : i \in DOMAIN file' /\ file'[i] = file[i]
         /\ Leftovers \subseteq Leftovers'
         /\ \A i \in DOMAIN file : LeftSide(i) => LeftSide(i)'
         /\ \A i \in DOMAIN file : RightSide(i) => RightSide(i)'
<1>1. Len(file) \in Nat /\ DOMAIN file = 1 .. Len(file)
  BY FileFacts
<1>2. /\ Len(file) <= Len(file') /\ Len(file') \in Nat /\ DOMAIN file' = 1 .. Len(file')
      /\ \A i \in DOMAIN file : i \in DOMAIN file' /\ file'[i] = file[i]
  BY <1>1, Appended
<1>3. Leftovers \subseteq Leftovers'
  BY <1>2 DEF Leftovers, LeftBehind
<1>4. ASSUME NEW i \in DOMAIN file, LeftSide(i) PROVE LeftSide(i)'
  <2>1. i = 1 \/ i - 1 \in DOMAIN file
    BY <1>1
  <2> QED
    BY <1>2, <1>3, <1>4, <2>1 DEF LeftSide
<1>5. ASSUME NEW i \in DOMAIN file, RightSide(i) PROVE RightSide(i)'
  <2>1. i + 1 \in DOMAIN file /\ i < Len(file')
    BY <1>1, <1>2, <1>5 DEF RightSide
  <2> QED
    BY <1>2, <1>5, <2>1 DEF RightSide
<1> QED
  BY <1>2, <1>3, <1>4, <1>5

(* A write of a record: what is at the end of the file is a whole line, or *)
(* a leftover, unless another append is in progress.                       *)
LEMMA WriteRecordDamages ==
  ASSUME DamageInv, NEW r \in Records, WriteRecord(r)
  PROVE  CountInv' /\ PlacesInv' /\ SidesInv'
<1>n. PICK n : n = Len(file) + 1
  OBVIOUS
<1>t. JsonlTypeOK /\ AckedClosed /\ CountInv /\ PlacesInv /\ SidesInv
  BY DEF DamageInv
<1>1. /\ Acked' = Acked /\ FailedRecords' = FailedRecords /\ InProgress' = InProgress \cup {r}
      /\ r \notin Acked \cup FailedRecords \cup InProgress /\ phase[r] = "idle"
  BY <1>t, PhasesAfter DEF WriteRecord, MayBegin
<1>2. Write(Whole(r)) /\ Whole(r) \in Chunks
  BY ChunksAreChunks DEF WriteRecord
<1>3. /\ Len(file) \in Nat /\ DOMAIN file = 1 .. Len(file)
      /\ DOMAIN file' = 1 .. n /\ file'[n] = Whole(r) /\ Len(file') = n
      /\ \A i \in DOMAIN file : file'[i] = file[i]
  BY <1>t, <1>2, <1>n, Appended
<1>4. /\ Leftovers \subseteq Leftovers'
      /\ \A i \in DOMAIN file : LeftSide(i) => LeftSide(i)'
      /\ \A i \in DOMAIN file : RightSide(i) => RightSide(i)'
  BY <1>t, <1>1, <1>2, FileStays
<1>5. \A q \in Records : q # r => Whole(q) # Whole(r)
  BY WholesDiffer
<1>6. Acked \subseteq Records /\ FailedRecords \subseteq Records /\ InProgress \subseteq Records
  BY DEF Acked, FailedRecords, InProgress
<1>7. n \notin DOMAIN file /\ \A i \in DOMAIN file' : i \in DOMAIN file \/ i = n
  BY <1>3, <1>n
<1>8. CountInv'
  <2>1. Leftovers' = Leftovers
    BY <1>1, <1>3, <1>4, <1>5, <1>6, <1>7, ChunksDiffer DEF Leftovers, LeftBehind, Cuts
  <2> QED
    BY <1>t, <1>1, <2>1 DEF CountInv
<1>9. PlacesInv'
  <2>1. \A q \in Records : phase'[q] = "idle" => phase[q] = "idle" /\ q # r
    BY <1>t DEF WriteRecord, JsonlTypeOK
  <2>2. ASSUME NEW q \in Records, NEW i \in DOMAIN file', NEW j \in DOMAIN file',
               file'[i] = Whole(q), file'[j] = Whole(q)
        PROVE  i = j
    BY <1>t, <1>1, <1>3, <1>5, <1>7, <2>2 DEF PlacesInv
  <2>3. \A q \in Records : phase'[q] = "idle" => \A i \in DOMAIN file' : file'[i] # Whole(q)
    BY <1>t, <1>3, <1>5, <1>7, <2>1 DEF PlacesInv
  <2>4. n \in DOMAIN file'
    BY <1>3, <1>n
  <2>5. \A q \in Acked' \cup InProgress' : \E i \in DOMAIN file' : file'[i] = Whole(q)
    BY <1>t, <1>1, <1>3, <1>7, <2>4 DEF PlacesInv
  <2> QED
    BY <2>2, <2>3, <2>5 DEF PlacesInv
<1>10. SidesInv'
  <2> SUFFICES ASSUME NEW q \in (Acked' \cup InProgress') \ overlapped',
                      NEW i \in DOMAIN file', file'[i] = Whole(q)
               PROVE  /\ LeftSide(i)'
                      /\ q \in Acked' => RightSide(i)'
                      /\ q \in InProgress' => AloneAtEnd(q, i)'
    BY DEF SidesInv
  <2>1. overlapped' = IF InProgress = {} THEN overlapped ELSE overlapped \cup InProgress \cup {r}
    BY DEF WriteRecord
  <2>2. CASE q = r
    <3>1. i = n /\ InProgress = {} /\ r \notin Acked
      BY <1>t, <1>1, <1>3, <1>7, <2>1, <2>2 DEF PlacesInv
    <3>2. LeftSide(n)'
      <4>1. CASE Len(file) = 0
        BY <4>1, <1>n DEF LeftSide
      <4>2. CASE Len(file) # 0
        <5>1. Len(file) \in DOMAIN file /\ n - 1 = Len(file)
          BY <1>3, <4>2, <1>n
        <5>2. file'[n - 1] = file[Len(file)]
          BY <1>3, <5>1
        <5>3. CASE file[Len(file)] = Newline
          BY <5>2, <5>3 DEF LeftSide
        <5>4. CASE file[Len(file)] \in Cuts
          BY <1>4, <5>1, <5>4 DEF LeftSide, Leftovers, LeftBehind
        <5>5. ASSUME NEW p \in Records, file[Len(file)] = Whole(p) PROVE LeftSide(n)'
          <6>1. p \notin Acked
            BY <1>t, <1>3, <5>1, <5>5 DEF AckedClosed
          <6>2. phase[p] # "idle"
            BY <1>t, <5>1, <5>5 DEF PlacesInv
          <6>3. p \in FailedRecords
            BY <1>t, <3>1, <6>1, <6>2 DEF JsonlTypeOK, FailedRecords, Acked, InProgress
          <6> QED
            BY <1>4, <5>1, <5>5, <6>3 DEF LeftSide, Leftovers, LeftBehind
        <5> QED
          BY <1>t, <5>1, <5>3, <5>4, <5>5, FileFacts
      <4> QED
        BY <4>1, <4>2
    <3>3. AloneAtEnd(r, n)'
      <4>1. InProgress' = {r}
        BY <1>1, <3>1
      <4>2. \A j \in DOMAIN file' : ~(j > n)
        BY <1>3, <1>n
      <4> QED
        BY <4>1, <4>2 DEF AloneAtEnd
    <3> QED
      BY <1>1, <2>2, <3>1, <3>2, <3>3
  <2>3. CASE q # r
    <3>1. q \in Acked /\ q \notin overlapped /\ q \notin InProgress'
      BY <1>1, <2>1, <2>3 DEF Acked, InProgress
    <3>2. i \in DOMAIN file /\ file[i] = Whole(q)
      BY <1>3, <1>5, <1>6, <1>7, <2>3, <3>1
    <3> QED
      BY <1>t, <1>4, <3>1, <3>2 DEF SidesInv
  <2> QED
    BY <2>2, <2>3
<1> QED
  BY <1>8, <1>9, <1>10

(* A write that stops short leaves at most one chunk, of a cut record.     *)
LEMMA FailRecordDamages ==
  ASSUME DamageInv, NEW r \in Records, FailRecord(r)
  PROVE  CountInv' /\ PlacesInv' /\ SidesInv'
<1>n. PICK n : n = Len(file) + 1
  OBVIOUS
<1>t. JsonlTypeOK /\ AckedClosed /\ CountInv /\ PlacesInv /\ SidesInv
  BY DEF DamageInv
<1>1. /\ Acked' = Acked /\ FailedRecords' = FailedRecords \cup {r} /\ InProgress' = InProgress
      /\ r \notin Acked \cup FailedRecords \cup InProgress /\ phase[r] = "idle"
      /\ overlapped' = overlapped
  BY <1>t, PhasesAfter DEF FailRecord, MayBegin
<1>2. file' = file \/ \E chunk \in Cuts : chunk \in Chunks /\ Write(chunk)
  BY ChunksAreChunks DEF FailRecord, Cuts
<1>3. /\ Len(file) \in Nat /\ DOMAIN file = 1 .. Len(file)
      /\ \A i \in DOMAIN file' : i \in DOMAIN file \/ (i = n /\ file'[i] \in Cuts)
      /\ \A i \in DOMAIN file : i \in DOMAIN file' /\ file'[i] = file[i]
  BY <1>t, <1>2, <1>n, FileFacts, Appended
<1>4. /\ Leftovers \subseteq Leftovers'
      /\ \A i \in DOMAIN file : LeftSide(i) => LeftSide(i)'
      /\ \A i \in DOMAIN file : RightSide(i) => RightSide(i)'
  BY <1>t, <1>1, <1>2, FileStays
<1>5. \A q \in Records : Whole(q) \notin Cuts
  BY ChunksDiffer
<1>6. Acked \subseteq Records /\ FailedRecords \subseteq Records /\ InProgress \subseteq Records
  BY DEF Acked, FailedRecords, InProgress
<1>8. CountInv'
  <2>1. Leftovers' \subseteq Leftovers \cup {n}
    BY <1>t, <1>1, <1>3 DEF Leftovers, LeftBehind, PlacesInv
  <2> QED
    BY <1>t, <1>1, <2>1, OneMoreFailed
<1>9. PlacesInv'
  <2>1. \A q \in Records : phase'[q] = "idle" => phase[q] = "idle"
    BY <1>t DEF FailRecord, JsonlTypeOK
  <2>2. ASSUME NEW q \in Records, NEW i \in DOMAIN file', NEW j \in DOMAIN file',
               file'[i] = Whole(q), file'[j] = Whole(q)
        PROVE  i = j
    BY <1>t, <1>3, <1>5, <2>2 DEF PlacesInv
  <2>3. \A q \in Records : phase'[q] = "idle" => \A i \in DOMAIN file' : file'[i] # Whole(q)
    BY <1>t, <1>3, <1>5, <2>1 DEF PlacesInv
  <2>5. \A q \in Acked' \cup InProgress' : \E i \in DOMAIN file' : file'[i] = Whole(q)
    BY <1>t, <1>1, <1>3 DEF PlacesInv
  <2> QED
    BY <2>2, <2>3, <2>5 DEF PlacesInv
<1>10. SidesInv'
  <2> SUFFICES ASSUME NEW q \in (Acked' \cup InProgress') \ overlapped',
                      NEW i \in DOMAIN file', file'[i] = Whole(q)
               PROVE  /\ LeftSide(i)'
                      /\ q \in Acked' => RightSide(i)'
                      /\ q \in InProgress' => AloneAtEnd(q, i)'
    BY DEF SidesInv
  <2>1. q \in (Acked \cup InProgress) \ overlapped /\ i \in DOMAIN file /\ file[i] = Whole(q)
    BY <1>1, <1>3, <1>5, <1>6
  <2>2. LeftSide(i) /\ (q \in Acked => RightSide(i)) /\ (q \in InProgress => AloneAtEnd(q, i))
    BY <1>t, <2>1 DEF SidesInv
  <2>3. AloneAtEnd(q, i) => AloneAtEnd(q, i)'
    BY <1>1, <1>3 DEF AloneAtEnd
  <2> QED
    BY <1>1, <1>4, <2>1, <2>2, <2>3
<1> QED
  BY <1>8, <1>9, <1>10

(* A newline closes the line of the one append that is in progress, if no  *)
(* append overlaps it.                                                     *)
LEMMA WriteNewlineDamages ==
  ASSUME DamageInv, NEW r \in Records, WriteNewline(r)
  PROVE  CountInv' /\ PlacesInv' /\ SidesInv'
<1>n. PICK n : n = Len(file) + 1
  OBVIOUS
<1>t. JsonlTypeOK /\ AckedClosed /\ CountInv /\ PlacesInv /\ SidesInv
  BY DEF DamageInv
<1>1. /\ Acked' = Acked \cup {r} /\ FailedRecords' = FailedRecords /\ InProgress' = InProgress \ {r}
      /\ r \in InProgress /\ r \notin Acked \cup FailedRecords
      /\ overlapped' = overlapped
  BY <1>t, PhasesAfter DEF WriteNewline
<1>2. Write(Newline) /\ Newline \in Chunks
  BY ChunksAreChunks DEF WriteNewline
<1>3. /\ Len(file) \in Nat /\ DOMAIN file = 1 .. Len(file)
      /\ DOMAIN file' = 1 .. n /\ file'[n] = Newline /\ Len(file') = n
      /\ \A i \in DOMAIN file : file'[i] = file[i]
      /\ \A i \in DOMAIN file' : i \in DOMAIN file \/ i = n
  BY <1>t, <1>2, <1>n, Appended
<1>4. /\ Leftovers \subseteq Leftovers'
      /\ \A i \in DOMAIN file : LeftSide(i) => LeftSide(i)'
      /\ \A i \in DOMAIN file : RightSide(i) => RightSide(i)'
  BY <1>t, <1>1, <1>2, FileStays
<1>5. Newline \notin Cuts /\ \A q \in Records : Whole(q) # Newline
  BY ChunksDiffer
<1>6. Acked \subseteq Records /\ FailedRecords \subseteq Records /\ InProgress \subseteq Records
  BY DEF Acked, FailedRecords, InProgress
<1>8. CountInv'
  <2>1. Leftovers' = Leftovers
    BY <1>1, <1>3, <1>4, <1>5, <1>6 DEF Leftovers, LeftBehind
  <2> QED
    BY <1>t, <1>1, <2>1 DEF CountInv
<1>9. PlacesInv'
  <2>1. \A q \in Records : phase'[q] = "idle" => phase[q] = "idle"
    BY <1>t DEF WriteNewline, JsonlTypeOK
  <2>2. ASSUME NEW q \in Records, NEW i \in DOMAIN file', NEW j \in DOMAIN file',
               file'[i] = Whole(q), file'[j] = Whole(q)
        PROVE  i = j
    BY <1>t, <1>3, <1>5, <2>2 DEF PlacesInv
  <2>3. \A q \in Records : phase'[q] = "idle" => \A i \in DOMAIN file' : file'[i] # Whole(q)
    BY <1>t, <1>3, <1>5, <2>1 DEF PlacesInv
  <2>4. \A i \in DOMAIN file : i \in DOMAIN file'
    BY <1>3, <1>n
  <2>5. \A q \in Acked' \cup InProgress' : \E i \in DOMAIN file' : file'[i] = Whole(q)
    BY <1>t, <1>1, <1>3, <2>4 DEF PlacesInv
  <2> QED
    BY <2>2, <2>3, <2>5 DEF PlacesInv
<1>10. SidesInv'
  <2> SUFFICES ASSUME NEW q \in (Acked' \cup InProgress') \ overlapped',
                      NEW i \in DOMAIN file', file'[i] = Whole(q)
               PROVE  /\ LeftSide(i)'
                      /\ q \in Acked' => RightSide(i)'
                      /\ q \in InProgress' => AloneAtEnd(q, i)'
    BY DEF SidesInv
  <2>1. q \in (Acked \cup InProgress) \ overlapped /\ i \in DOMAIN file /\ file[i] = Whole(q)
    BY <1>1, <1>3, <1>5, <1>6
  <2>2. LeftSide(i) /\ (q \in Acked => RightSide(i)) /\ (q \in InProgress => AloneAtEnd(q, i))
    BY <1>t, <2>1 DEF SidesInv
  <2>3. q \notin InProgress'
    BY <1>1, <2>1, <2>2 DEF AloneAtEnd
  <2>4. CASE q \in Acked
    BY <1>4, <2>1, <2>2, <2>3, <2>4
  <2>5. CASE q \notin Acked
    <3>1. AloneAtEnd(q, i)
      BY <2>1, <2>2, <2>5
    <3>2. i < n /\ i + 1 \in DOMAIN file'
      BY <1>3, <1>n, <2>1
    <3>3. CASE i = Len(file)
      BY <1>3, <1>4, <1>n, <2>1, <2>2, <2>3, <3>2, <3>3 DEF RightSide
    <3>4. CASE i # Len(file)
      <4>1. i + 1 \in DOMAIN file /\ file[i + 1] \in Cuts
        BY <1>3, <2>1, <3>1, <3>4 DEF AloneAtEnd
      <4>2. i + 2 \in DOMAIN file' /\ (i + 2 \in DOMAIN file => file[i + 2] \in Cuts)
        BY <1>3, <1>n, <2>1, <3>1, <4>1 DEF AloneAtEnd
      <4>3. file'[i + 2] \in Cuts \cup {Newline} /\ file'[i + 1] \in Cuts
        BY <1>3, <4>1, <4>2
      <4> QED
        BY <1>3, <1>4, <2>1, <2>2, <2>3, <3>2, <4>2, <4>3 DEF RightSide
    <3> QED
      BY <3>3, <3>4
  <2> QED
    BY <2>4, <2>5
<1> QED
  BY <1>8, <1>9, <1>10

(* A newline that fails leaves a whole record behind.                      *)
LEMMA FailNewlineDamages ==
  ASSUME DamageInv, NEW r \in Records, FailNewline(r)
  PROVE  CountInv' /\ PlacesInv' /\ SidesInv'
<1>t. JsonlTypeOK /\ AckedClosed /\ CountInv /\ PlacesInv /\ SidesInv
  BY DEF DamageInv
<1>1. /\ Acked' = Acked /\ FailedRecords' = FailedRecords \cup {r} /\ InProgress' = InProgress \ {r}
      /\ r \in InProgress /\ r \notin Acked \cup FailedRecords
      /\ overlapped' = overlapped /\ file' = file
  BY <1>t, PhasesAfter DEF FailNewline
<1>2. PICK i \in DOMAIN file : file[i] = Whole(r)
  BY <1>t, <1>1 DEF PlacesInv
<1>4. /\ Leftovers \subseteq Leftovers'
      /\ \A k \in DOMAIN file : LeftSide(k) => LeftSide(k)'
      /\ \A k \in DOMAIN file : RightSide(k) => RightSide(k)'
  BY <1>t, <1>1, FileStays
<1>8. CountInv'
  <2>1. Leftovers' \subseteq Leftovers \cup {i}
    BY <1>t, <1>1, <1>2 DEF Leftovers, LeftBehind, PlacesInv
  <2> QED
    BY <1>t, <1>1, <2>1, OneMoreFailed
<1>9. PlacesInv'
  <2>1. \A q \in Records : phase'[q] = "idle" => phase[q] = "idle"
    BY <1>t DEF FailNewline, JsonlTypeOK
  <2> QED
    BY <1>t, <1>1, <2>1 DEF PlacesInv
<1>10. SidesInv'
  <2> SUFFICES ASSUME NEW q \in (Acked' \cup InProgress') \ overlapped',
                      NEW k \in DOMAIN file', file'[k] = Whole(q)
               PROVE  /\ LeftSide(k)'
                      /\ q \in Acked' => RightSide(k)'
                      /\ q \in InProgress' => AloneAtEnd(q, k)'
    BY DEF SidesInv
  <2>1. q \in (Acked \cup InProgress) \ overlapped /\ k \in DOMAIN file /\ file[k] = Whole(q)
    BY <1>1
  <2>2. LeftSide(k) /\ (q \in Acked => RightSide(k)) /\ (q \in InProgress => AloneAtEnd(q, k))
    BY <1>t, <2>1 DEF SidesInv
  <2>3. q \notin InProgress'
    BY <1>1, <2>1, <2>2 DEF AloneAtEnd
  <2> QED
    BY <1>1, <1>4, <2>1, <2>2, <2>3
<1> QED
  BY <1>8, <1>9, <1>10

LEMMA DamageInit == JsonlInit => DamageInv
<1> SUFFICES ASSUME JsonlInit PROVE DamageInv
  OBVIOUS
<1>1. JsonlTypeOK
  BY JsonlBegins DEF JsonlInv
<1>2. file = <<>> /\ FailedRecords = {} /\ Acked = {} /\ InProgress = {}
  BY DEF JsonlInit, FailedRecords, Acked, InProgress
<1>3. DOMAIN file = {}
  BY <1>2
<1>4. Leftovers = {}
  BY <1>3 DEF Leftovers
<1>5. CountInv
  <2>1. Cardinality(Leftovers) = Cardinality(FailedRecords) /\ Cardinality(FailedRecords) = 0
    BY <1>2, <1>4, FS_EmptySet
  <2> QED
    BY <1>2, <1>4, <2>1, FS_EmptySet DEF CountInv
<1>6. PlacesInv /\ SidesInv /\ AckedClosed
  BY <1>2, <1>3 DEF PlacesInv, SidesInv, AckedClosed
<1> QED
  BY <1>1, <1>5, <1>6 DEF DamageInv

LEMMA DamageStep == JsonlInv /\ DamageInv /\ [JsonlNext]_jsonlVars => DamageInv'
<1> SUFFICES ASSUME JsonlInv, DamageInv, [JsonlNext]_jsonlVars PROVE DamageInv'
  OBVIOUS
<1>1. JsonlTypeOK' /\ AckedClosed'
  <2>1. JsonlInv'
    BY JsonlStep
  <2>2. AckedClosed'
    BY ClosedStep DEF DamageInv
  <2> QED
    BY <2>1, <2>2 DEF JsonlInv
<1>2. CASE UNCHANGED jsonlVars
  <2>1. /\ file' = file /\ overlapped' = overlapped /\ phase' = phase
        /\ Acked' = Acked /\ FailedRecords' = FailedRecords /\ InProgress' = InProgress
    BY <1>2 DEF jsonlVars, Acked, FailedRecords, InProgress
  <2>2. Leftovers' = Leftovers
    BY <2>1 DEF Leftovers, LeftBehind
  <2>3. CountInv' /\ PlacesInv'
    BY <2>1, <2>2 DEF DamageInv, CountInv, PlacesInv
  <2>4. SidesInv'
    BY <2>1, <2>2 DEF DamageInv, SidesInv, LeftSide, RightSide, AloneAtEnd
  <2> QED
    BY <1>1, <2>3, <2>4 DEF DamageInv
<1>3. CASE JsonlNext
  <2>1. PICK r \in Records : WriteRecord(r) \/ FailRecord(r) \/ WriteNewline(r) \/ FailNewline(r)
    BY <1>3 DEF JsonlNext
  <2>2. CountInv' /\ PlacesInv' /\ SidesInv'
    BY <2>1, WriteRecordDamages, FailRecordDamages, WriteNewlineDamages, FailNewlineDamages
  <2> QED
    BY <1>1, <2>2 DEF DamageInv
<1> QED
  BY <1>2, <1>3

LEMMA DamageInvHolds == JsonlSpec => []DamageInv
BY DamageInit, DamageStep, JsonlAlways, PTL DEF JsonlSpec

(* A record that is not loaded shares its line with a leftover, beside it. *)
Spoiled == (Acked \cap Valid) \ (Loaded \cup overlapped)
Place(r) == CHOOSE i \in DOMAIN file : file[i] = Whole(r)
Spoiler(r) ==
  IF Place(r) = 1 \/ file[Place(r) - 1] = Newline THEN Place(r) + 1 ELSE Place(r) - 1

LEMMA SpoiledAtPlace ==
  ASSUME DamageInv, ~LoadFails, NEW r \in Spoiled
  PROVE  /\ Place(r) \in DOMAIN file /\ file[Place(r)] = Whole(r)
         /\ LeftSide(Place(r)) /\ RightSide(Place(r)) /\ ~OwnLine(Place(r))
         /\ Place(r) \in Nat
<1>1. r \in Acked /\ r \in Valid /\ r \notin overlapped /\ r \notin Loaded
  BY DEF Spoiled
<1>2. \E i \in DOMAIN file : file[i] = Whole(r)
  BY <1>1 DEF DamageInv, PlacesInv
<1>3. Place(r) \in DOMAIN file /\ file[Place(r)] = Whole(r)
  BY <1>2 DEF Place
<1>4. LeftSide(Place(r)) /\ RightSide(Place(r))
  BY <1>1, <1>3 DEF DamageInv, SidesInv
<1>5. ~OwnLine(Place(r))
  BY <1>1, <1>3 DEF Loaded, SignatureHolds
<1> QED
  BY <1>3, <1>4, <1>5, FileFacts DEF DamageInv

LEMMA SpoilerIsLeftover ==
  ASSUME DamageInv, ~LoadFails, NEW r \in Spoiled
  PROVE  /\ Spoiler(r) \in Leftovers
         /\ \/ Spoiler(r) = Place(r) - 1
            \/ Spoiler(r) = Place(r) + 1 /\ Place(r) + 2 \in DOMAIN file
               /\ file[Place(r) + 2] \in Cuts \cup {Newline}
<1> DEFINE i == Place(r)
<1>1. /\ i \in DOMAIN file /\ i \in Nat /\ LeftSide(i) /\ RightSide(i) /\ ~OwnLine(i)
  BY SpoiledAtPlace
<1>2. Spoiler(r) = IF i = 1 \/ file[i - 1] = Newline THEN i + 1 ELSE i - 1
  BY DEF Spoiler
<1>3. Len(file) \in Nat /\ DOMAIN file = 1 .. Len(file)
  BY FileFacts DEF DamageInv
<1> HIDE DEF i
<1>4. CASE i = 1 \/ file[i - 1] = Newline
  <2>1. file[i + 1] # Newline
    BY <1>1, <1>4 DEF OwnLine
  <2>2. i + 1 \in DOMAIN file /\ file[i + 1] \in Cuts
        /\ i + 2 \in DOMAIN file /\ file[i + 2] \in Cuts \cup {Newline}
    BY <1>1, <1>3, <2>1 DEF RightSide
  <2>3. i + 1 \in Leftovers
    BY <2>2 DEF Leftovers, LeftBehind
  <2> QED
    BY <1>2, <1>4, <2>2, <2>3 DEF i
<1>5. CASE ~(i = 1 \/ file[i - 1] = Newline)
  <2>1. i - 1 \in Leftovers
    BY <1>1, <1>5 DEF LeftSide
  <2> QED
    BY <1>2, <1>5, <2>1 DEF i
<1> QED
  BY <1>4, <1>5

(* Two records are never spoiled by one leftover.                          *)
LEMMA SpoilersDiffer ==
  ASSUME DamageInv, ~LoadFails, NEW r \in Spoiled, NEW q \in Spoiled, Spoiler(r) = Spoiler(q)
  PROVE  r = q
<1>1. /\ Place(r) \in Nat /\ file[Place(r)] = Whole(r) /\ r \in Records
      /\ Place(q) \in Nat /\ file[Place(q)] = Whole(q) /\ q \in Records
  BY SpoiledAtPlace DEF Spoiled, Acked
<1>2. /\ \/ Spoiler(r) = Place(r) - 1
         \/ Spoiler(r) = Place(r) + 1 /\ file[Place(r) + 2] \in Cuts \cup {Newline}
      /\ \/ Spoiler(q) = Place(q) - 1
         \/ Spoiler(q) = Place(q) + 1 /\ file[Place(q) + 2] \in Cuts \cup {Newline}
  BY SpoilerIsLeftover
<1>3. Place(q) # Place(r) + 2 \/ file[Place(r) + 2] \notin Cuts \cup {Newline}
  BY <1>1, ChunksDiffer
<1>4. Place(r) # Place(q) + 2 \/ file[Place(q) + 2] \notin Cuts \cup {Newline}
  BY <1>1, ChunksDiffer
<1>5. Place(r) = Place(q)
  BY <1>1, <1>2, <1>3, <1>4
<1> QED
  BY <1>1, <1>5, WholesDiffer

(* However many appends there are, in whatever order, overlapping, torn or *)
(* dead: the records that were acknowledged without being overlapped and   *)
(* do not load are no more than the appends that failed.                   *)
THEOREM DamageIsBounded == JsonlSpec => []OneFailureCostsOneRecord
<1>1. DamageInv => OneFailureCostsOneRecord
  <2> SUFFICES ASSUME DamageInv, ~LoadFails PROVE Cardinality(Spoiled) <= Cardinality(FailedRecords)
    BY DEF OneFailureCostsOneRecord, Spoiled
  <2> DEFINE f == [r \in Spoiled |-> Spoiler(r)]
  <2>1. f \in [Spoiled -> Leftovers]
    BY SpoilerIsLeftover
  <2>2. \A r, q \in Spoiled : f[r] = f[q] => r = q
    BY SpoilersDiffer
  <2>3. f \in Injection(Spoiled, Leftovers)
    BY <2>1, <2>2 DEF Injection, IsInjective
  <2>4. IsFiniteSet(Leftovers) /\ IsFiniteSet(FailedRecords)
        /\ Cardinality(Leftovers) <= Cardinality(FailedRecords)
    BY DEF DamageInv, CountInv
  <2> HIDE DEF f
  <2>5. IsFiniteSet(Spoiled) /\ Cardinality(Spoiled) <= Cardinality(Leftovers)
    BY <2>3, <2>4, FS_Injection
  <2>6. Cardinality(Spoiled) \in Nat /\ Cardinality(Leftovers) \in Nat /\ Cardinality(FailedRecords) \in Nat
    BY <2>4, <2>5, FS_CardinalityType
  <2> QED
    BY <2>4, <2>5, <2>6
<1> QED
  BY <1>1, DamageInvHolds, PTL

----------------------------------------------------------------------------
(* IdentityConverges is not inductive: that a rename leaves the callers    *)
(* that have a key with one of their rivals' needs that whoever is still   *)
(* creating an identity was doing so when they got theirs (LateRivals),    *)
(* and that nobody begins to create one once a caller has a key            *)
(* (NobodyBeforeTheFile).                                                  *)
Keyed == {c \in Calls : step[c] \in {"chmod", "ok"}}

WholeBeforeRename == \A c \in Calls : step[c] = "rename" => tmp[c] = "whole"
NobodyBeforeTheFile == keyFile.state = "absent" => Keyed = {}
DamagedIsLeft == keyFile.state = "damaged" => \A c \in Calls : step[c] \in {"idle", "err"}
KeyOrRival == \A c \in Keyed : keyFile.key \in {key[c]} \cup rivals[c]
LateRivals == \A c \in Keyed : Creating \ {c} \subseteq rivals[c]

IdentityInv ==
  /\ IdentityTypeOK
  /\ WholeBeforeRename
  /\ NobodyBeforeTheFile
  /\ DamagedIsLeft
  /\ KeyOrRival
  /\ LateRivals

USE DEF Keyed, Creating

(* What the steps that leave the file, the keys and the rivals alone keep: *)
(* a call only leaves Creating, or stays there, or has its key already.    *)
LEMMA Onward ==
  ASSUME IdentityInv, NEW c \in Calls, NEW s \in {"rename", "ok", "err"},
         GoOn(c, s), UNCHANGED <<keyFile, key, rivals>>,
         tmp' \in [Calls -> {"absent", "damaged", "whole"}],
         \A d \in Calls \ {c} : tmp'[d] = tmp[d],
         s = "rename" => step[c] = "write" /\ tmp'[c] = "whole",
         s = "ok" => step[c] = "chmod"
  PROVE  IdentityInv'
<1> USE DEF IdentityInv, GoOn
<1>1. step' \in [Calls -> {"idle", "write", "rename", "chmod", "ok", "err"}]
  BY DEF IdentityTypeOK
<1>2. /\ step'[c] = s
      /\ \A d \in Calls \ {c} : step'[d] = step[d]
  BY DEF IdentityTypeOK
<1>3. Keyed' \subseteq Keyed /\ Creating' \subseteq Creating
  BY <1>2
<1>4. IdentityTypeOK'
  BY <1>1 DEF IdentityTypeOK
<1>5. WholeBeforeRename'
  BY <1>2 DEF WholeBeforeRename
<1>6. NobodyBeforeTheFile'
  BY <1>3 DEF NobodyBeforeTheFile
<1>7. DamagedIsLeft'
  BY <1>2 DEF DamagedIsLeft
<1>8. KeyOrRival'
  BY <1>3 DEF KeyOrRival
<1>9. LateRivals'
  BY <1>3 DEF LateRivals
<1> QED
  BY <1>4, <1>5, <1>6, <1>7, <1>8, <1>9

(* A call that finds the file takes its key; one that finds none begins to *)
(* create it, and then no call has a key that it would have to know of.    *)
LEMMA LoadKeeps ==
  ASSUME IdentityInv, NEW c \in Calls, Load(c)
  PROVE  IdentityInv'
<1> USE DEF IdentityInv
<1>1. CASE keyFile.state = "whole"
  <2>1. /\ GoOn(c, "ok")
        /\ Gets(c, keyFile.key)
        /\ UNCHANGED <<keyFile, tmp>>
        /\ step[c] = "idle"
    BY <1>1 DEF Load, Missing
  <2>2. /\ step' = [step EXCEPT ![c] = "ok"]
        /\ key' = [key EXCEPT ![c] = keyFile.key]
        /\ rivals' = [rivals EXCEPT ![c] = Creating \ {c}]
    BY <2>1 DEF GoOn, Gets
  <2>3. /\ step'[c] = "ok" /\ key'[c] = keyFile.key /\ rivals'[c] = Creating \ {c}
        /\ \A d \in Calls \ {c} : step'[d] = step[d] /\ key'[d] = key[d]
                                   /\ rivals'[d] = rivals[d]
    BY <2>2 DEF IdentityTypeOK
  <2>4. Keyed' = Keyed \cup {c} /\ Creating' = Creating
    BY <2>1, <2>3
  <2>5. IdentityTypeOK'
    <3>1. keyFile.key \in Calls \cup {Earlier, NoKey}
      BY DEF IdentityTypeOK, Absent, Damaged, Saved
    <3>2. key' \in [Calls -> Calls \cup {Earlier, NoKey}]
      BY <2>2, <3>1 DEF IdentityTypeOK
    <3>3. rivals' \in [Calls -> SUBSET Calls]
      BY <2>2 DEF IdentityTypeOK
    <3>4. step' \in [Calls -> {"idle", "write", "rename", "chmod", "ok", "err"}]
      BY <2>2 DEF IdentityTypeOK
    <3> QED
      BY <2>1, <3>2, <3>3, <3>4 DEF IdentityTypeOK, Absent, Damaged, Saved
  <2>6. WholeBeforeRename'
    BY <2>1, <2>3 DEF WholeBeforeRename
  <2>7. NobodyBeforeTheFile' /\ DamagedIsLeft'
    BY <1>1, <2>1 DEF NobodyBeforeTheFile, DamagedIsLeft
  <2>8. KeyOrRival'
    BY <2>1, <2>3, <2>4 DEF KeyOrRival
  <2>9. LateRivals'
    BY <2>3, <2>4 DEF LateRivals
  <2> QED
    BY <2>5, <2>6, <2>7, <2>8, <2>9
<1>2. CASE keyFile.state = "damaged"
  <2>1. GoOn(c, "err") /\ UNCHANGED <<keyFile, tmp, key, rivals>>
    BY <1>2 DEF Load, Missing
  <2> QED
    BY <2>1, Onward DEF IdentityTypeOK
<1>3. CASE keyFile.state = "absent"
  <2>1. GoOn(c, "write") /\ UNCHANGED <<keyFile, tmp, key, rivals>>
    BY <1>3 DEF Load, Missing
  <2>2. /\ step' \in [Calls -> {"idle", "write", "rename", "chmod", "ok", "err"}]
        /\ step'[c] = "write"
        /\ \A d \in Calls \ {c} : step'[d] = step[d]
    BY <2>1 DEF IdentityTypeOK, GoOn
  <2>3. Keyed' = {}
    BY <1>3, <2>2 DEF NobodyBeforeTheFile
  <2>4. IdentityTypeOK'
    BY <2>1, <2>2 DEF IdentityTypeOK, Absent, Damaged, Saved
  <2>5. WholeBeforeRename'
    BY <2>1, <2>2 DEF WholeBeforeRename
  <2>6. NobodyBeforeTheFile' /\ KeyOrRival' /\ LateRivals'
    BY <2>3 DEF NobodyBeforeTheFile, KeyOrRival, LateRivals
  <2>7. DamagedIsLeft'
    BY <1>3, <2>1 DEF DamagedIsLeft
  <2> QED
    BY <2>4, <2>5, <2>6, <2>7
<1> QED
  BY <1>1, <1>2, <1>3 DEF IdentityTypeOK, Absent, Damaged, Saved

(* A rename replaces the file under every caller that has a key; each of   *)
(* them had the call that renames among its rivals.                        *)
LEMMA RenameKeeps ==
  ASSUME IdentityInv, NEW c \in Calls, RenameTmp(c)
  PROVE  IdentityInv'
<1> USE DEF IdentityInv
<1>1. /\ step[c] = "rename"
      /\ keyFile' = [key |-> c, state |-> "whole"]
      /\ tmp' = [tmp EXCEPT ![c] = "absent"]
      /\ step' = [step EXCEPT ![c] = "chmod"]
      /\ key' = [key EXCEPT ![c] = c]
      /\ rivals' = [rivals EXCEPT ![c] = Creating \ {c}]
  BY DEF RenameTmp, WholeBeforeRename, GoOn, Gets
<1>2. /\ step'[c] = "chmod" /\ key'[c] = c /\ rivals'[c] = Creating \ {c}
      /\ \A d \in Calls \ {c} : /\ step'[d] = step[d] /\ key'[d] = key[d]
                                 /\ rivals'[d] = rivals[d] /\ tmp'[d] = tmp[d]
  BY <1>1 DEF IdentityTypeOK
<1>3. Keyed' = Keyed \cup {c} /\ Creating' = Creating \ {c} /\ c \in Creating
  BY <1>1, <1>2
<1>4. IdentityTypeOK'
  BY <1>1 DEF IdentityTypeOK, Saved
<1>5. WholeBeforeRename'
  BY <1>2 DEF WholeBeforeRename
<1>6. NobodyBeforeTheFile' /\ DamagedIsLeft'
  BY <1>1 DEF NobodyBeforeTheFile, DamagedIsLeft
<1>7. KeyOrRival'
  <2>1. ASSUME NEW d \in Keyed, d # c
        PROVE  c \in rivals[d]
    BY <1>3, <2>1 DEF LateRivals
  <2> QED
    BY <1>1, <1>2, <1>3, <2>1 DEF KeyOrRival
<1>8. LateRivals'
  BY <1>2, <1>3 DEF LateRivals
<1> QED
  BY <1>4, <1>5, <1>6, <1>7, <1>8

LEMMA IdentityInvHolds == IdentitySpec => []IdentityInv
<1>1. IdentityInit => IdentityInv
  <2> SUFFICES ASSUME IdentityInit PROVE IdentityInv
    OBVIOUS
  <2>1. Keyed = {}
    BY DEF IdentityInit
  <2>2. IdentityTypeOK
    BY DEF IdentityInit, IdentityTypeOK
  <2> QED
    BY <2>1, <2>2 DEF IdentityInit, IdentityInv, WholeBeforeRename,
                      NobodyBeforeTheFile, DamagedIsLeft, KeyOrRival, LateRivals
<1>2. IdentityInv /\ [IdentityNext]_identityVars => IdentityInv'
  <2> SUFFICES ASSUME IdentityInv, [IdentityNext]_identityVars PROVE IdentityInv'
    OBVIOUS
  <2>1. CASE UNCHANGED identityVars
    BY <2>1 DEF identityVars, IdentityInv, IdentityTypeOK, WholeBeforeRename,
                NobodyBeforeTheFile, DamagedIsLeft, KeyOrRival, LateRivals
  <2>2. ASSUME NEW c \in Calls, Load(c) PROVE IdentityInv'
    BY <2>2, LoadKeeps
  <2>3. ASSUME NEW c \in Calls, WriteTmp(c) PROVE IdentityInv'
    <3>1. /\ step[c] = "write" /\ UNCHANGED <<keyFile, key, rivals>>
          /\ \A d \in Calls \ {c} : tmp'[d] = tmp[d]
          /\ tmp' \in [Calls -> {"absent", "damaged", "whole"}]
          /\ \/ GoOn(c, "rename") /\ tmp'[c] = "whole"
             \/ GoOn(c, "err")
      BY <2>3 DEF WriteTmp, IdentityInv, IdentityTypeOK
    <3> QED
      BY <3>1, Onward
  <2>4. ASSUME NEW c \in Calls, RenameTmp(c) PROVE IdentityInv'
    BY <2>4, RenameKeeps
  <2>5. ASSUME NEW c \in Calls, RenameFails(c) PROVE IdentityInv'
    <3>1. /\ GoOn(c, "err") /\ UNCHANGED <<keyFile, key, rivals>>
          /\ \A d \in Calls \ {c} : tmp'[d] = tmp[d]
          /\ tmp' \in [Calls -> {"absent", "damaged", "whole"}]
      BY <2>5 DEF RenameFails, IdentityInv, IdentityTypeOK
    <3> QED
      BY <3>1, Onward
  <2>6. ASSUME NEW c \in Calls, SetOwnerOnly(c) \/ Die(c) PROVE IdentityInv'
    <3>1. /\ UNCHANGED <<keyFile, tmp, key, rivals>>
          /\ \/ GoOn(c, "ok") /\ step[c] = "chmod"
             \/ GoOn(c, "err")
      BY <2>6 DEF SetOwnerOnly, Die
    <3>2. tmp' \in [Calls -> {"absent", "damaged", "whole"}]
      BY <3>1 DEF IdentityInv, IdentityTypeOK
    <3> QED
      BY <3>1, <3>2, Onward
  <2> QED
    BY <2>1, <2>2, <2>3, <2>4, <2>5, <2>6 DEF IdentityNext
<1> QED
  BY <1>1, <1>2, PTL DEF IdentitySpec

(* Every process that shares the directory reads and writes what           *)
(* load_or_create expects: the file is missing, one saved key, or damaged. *)
THEOREM IdentityTypes == IdentitySpec => []IdentityTypeOK
<1>1. IdentityInv => IdentityTypeOK
  BY DEF IdentityInv
<1> QED
  BY <1>1, IdentityInvHolds, PTL

(* However many processes call load_or_create at once, the key a call      *)
(* returns is the file's, or was replaced by a call that was creating its  *)
(* own then; and no call replaces or leaves a damaged file.                *)
THEOREM IdentityConvergence == IdentitySpec => []IdentityConverges
<1>1. IdentityInv => IdentityConverges
  BY DEF IdentityInv, IdentityConverges, KeyOrRival, DamagedIsLeft
<1> QED
  BY <1>1, IdentityInvHolds, PTL

HIDE DEF Keyed, Creating

----------------------------------------------------------------------------
(* ReportsOneDay: the count travels, from the counter of a process to the  *)
(* payload of its thread, and from there, perhaps days later, to a row of  *)
(* the service.  ProcessOK says of the first two what the property says of *)
(* the last, and that a report is never sent without an id of its own.     *)
Days == 0 .. MaxDay
Threads == {"first", "asleep", "lock", "load", "create", "write", "post", "ended"}

States ==
  [id : Processes \cup {Nobody}, count : Nat, current : Days, sent : Int,
   thread : Threads, force : BOOLEAN, asked : Days, payload : Nat]

(* What holds of the counter of a process in state s, when it has made m   *)
(* by day t and the calls w have yet to take the lock: the calls under way *)
(* were made but are not counted.                                          *)
CountOK(s, w, m, t) ==
  /\ s.current <= t /\ s.count + w[s.current] <= m[s.current]
  /\ \A d \in Days : w[d] <= m[d] /\ (w[d] > 0 => d <= t)

ProcessOK(p, s, w, m, t) ==
  /\ s \in States
  /\ CountOK(s, w, m, t)
  /\ s.thread = "load" => s.id = Nobody
  /\ s.thread \in {"create", "write"} => s.id = p
  /\ s.thread = "post" => s.id # Nobody /\ \E d \in 0 .. t : s.payload <= m[d]

MadeOK == made \in [Processes -> [Days -> Nat]] /\ recording \in [Processes -> [Days -> Nat]]
DayOK == today \in Days
FileOK == idFile \in Processes \cup {Nobody}
ProcessesOK ==
  /\ DOMAIN proc = Processes
  /\ proc = [p \in Processes |-> proc[p]]
  /\ \A p \in Processes : ProcessOK(p, proc[p], recording[p], made[p], today)

RowOK(k, e) ==
  /\ k \in (Processes \cup {Nobody}) \X Days
  /\ k[1] # Nobody
  /\ e.count \in Nat
  /\ \E p \in Processes, d \in 0 .. k[2] : proc[p].id = k[1] /\ e.count <= made[p][d]
EventsOK == \A k \in DOMAIN events : RowOK(k, events[k])

TelemetryInv == MadeOK /\ DayOK /\ FileOK /\ ProcessesOK /\ EventsOK

(* An install id is kept, and what was made stays made, so that rows that  *)
(* are right remain so.                                                    *)
LEMMA RowsStay ==
  ASSUME EventsOK, MadeOK, MadeOK', events' = events,
         \A p \in Processes :
           /\ proc[p].id # Nobody => proc'[p].id = proc[p].id
           /\ \A d \in Days : made[p][d] <= made'[p][d]
  PROVE  EventsOK'
<1> SUFFICES ASSUME NEW k \in DOMAIN events PROVE RowOK(k, events[k])'
  BY DEF EventsOK
<1>1. RowOK(k, events[k])
  BY DEF EventsOK
<1>2. PICK p \in Processes, d \in 0 .. k[2] :
        proc[p].id = k[1] /\ events[k].count <= made[p][d]
  BY <1>1 DEF RowOK
<1>3. proc'[p].id = k[1]
  BY <1>1, <1>2 DEF RowOK
<1>4. d \in Days
  BY <1>1, <1>2, TelemetryAssumption DEF RowOK, Days
<1>5. events'[k].count <= made'[p][d]
  <2>1. events[k].count \in Nat /\ made[p][d] \in Nat /\ made'[p][d] \in Nat
    BY <1>1, <1>4 DEF RowOK, MadeOK
  <2> QED
    BY <1>2, <1>4, <2>1
<1> QED
  BY <1>1, <1>2, <1>3, <1>5 DEF RowOK

(* A step of one process that leaves day, counts and rows as they are      *)
LEMMA ProcessSteps ==
  ASSUME TelemetryInv, NEW p \in Processes, NEW s, Set(p, s),
         UNCHANGED <<today, recording, made, events>>, FileOK',
         ProcessOK(p, s, recording[p], made[p], today),
         proc[p].id # Nobody => s.id = proc[p].id
  PROVE  TelemetryInv'
<1> USE DEF TelemetryInv
<1>1. proc' = [q \in Processes |-> IF q = p THEN s ELSE proc[q]]
  BY DEF Set, ProcessesOK
<1>2. proc'[p] = s /\ \A q \in Processes \ {p} : proc'[q] = proc[q]
  BY <1>1
<1>3. ProcessesOK'
  <2>1. ASSUME NEW q \in Processes PROVE ProcessOK(q, proc'[q], recording[q], made[q], today)
    BY <1>2 DEF ProcessesOK
  <2>2. \A q \in Processes : ProcessOK(q, proc[q], recording[q], made[q], today)'
    BY <2>1 DEF ProcessOK
  <2> QED
    BY <1>1, <2>2 DEF ProcessesOK
<1>4. MadeOK' /\ DayOK'
  BY DEF MadeOK, DayOK
<1>5. EventsOK'
  <2>1. \A q \in Processes : proc[q].id # Nobody => proc'[q].id = proc[q].id
    BY <1>2
  <2>2. \A q \in Processes : \A d \in Days : made[q][d] <= made'[q][d]
    BY DEF MadeOK
  <2> QED
    BY <1>4, <2>1, <2>2, RowsStay
<1> QED
  BY <1>3, <1>4, <1>5

LEMMA CountStays ==
  ASSUME NEW s, NEW r, NEW w, NEW m, NEW t, CountOK(s, w, m, t),
         r.count = s.count, r.current = s.current
  PROVE  CountOK(r, w, m, t)
BY DEF CountOK

(* The payload is the count, and so within what was made on its day.       *)
LEMMA ComposeKeeps ==
  ASSUME NEW p, NEW s \in States, NEW w \in [Days -> Nat], NEW m \in [Days -> Nat],
         NEW t \in Days, CountOK(s, w, m, t), s.id # Nobody
  PROVE  ProcessOK(p, Compose(s), w, m, t) /\ Compose(s).id = s.id
<1> DEFINE r == Compose(s)
<1>1. /\ r \in States /\ r.thread = "post" /\ r.payload = s.count
      /\ r.id = s.id /\ r.count = s.count /\ r.current = s.current
  <2>1. s \in States /\ s.asked \in Int
    BY DEF States, Days
  <2>2. r = [s EXCEPT !.payload = s.count, !.sent = s.asked, !.thread = "post"]
    BY DEF Compose
  <2> HIDE DEF r
  <2> QED
    BY <2>1, <2>2 DEF States, Threads
<1>2. s.current \in 0 .. t /\ s.count <= m[s.current]
  <2>1. s.current \in Days /\ s.count \in Nat /\ s.current <= t
        /\ s.count + w[s.current] <= m[s.current]
    BY DEF States, CountOK
  <2>2. w[s.current] \in Nat /\ m[s.current] \in Nat
    BY <2>1
  <2> QED
    BY <2>1, <2>2, TelemetryAssumption DEF Days
<1> HIDE DEF r
<1>3. ProcessOK(p, r, w, m, t)
  BY <1>1, <1>2, CountStays DEF ProcessOK
<1> QED
  BY <1>1, <1>3 DEF r

LEMMA SleepKeeps ==
  ASSUME NEW p, NEW s, NEW w, NEW m, NEW t, ProcessOK(p, s, w, m, t)
  PROVE  ProcessOK(p, Sleep(s), w, m, t) /\ Sleep(s).id = s.id
<1> DEFINE r == Sleep(s)
<1>1. /\ r \in States /\ r.thread = "asleep" /\ r.id = s.id
      /\ r.count = s.count /\ r.current = s.current
  <2>1. s \in States /\ 0 \in Days
    BY TelemetryAssumption DEF ProcessOK, Days
  <2>2. r = [s EXCEPT !.thread = "asleep", !.force = FALSE, !.asked = 0, !.payload = 0]
    BY DEF Sleep
  <2> HIDE DEF r
  <2> QED
    BY <2>1, <2>2 DEF States, Threads
<1> HIDE DEF r
<1>2. ProcessOK(p, r, w, m, t)
  BY <1>1, CountStays DEF ProcessOK
<1> QED
  BY <1>1, <1>2 DEF r

LEMMA WakeKeeps ==
  ASSUME TelemetryInv, NEW p \in Processes, Wake(p)
  PROVE  TelemetryInv'
<1> USE DEF TelemetryInv
<1> DEFINE s == proc[p]
           ok(r) == ProcessOK(p, r, recording[p], made[p], today) /\ r.id = s.id
<1>1. ProcessOK(p, s, recording[p], made[p], today)
  BY DEF ProcessesOK
<1>2. ASSUME NEW f \in BOOLEAN
      PROVE  ok([s EXCEPT !.thread = "lock", !.force = f, !.asked = today])
  <2> DEFINE r == [s EXCEPT !.thread = "lock", !.force = f, !.asked = today]
  <2> HIDE DEF s
  <2>1. r \in States /\ r.thread = "lock" /\ r.id = s.id
        /\ r.count = s.count /\ r.current = s.current
    BY <1>1 DEF ProcessOK, States, Threads, DayOK
  <2> HIDE DEF r
  <2>2. ProcessOK(p, r, recording[p], made[p], today)
    BY <1>1, <2>1, CountStays DEF ProcessOK
  <2> QED
    BY <2>1, <2>2 DEF r
<1>3. ok([s EXCEPT !.thread = "ended"])
  <2> DEFINE r == [s EXCEPT !.thread = "ended"]
  <2> HIDE DEF s
  <2>1. r \in States /\ r.thread = "ended" /\ r.id = s.id
        /\ r.count = s.count /\ r.current = s.current
    BY <1>1 DEF ProcessOK, States, Threads
  <2> HIDE DEF r
  <2>2. ProcessOK(p, r, recording[p], made[p], today)
    BY <1>1, <2>1, CountStays DEF ProcessOK
  <2> QED
    BY <2>1, <2>2 DEF r
<1>4. ok(Sleep(s))
  BY <1>1, SleepKeeps
<1>5. PICK r : Set(p, r) /\ ok(r)
  <2>1. \/ Set(p, [s EXCEPT !.thread = "lock", !.force = (s.thread = "first"), !.asked = today])
        \/ Set(p, Sleep(s))
        \/ Set(p, [s EXCEPT !.thread = "ended"])
    BY DEF Wake
  <2>2. (s.thread = "first") \in BOOLEAN
    OBVIOUS
  <2> HIDE DEF ok, s
  <2> QED
    BY <2>1, <2>2, <1>2, <1>3, <1>4
<1>6. UNCHANGED <<today, idFile, recording, made, events>> /\ FileOK'
  BY DEF Wake, FileOK
<1> QED
  BY <1>5, <1>6, ProcessSteps

LEMMA ThreadKeeps ==
  ASSUME TelemetryInv, NEW p \in Processes,
         TakeLock(p) \/ LoadInstallId(p) \/ TruncateFile(p) \/ WriteInstallId(p)
  PROVE  TelemetryInv'
<1> USE DEF TelemetryInv
<1> DEFINE s == proc[p]
<1>1. ProcessOK(p, s, recording[p], made[p], today) /\ today \in Days
  BY DEF ProcessesOK, DayOK
<1>2. FileOK'
  BY DEF FileOK, TakeLock, LoadInstallId, TruncateFile, WriteInstallId
<1>3. UNCHANGED <<today, recording, made, events>>
  BY DEF TakeLock, LoadInstallId, TruncateFile, WriteInstallId
<1>4. ASSUME NEW h \in {"load", "write"},
             h = "load" => s.id = Nobody, h = "write" => s.id = p
      PROVE  LET r == [s EXCEPT !.thread = h]
             IN ProcessOK(p, r, recording[p], made[p], today) /\ r.id = s.id
  <2> DEFINE r == [s EXCEPT !.thread = h]
  <2> HIDE DEF s
  <2>1. r \in States /\ r.thread = h /\ r.id = s.id
        /\ r.count = s.count /\ r.current = s.current
    BY <1>1 DEF ProcessOK, States, Threads
  <2> HIDE DEF r
  <2>2. ProcessOK(p, r, recording[p], made[p], today)
    BY <1>1, <1>4, <2>1, CountStays DEF ProcessOK
  <2> QED
    BY <2>1, <2>2 DEF r
<1>5. ASSUME NEW r, Set(p, r), ProcessOK(p, r, recording[p], made[p], today), s.id # Nobody => r.id = s.id
      PROVE  TelemetryInv'
  BY <1>2, <1>3, <1>5, ProcessSteps
<1>6. s.id # Nobody =>
        ProcessOK(p, Compose(s), recording[p], made[p], today) /\ Compose(s).id = s.id
  BY <1>1, ComposeKeeps DEF ProcessOK, MadeOK
<1>7. CASE TakeLock(p)
  <2>1. \/ Set(p, Sleep(s))
        \/ Set(p, Compose(s)) /\ s.id # Nobody
        \/ Set(p, [s EXCEPT !.thread = "load"]) /\ s.id = Nobody
    BY <1>7 DEF TakeLock
  <2> HIDE DEF s
  <2>2. CASE Set(p, Compose(s)) /\ s.id # Nobody
    BY <2>2, <1>5, <1>6
  <2>3. CASE Set(p, Sleep(s))
    BY <2>3, <1>1, <1>5, SleepKeeps
  <2>4. CASE Set(p, [s EXCEPT !.thread = "load"]) /\ s.id = Nobody
    BY <2>4, <1>4, <1>5
  <2> QED
    BY <2>1, <2>2, <2>3, <2>4
<1>8. CASE LoadInstallId(p)
  <2>1. s.thread = "load" /\ s.id = Nobody
    BY <1>1, <1>8 DEF LoadInstallId, ProcessOK
  <2>2. CASE idFile = Nobody
    <3>1. Set(p, [s EXCEPT !.thread = "create", !.id = p])
      BY <1>8, <2>2 DEF LoadInstallId
    <3> DEFINE r == [s EXCEPT !.thread = "create", !.id = p]
    <3> HIDE DEF s
    <3>2. r \in States /\ r.thread = "create" /\ r.id = p
          /\ r.count = s.count /\ r.current = s.current
      BY <1>1 DEF ProcessOK, States, Threads
    <3> HIDE DEF r
    <3>3. ProcessOK(p, r, recording[p], made[p], today)
      BY <1>1, <3>2, CountStays DEF ProcessOK
    <3> QED
      BY <3>1, <3>3, <2>1, <1>5 DEF r
  <2>3. CASE idFile # Nobody
    <3> DEFINE r == [s EXCEPT !.id = idFile]
    <3>1. Set(p, Compose(r))
      BY <1>8, <2>3 DEF LoadInstallId
    <3>2. r \in States /\ r.id = idFile /\ r.thread = s.thread
          /\ r.count = s.count /\ r.current = s.current
      <4> HIDE DEF s
      <4> QED
        BY <1>1 DEF ProcessOK, States, FileOK
    <3> HIDE DEF r, s
    <3>3. ProcessOK(p, Compose(r), recording[p], made[p], today)
      <4>1. CountOK(r, recording[p], made[p], today)
        BY <1>1, <3>2, CountStays DEF ProcessOK
      <4>2. recording[p] \in [Days -> Nat] /\ made[p] \in [Days -> Nat] /\ r.id # Nobody
        BY <2>3, <3>2 DEF MadeOK
      <4> QED
        BY <1>1, <3>2, <4>1, <4>2, ComposeKeeps
    <3> QED
      BY <2>1, <3>1, <3>3, <1>5
  <2> QED
    BY <2>2, <2>3
<1>9. CASE TruncateFile(p)
  <2>1. s.thread = "create" /\ s.id = p /\ p # Nobody
    BY <1>1, <1>9, TelemetryAssumption DEF TruncateFile, ProcessOK
  <2>2. Set(p, [s EXCEPT !.thread = "write"]) \/ Set(p, Compose(s))
    BY <1>9 DEF TruncateFile
  <2> HIDE DEF s
  <2>3. CASE Set(p, [s EXCEPT !.thread = "write"])
    BY <2>1, <2>3, <1>4, <1>5
  <2>4. CASE Set(p, Compose(s))
    BY <2>1, <2>4, <1>5, <1>6
  <2> QED
    BY <2>2, <2>3, <2>4
<1>10. CASE WriteInstallId(p)
  <2>1. s.thread = "write" /\ s.id = p /\ p # Nobody /\ Set(p, Compose(s))
    BY <1>1, <1>10, TelemetryAssumption DEF WriteInstallId, ProcessOK
  <2> QED
    BY <2>1, <1>5, <1>6
<1> QED
  BY <1>7, <1>8, <1>9, <1>10

(* What arrives becomes the row of its install and day; the other rows     *)
(* stay.                                                                   *)
LEMMA PostKeeps ==
  ASSUME TelemetryInv, NEW p \in Processes, Post(p)
  PROVE  TelemetryInv'
<1> USE DEF TelemetryInv
<1> DEFINE s == proc[p]
           r == Sleep(s)
           k0 == <<s.id, today>>
           e0 == [install |-> s.id, day |-> today, count |-> s.payload]
<1>1. ProcessOK(p, s, recording[p], made[p], today) /\ s.thread = "post"
  BY DEF ProcessesOK, Post
<1>2. ProcessOK(p, r, recording[p], made[p], today) /\ r.id = s.id
  BY <1>1, SleepKeeps
<1>3. Set(p, r) /\ UNCHANGED <<today, idFile, recording, made>>
  BY DEF Post
<1>4. proc' = [q \in Processes |-> IF q = p THEN r ELSE proc[q]]
  BY <1>3 DEF Set, ProcessesOK
<1>5. \A q \in Processes : proc'[q].id = proc[q].id
  BY <1>2, <1>4
<1>6. MadeOK' /\ DayOK' /\ FileOK'
  BY <1>3 DEF MadeOK, DayOK, FileOK
<1>7. ProcessesOK'
  <2>1. ASSUME NEW q \in Processes PROVE ProcessOK(q, proc'[q], recording[q], made[q], today)
    BY <1>2, <1>4 DEF ProcessesOK
  <2>2. \A q \in Processes : ProcessOK(q, proc[q], recording[q], made[q], today)'
    BY <1>3, <2>1 DEF ProcessOK
  <2> QED
    BY <1>4, <2>2 DEF ProcessesOK
<1>8. ASSUME NEW k, NEW e, RowOK(k, e)
      PROVE  RowOK(k, e)'
  BY <1>3, <1>5, <1>8 DEF RowOK
<1>9. RowOK(k0, e0)
  <2>1. k0 \in (Processes \cup {Nobody}) \X Days /\ k0[1] = s.id /\ k0[2] = today
        /\ e0.count = s.payload /\ e0.count \in Nat /\ s.id # Nobody
    BY <1>1 DEF ProcessOK, States, DayOK
  <2>2. PICK d \in 0 .. today : s.payload <= made[p][d]
    BY <1>1 DEF ProcessOK
  <2> HIDE DEF k0, e0
  <2> QED
    BY <2>1, <2>2 DEF RowOK
<1>10. ASSUME NEW k \in DOMAIN events' PROVE RowOK(k, events'[k])
  <2>1. CASE events' = events
    BY <2>1, <1>10 DEF EventsOK
  <2>2. CASE events' = Store!UpsertTelemetryEvent(events, e0)
    <3>1. events' = [j \in DOMAIN events \cup {k0} |-> IF j = k0 THEN e0 ELSE events[j]]
      BY <2>2 DEF Store!UpsertTelemetryEvent
    <3> HIDE DEF k0, e0
    <3>2. CASE k = k0
      BY <3>1, <3>2, <1>9
    <3>3. CASE k # k0
      BY <3>1, <3>3, <1>10 DEF EventsOK
    <3> QED
      BY <3>2, <3>3
  <2> QED
    BY <2>1, <2>2 DEF Post
<1>11. EventsOK'
  BY <1>8, <1>10 DEF EventsOK
<1> QED
  BY <1>6, <1>7, <1>11

(* A call that reads the day is under way, and one more is made on it.     *)
LEMMA ReadKeeps ==
  ASSUME TelemetryInv, NEW p \in Processes, ReadDay(p)
  PROVE  TelemetryInv'
<1> USE DEF TelemetryInv
<1> DEFINE s == proc[p]
           w == recording[p]
           m == made[p]
           v == [w EXCEPT ![today] = @ + 1]
           n == [m EXCEPT ![today] = @ + 1]
<1>1. /\ ProcessOK(p, s, w, m, today) /\ today \in Days /\ today \in Nat
      /\ m \in [Days -> Nat] /\ w \in [Days -> Nat]
  BY TelemetryAssumption DEF ProcessesOK, DayOK, MadeOK, Days
<1>2. /\ recording' = [recording EXCEPT ![p] = v]
      /\ made' = [made EXCEPT ![p] = n]
      /\ UNCHANGED <<today, idFile, proc, events>>
  BY DEF ReadDay
<1> HIDE DEF m, w
<1>3. /\ v \in [Days -> Nat] /\ n \in [Days -> Nat]
      /\ v[today] = w[today] + 1 /\ n[today] = m[today] + 1
      /\ \A d \in Days : d # today => v[d] = w[d] /\ n[d] = m[d]
  BY <1>1
<1> HIDE DEF n, v
<1>4. \A d \in Days : /\ m[d] \in Nat /\ w[d] \in Nat /\ n[d] \in Nat /\ v[d] \in Nat
                      /\ m[d] <= n[d]
                      /\ v[d] <= n[d] /\ (v[d] > 0 => d <= today)
  <2> TAKE d \in Days
  <2>1. m[d] \in Nat /\ w[d] \in Nat /\ n[d] \in Nat /\ v[d] \in Nat
    BY <1>1, <1>3
  <2>2. w[d] <= m[d] /\ (w[d] > 0 => d <= today)
    BY <1>1 DEF ProcessOK, CountOK
  <2> QED
    BY <2>1, <2>2, <1>1, <1>3
<1>5. CountOK(s, v, n, today)
  <2>1. /\ s.current \in Days /\ s.count \in Nat /\ s.current <= today
        /\ s.count + w[s.current] <= m[s.current]
    BY <1>1 DEF ProcessOK, CountOK, States
  <2> HIDE DEF s
  <2>2. s.count + v[s.current] <= n[s.current]
    BY <2>1, <1>3, <1>4
  <2> QED
    BY <2>1, <2>2, <1>4 DEF CountOK
<1>6. ProcessOK(p, s, v, n, today)
  <2>1. s.thread = "post" => \E d \in 0 .. today : s.payload <= n[d]
    <3>1. ASSUME NEW d \in 0 .. today, s.payload <= m[d]
          PROVE  s.payload <= n[d]
      <4>1. d \in Days /\ s.payload \in Nat
        BY <1>1, TelemetryAssumption DEF Days, ProcessOK, States
      <4> HIDE DEF s
      <4> QED
        BY <4>1, <3>1, <1>4
    <3> QED
      BY <3>1, <1>1 DEF ProcessOK
  <2> QED
    BY <2>1, <1>1, <1>5 DEF ProcessOK
<1>7. MadeOK'
  BY <1>2, <1>3 DEF MadeOK
<1>8. \A q \in Processes : /\ made'[q] = IF q = p THEN n ELSE made[q]
                           /\ recording'[q] = IF q = p THEN v ELSE recording[q]
  BY <1>2 DEF MadeOK
<1>9. ProcessesOK'
  <2>1. ASSUME NEW q \in Processes PROVE ProcessOK(q, proc[q], recording'[q], made'[q], today)
    BY <1>6, <1>8 DEF ProcessesOK, w, m
  <2>2. \A q \in Processes : ProcessOK(q, proc[q], recording[q], made[q], today)'
    BY <1>2, <2>1 DEF ProcessOK, CountOK
  <2> QED
    BY <1>2, <2>2 DEF ProcessesOK
<1>10. EventsOK'
  <2>1. \A q \in Processes : \A d \in Days : made[q][d] <= made'[q][d]
    BY <1>4, <1>8 DEF MadeOK, m
  <2> QED
    BY <1>2, <1>7, <2>1, RowsStay
<1> QED
  BY <1>2, <1>7, <1>9, <1>10 DEF DayOK, FileOK

(* A call that counts is no longer under way; the counter starts again     *)
(* when it read another day than the counter is of, an earlier one too.    *)
LEMMA RecordKeeps ==
  ASSUME TelemetryInv, NEW p \in Processes, NEW e \in 0 .. MaxDay, RecordAttestation(p, e)
  PROVE  TelemetryInv'
<1> USE DEF TelemetryInv
<1> DEFINE s == proc[p]
           w == recording[p]
           m == made[p]
           c == Counted(s, e)
           r == [s EXCEPT !.count = c, !.current = e]
           v == [w EXCEPT ![e] = @ - 1]
<1>1. /\ ProcessOK(p, s, w, m, today) /\ today \in Days /\ e \in Days
      /\ m \in [Days -> Nat] /\ w \in [Days -> Nat] /\ w[e] > 0
  BY DEF ProcessesOK, DayOK, MadeOK, Days, RecordAttestation
<1>2. /\ proc' = [q \in Processes |-> IF q = p THEN r ELSE proc[q]]
      /\ recording' = [recording EXCEPT ![p] = v]
      /\ UNCHANGED <<today, idFile, made, events>>
  BY DEF RecordAttestation, Set, ProcessesOK
<1>3. /\ s \in States /\ s.current \in Days /\ s.count \in Nat
      /\ s.count + w[s.current] <= m[s.current]
      /\ c = IF s.current = e THEN s.count + 1 ELSE 1
  BY <1>1 DEF ProcessOK, CountOK, States, Counted
<1> HIDE DEF m, w, s, c
<1>4. /\ v \in [Days -> Nat] /\ v[e] = w[e] - 1
      /\ \A d \in Days : d # e => v[d] = w[d]
  BY <1>1
<1> HIDE DEF v
<1>5. \A d \in Days : /\ m[d] \in Nat /\ w[d] \in Nat /\ v[d] \in Nat /\ v[d] <= w[d]
                      /\ w[d] <= m[d] /\ (w[d] > 0 => d <= today)
  <2> TAKE d \in Days
  <2>1. m[d] \in Nat /\ w[d] \in Nat /\ v[d] \in Nat
    BY <1>1, <1>4
  <2>2. w[d] <= m[d] /\ (w[d] > 0 => d <= today)
    BY <1>1 DEF ProcessOK, CountOK
  <2> QED
    BY <2>1, <2>2, <1>4
<1>6. c \in Nat /\ c + v[e] <= m[e]
  BY <1>1, <1>3, <1>4, <1>5
<1>7. /\ r \in States /\ r.count = c /\ r.current = e
      /\ r.id = s.id /\ r.thread = s.thread /\ r.payload = s.payload
  BY <1>1, <1>3, <1>6 DEF States
<1> HIDE DEF r
<1>8. CountOK(r, v, m, today)
  BY <1>1, <1>5, <1>6, <1>7 DEF CountOK
<1>9. ProcessOK(p, r, v, m, today)
  BY <1>1, <1>7, <1>8 DEF ProcessOK
<1>10. MadeOK'
  BY <1>2, <1>4 DEF MadeOK
<1>11. \A q \in Processes : recording'[q] = IF q = p THEN v ELSE recording[q]
  BY <1>2 DEF MadeOK
<1>12. ProcessesOK'
  <2>1. ASSUME NEW q \in Processes PROVE ProcessOK(q, proc'[q], recording'[q], made[q], today)
    BY <1>2, <1>9, <1>11 DEF ProcessesOK, m
  <2>2. \A q \in Processes : ProcessOK(q, proc[q], recording[q], made[q], today)'
    BY <1>2, <2>1 DEF ProcessOK, CountOK
  <2> QED
    BY <1>2, <2>2 DEF ProcessesOK
<1>13. EventsOK'
  <2>1. \A q \in Processes : proc[q].id # Nobody => proc'[q].id = proc[q].id
    BY <1>2, <1>7 DEF s
  <2>2. \A q \in Processes : \A d \in Days : made[q][d] <= made'[q][d]
    BY <1>2 DEF MadeOK
  <2> QED
    BY <1>2, <1>10, <2>1, <2>2, RowsStay
<1> QED
  BY <1>2, <1>10, <1>12, <1>13 DEF DayOK, FileOK

LEMMA NewDayKeeps ==
  ASSUME TelemetryInv, NewDay
  PROVE  TelemetryInv'
<1> USE DEF TelemetryInv
<1>1. today' = today + 1 /\ today' \in Days /\ today \in Days
      /\ UNCHANGED <<idFile, proc, recording, made, events>>
  BY TelemetryAssumption DEF NewDay, DayOK, Days
<1>2. ASSUME NEW p \in Processes PROVE ProcessOK(p, proc[p], recording[p], made[p], today')
  <2>1. ProcessOK(p, proc[p], recording[p], made[p], today) /\ proc[p].current \in Int
    BY TelemetryAssumption DEF ProcessesOK, ProcessOK, States, Days
  <2>2. today \in Nat /\ today' = today + 1
    BY <1>1, TelemetryAssumption DEF Days
  <2>3. proc[p].current <= today'
    BY <2>1, <2>2 DEF ProcessOK, CountOK
  <2>4. proc[p].thread = "post" => \E d \in 0 .. today' : proc[p].payload <= made[p][d]
    BY <2>1, <2>2 DEF ProcessOK
  <2>5. \A d \in Days : recording[p][d] > 0 => d <= today'
    <3> TAKE d \in Days
    <3>1. d \in Nat /\ (recording[p][d] > 0 => d <= today)
      BY <2>1, TelemetryAssumption DEF Days, ProcessOK, CountOK
    <3> QED
      BY <3>1, <2>2
  <2>6. CountOK(proc[p], recording[p], made[p], today')
    BY <2>1, <2>3, <2>5 DEF ProcessOK, CountOK
  <2> QED
    BY <2>1, <2>4, <2>6 DEF ProcessOK
<1>3. ProcessesOK'
  BY <1>1, <1>2 DEF ProcessesOK, ProcessOK, CountOK
<1>4. EventsOK'
  BY <1>1 DEF EventsOK, RowOK
<1> QED
  BY <1>1, <1>3, <1>4 DEF MadeOK, DayOK, FileOK

LEMMA TelemetryInvHolds == TelemetrySpec => []TelemetryInv
<1>1. TelemetryInit => TelemetryInv
  <2> SUFFICES ASSUME TelemetryInit PROVE TelemetryInv
    OBVIOUS
  <2>1. today = 0 /\ 0 \in Days
    BY TelemetryAssumption DEF TelemetryInit, Days
  <2>2. MadeOK
    BY TelemetryAssumption DEF TelemetryInit, MadeOK, Days
  <2>3. ProcessesOK
    <3>1. ASSUME NEW p \in Processes PROVE ProcessOK(p, proc[p], recording[p], made[p], today)
      <4>1. Fresh \in States /\ Fresh.current = 0 /\ Fresh.count = 0 /\ Fresh.thread = "first"
        BY <2>1 DEF Fresh, States, Threads
      <4>2. proc[p] = Fresh /\ \A d \in Days : made[p][d] = 0 /\ recording[p][d] = 0
        BY <2>1 DEF TelemetryInit, Days
      <4> QED
        BY <4>1, <4>2, <2>1 DEF ProcessOK, CountOK
    <3> QED
      BY <3>1 DEF TelemetryInit, ProcessesOK
  <2> QED
    BY <2>1, <2>2, <2>3 DEF TelemetryInit, TelemetryInv, DayOK, FileOK, EventsOK
<1>2. TelemetryInv /\ [TelemetryNext]_telemetryVars => TelemetryInv'
  <2> SUFFICES ASSUME TelemetryInv, [TelemetryNext]_telemetryVars PROVE TelemetryInv'
    OBVIOUS
  <2>1. CASE UNCHANGED telemetryVars
    BY <2>1 DEF telemetryVars, TelemetryInv, MadeOK, DayOK, FileOK, ProcessesOK, ProcessOK,
                CountOK, EventsOK, RowOK
  <2>2. CASE NewDay
    BY <2>2, NewDayKeeps
  <2>3. ASSUME NEW p \in Processes, ReadDay(p) \/ \E d \in 0 .. MaxDay : RecordAttestation(p, d)
        PROVE  TelemetryInv'
    BY <2>3, ReadKeeps, RecordKeeps
  <2>4. ASSUME NEW p \in Processes, Wake(p) PROVE TelemetryInv'
    BY <2>4, WakeKeeps
  <2>5. ASSUME NEW p \in Processes,
               TakeLock(p) \/ LoadInstallId(p) \/ TruncateFile(p) \/ WriteInstallId(p)
        PROVE  TelemetryInv'
    BY <2>5, ThreadKeeps
  <2>6. ASSUME NEW p \in Processes, Post(p) PROVE TelemetryInv'
    BY <2>6, PostKeeps
  <2> QED
    BY <2>1, <2>2, <2>3, <2>4, <2>5, <2>6 DEF TelemetryNext
<1> QED
  BY <1>1, <1>2, PTL DEF TelemetrySpec

(* No row of the service ever mixes two days or two processes, whatever    *)
(* the threads, the switches and the install-id file do, and however long  *)
(* a report is under way.                                                  *)
THEOREM ReportsAreOfOneDay == TelemetrySpec => []ReportsOneDay
<1>1. TelemetryInv => ReportsOneDay
  BY DEF TelemetryInv, EventsOK, RowOK, ReportsOneDay
<1> QED
  BY <1>1, TelemetryInvHolds, PTL

----------------------------------------------------------------------------
(* ReceiptsSound: what is in the sink of a call follows from the step it   *)
(* is at, and what its Verifier found from what the function returned.     *)
CallSteps == {"idle", "unattested", "replay", "worker", "verifier", "returned", "raised"}
Outputs == {"pure", "counting", "sharing"} \X Int
CallRecords ==
  [step : CallSteps, out : Outputs \cup {<<>>}, again : Outputs \cup {<<>>}, hash : Int,
   value : Int, alone : Int, failed : BOOLEAN]
Receipts == [call : NodeCalls, agent : {"worker", "verifier"}, hash : Int, correct : BOOLEAN]

Among(s, c, agent) == {i \in DOMAIN s : s[i].call = c /\ s[i].agent = agent}

(* What a call, as far as it is, has returned.                             *)
OutputsOK(c, r) ==
  /\ r.failed => r.step = "raised"
  /\ r.step \in {"replay", "worker", "verifier"} => r.out \in Outputs /\ r.out[1] = KindOf[NodeOf[c]]
  /\ r.step \in {"worker", "verifier"} /\ Dual =>
       /\ r.again \in Outputs
       /\ r.again[1] = "sharing" => KindOf[NodeOf[c]] = "sharing"
  /\ r.step = "verifier" =>
       /\ Dual
       /\ KindOf[NodeOf[c]] # "sharing" => r.hash = r.out[2]

(* What is in sink s of it: of the Worker, and of the Verifier.            *)
WorkerOK(c, r, s) ==
  /\ r.step \in {"idle", "unattested", "replay", "worker"} \/ r.failed => Among(s, c, "worker") = {}
  /\ r.step \in {"verifier", "returned"} => \E i \in DOMAIN s : Among(s, c, "worker") = {i}

VerifierOK(c, r, s) ==
  /\ r.step \in {"idle", "unattested", "replay", "worker", "verifier"} \/ r.failed =>
       Among(s, c, "verifier") = {}
  /\ r.step = "returned" /\ Dual => Among(s, c, "verifier") # {}
  /\ \A j \in Among(s, c, "verifier") :
       /\ Among(s, c, "verifier") = {j}
       /\ \E i \in Among(s, c, "worker") : i < j
       /\ KindOf[NodeOf[c]] # "sharing" => (s[j].correct <=> r.out[2] = r.again[2])

CallOK(c, r, s) ==
  r \in CallRecords /\ OutputsOK(c, r) /\ WorkerOK(c, r, s) /\ VerifierOK(c, r, s)

GraphOK ==
  /\ added \subseteq GraphNodes /\ marked \in BOOLEAN
  /\ wraps \in [GraphNodes -> 0 .. 1]
  /\ \A n \in GraphNodes : wraps[n] = 1 <=> marked /\ n \in added \ Opaque
MemoryOK == memory \in [GraphNodes -> Nat] /\ unwrapped \in [GraphNodes -> Nat]
SinkOK == sink \in Seq(Receipts) /\ recorded \in Nat /\ recorded <= Len(sink)
CallsOK == DOMAIN call = NodeCalls /\ \A c \in NodeCalls : CallOK(c, call[c], sink)

NodesInv == GraphOK /\ MemoryOK /\ SinkOK /\ CallsOK

(* What a receipt that lands adds.                                         *)
LEMMA AmongAppended ==
  ASSUME NEW s \in Seq(Receipts), NEW q \in Receipts, NEW c \in NodeCalls, NEW a
  PROVE  /\ Append(s, q) \in Seq(Receipts)
         /\ Len(Append(s, q)) = Len(s) + 1
         /\ Len(s) + 1 \notin DOMAIN s
         /\ \A i \in DOMAIN s : i < Len(s) + 1 /\ Append(s, q)[i] = s[i]
         /\ Append(s, q)[Len(s) + 1] = q
         /\ DOMAIN s \subseteq DOMAIN Append(s, q) /\ Len(s) + 1 \in DOMAIN Append(s, q)
         /\ q.call = c /\ q.agent = a => Among(Append(s, q), c, a) = Among(s, c, a) \cup {Len(s) + 1}
         /\ q.call # c \/ q.agent # a => Among(Append(s, q), c, a) = Among(s, c, a)
<1>1. /\ DOMAIN s = 1 .. Len(s) /\ Len(s) \in Nat
      /\ Append(s, q) \in Seq(Receipts) /\ Len(Append(s, q)) = Len(s) + 1
      /\ \A i \in 1 .. Len(s) : Append(s, q)[i] = s[i]
      /\ Append(s, q)[Len(s) + 1] = q
  BY LenProperties, AppendProperties
<1>2. DOMAIN Append(s, q) = 1 .. Len(s) + 1
  BY <1>1, LenProperties
<1>3. /\ Len(s) + 1 \notin DOMAIN s /\ \A i \in DOMAIN s : i < Len(s) + 1
      /\ 1 .. Len(s) + 1 = (1 .. Len(s)) \cup {Len(s) + 1}
  BY <1>1
<1> QED
  BY <1>1, <1>2, <1>3 DEF Among

(* A receipt of one call is nothing to the others.                         *)
LEMMA OthersReceipt ==
  ASSUME NEW s \in Seq(Receipts), NEW q \in Receipts, NEW c \in NodeCalls, NEW r,
         q.call # c, CallOK(c, r, s)
  PROVE  CallOK(c, r, Append(s, q))
<1>1. /\ Among(Append(s, q), c, "worker") = Among(s, c, "worker")
      /\ Among(Append(s, q), c, "verifier") = Among(s, c, "verifier")
      /\ DOMAIN s \subseteq DOMAIN Append(s, q)
      /\ \A i \in DOMAIN s : Append(s, q)[i] = s[i]
  BY AmongAppended
<1>2. WorkerOK(c, r, Append(s, q))
  BY <1>1 DEF CallOK, WorkerOK
<1>3. VerifierOK(c, r, Append(s, q))
  BY <1>1 DEF CallOK, VerifierOK, Among
<1> QED
  BY <1>2, <1>3 DEF CallOK

(* A call that only goes on.                                               *)
LEMMA CallGoesOn ==
  ASSUME NodesInv, NEW c \in NodeCalls, NEW r, Step(c, r), CallOK(c, r, sink),
         UNCHANGED sink
  PROVE  CallsOK'
<1>1. /\ DOMAIN call' = NodeCalls /\ call'[c] = r
      /\ \A d \in NodeCalls \ {c} : call'[d] = call[d]
  BY DEF NodesInv, CallsOK, Step
<1>2. \A d \in NodeCalls : CallOK(d, call'[d], sink)
  BY <1>1 DEF NodesInv, CallsOK
<1> QED
  BY <1>1, <1>2 DEF CallsOK

(* Emit: the receipt lands and the call goes on as told, or the sink       *)
(* raises, and it lands or does not.                                       *)
LEMMA EmitKeeps ==
  ASSUME NodesInv, NEW c \in NodeCalls, NEW q \in Receipts, NEW r, Emit(c, q, r), q.call = c,
         CallOK(c, r, Append(sink, q)),
         \A s \in {sink, Append(sink, q)} : CallOK(c, [call[c] EXCEPT !.step = "raised"], s)
  PROVE  SinkOK' /\ CallsOK'
<1>1. /\ Append(sink, q) \in Seq(Receipts) /\ Len(Append(sink, q)) = Len(sink) + 1
      /\ Len(sink) \in Nat
  BY AmongAppended, LenProperties DEF NodesInv, SinkOK
<1>2. SinkOK'
  BY <1>1 DEF Emit, NodesInv, SinkOK
<1>3. PICK r2 : Step(c, r2) /\ CallOK(c, r2, sink')
  BY DEF Emit
<1>4. sink' \in {sink, Append(sink, q)}
  BY DEF Emit
<1>5. /\ DOMAIN call' = NodeCalls /\ call'[c] = r2
      /\ \A d \in NodeCalls \ {c} : call'[d] = call[d]
  BY <1>3 DEF NodesInv, CallsOK, Step
<1>6. \A d \in NodeCalls \ {c} : CallOK(d, call[d], sink')
  BY <1>4, OthersReceipt DEF NodesInv, CallsOK, SinkOK
<1>7. \A d \in NodeCalls : CallOK(d, call'[d], sink')
  BY <1>3, <1>5, <1>6
<1> QED
  BY <1>2, <1>5, <1>7 DEF CallsOK

(* What a function returns, and what it keeps.                             *)
LEMMA ReturnsOutputs ==
  ASSUME NEW n \in GraphNodes, NEW kept \in [GraphNodes -> Nat]
  PROVE  /\ Keeps(n, kept) \in [GraphNodes -> Nat]
         /\ Returns(n, kept) \in Outputs /\ Returns(n, kept)[1] = KindOf[n]
         /\ Returns(n, kept)[2] \in Int
<1>1. Keeps(n, kept) \in [GraphNodes -> Nat]
  BY DEF Keeps
<1>2. Keeps(n, kept)[n] \in Int
  BY <1>1
<1> QED
  BY <1>1, <1>2, NodesAssumption DEF Returns, Outputs

LEMMA ValueIsAnInt ==
  ASSUME NodesInv, NEW n \in GraphNodes, NEW o \in Outputs
  PROVE  Value(n, o) \in Int /\ (o[1] # "sharing" => Value(n, o) = o[2])
BY DEF NodesInv, MemoryOK, Value, Outputs

LEMMA NodesInitOK == NodesInit => NodesInv
<1> SUFFICES ASSUME NodesInit PROVE NodesInv
  OBVIOUS
<1>1. GraphOK /\ MemoryOK
  <2>1. /\ added = {} /\ marked = FALSE
        /\ wraps \in [GraphNodes -> 0 .. 1] /\ \A n \in GraphNodes : wraps[n] = 0
        /\ memory \in [GraphNodes -> Nat] /\ unwrapped \in [GraphNodes -> Nat]
    BY DEF NodesInit
  <2>2. \A n \in GraphNodes : wraps[n] # 1
    BY <2>1
  <2> QED
    BY <2>1, <2>2 DEF GraphOK, MemoryOK
<1>2. sink = <<>> /\ SinkOK
  BY EmptySeq DEF NodesInit, SinkOK
<1>3. \A c \in NodeCalls : \A a : Among(sink, c, a) = {}
  BY <1>2 DEF Among
<1>4. Uncalled \in CallRecords
  BY DEF Uncalled, CallRecords, CallSteps
<1>5. \A c \in NodeCalls : CallOK(c, Uncalled, sink)
  BY <1>3, <1>4 DEF CallOK, OutputsOK, WorkerOK, VerifierOK, Uncalled
<1>6. CallsOK
  BY <1>5 DEF NodesInit, CallsOK
<1> QED
  BY <1>1, <1>2, <1>6 DEF NodesInv

LEMMA AttestKeeps ==
  ASSUME NodesInv, Attest \/ \E n \in GraphNodes : AddNode(n)
  PROVE  NodesInv'
<1>1. UNCHANGED <<memory, unwrapped, call, sink, recorded>>
  BY DEF Attest, AddNode
<1>2. GraphOK'
  <2>1. CASE Attest
    BY <2>1 DEF Attest, Unmarked, NodesInv, GraphOK
  <2>2. ASSUME NEW n \in GraphNodes, AddNode(n) PROVE GraphOK'
    BY <2>2 DEF AddNode, NodesInv, GraphOK
  <2> QED
    BY <2>1, <2>2
<1> QED
  BY <1>1, <1>2 DEF NodesInv, MemoryOK, SinkOK, CallsOK

(* The calls of the function: the receipts come later.                     *)
LEMMA FunctionKeeps ==
  ASSUME NodesInv, NEW c \in NodeCalls,
         Invoke(c) \/ FunctionRaises(c) \/ Replay(c) \/ ReplayRaises(c)
  PROVE  NodesInv'
<1> DEFINE n == NodeOf[c]
<1>1. /\ n \in GraphNodes /\ UNCHANGED <<graphVars, sink, recorded>>
      /\ CallOK(c, call[c], sink)
  BY NodesAssumption DEF Invoke, FunctionRaises, Replay, ReplayRaises, NodesInv, CallsOK
<1>2. GraphOK' /\ SinkOK'
  BY <1>1 DEF NodesInv, GraphOK, SinkOK, graphVars
<1>3. /\ Keeps(n, memory) \in [GraphNodes -> Nat] /\ Keeps(n, unwrapped) \in [GraphNodes -> Nat]
      /\ Returns(n, memory) \in Outputs /\ Returns(n, memory)[1] = KindOf[n]
      /\ Returns(n, memory)[2] \in Int /\ Returns(n, unwrapped)[2] \in Int
  BY <1>1, ReturnsOutputs DEF NodesInv, MemoryOK
<1>4. MemoryOK'
  BY <1>3 DEF Invoke, FunctionRaises, Replay, ReplayRaises, NodesInv, MemoryOK
<1>5. Uncalled \in CallRecords /\ ~Uncalled.failed
  BY DEF Uncalled, CallRecords, CallSteps
<1>6. ASSUME NEW r, r \in CallRecords, r.step \in {"unattested", "replay", "worker", "raised"},
             r.failed <=> r.step = "raised", OutputsOK(c, r), call[c].step \in {"idle", "replay"},
             Step(c, r)
      PROVE  NodesInv'
  <2>1. Among(sink, c, "worker") = {} /\ Among(sink, c, "verifier") = {}
    BY <1>1, <1>6 DEF CallOK, WorkerOK, VerifierOK
  <2>2. CallOK(c, r, sink)
    BY <1>6, <2>1 DEF CallOK, WorkerOK, VerifierOK
  <2>3. CallsOK'
    BY <1>1, <1>6, <2>2, CallGoesOn
  <2> QED
    BY <1>2, <1>4, <2>3 DEF NodesInv
<1>7. CASE Invoke(c)
  <2>1. PICK st \in {"unattested", "replay", "worker"} :
          /\ Step(c, [Uncalled EXCEPT !.out = Returns(n, memory), !.value = Returns(n, memory)[2],
                                      !.alone = Returns(n, unwrapped)[2], !.step = st])
          /\ st = "worker" => ~Dual
    BY <1>7, NodesAssumption DEF Invoke
  <2> DEFINE r == [Uncalled EXCEPT !.out = Returns(n, memory), !.value = Returns(n, memory)[2],
                                   !.alone = Returns(n, unwrapped)[2], !.step = st]
  <2>2. /\ r.step = st /\ r.out = Returns(n, memory) /\ ~r.failed /\ r \in CallRecords
    BY <1>3, <1>5 DEF CallRecords, CallSteps
  <2>3. OutputsOK(c, r)
    BY <1>3, <2>1, <2>2 DEF OutputsOK
  <2>4. call[c].step = "idle"
    BY <1>7 DEF Invoke
  <2> HIDE DEF r
  <2>5. Step(c, r)
    BY <2>1 DEF r
  <2> QED
    BY <1>6, <2>2, <2>3, <2>4, <2>5
<1>8. CASE FunctionRaises(c)
  <2> DEFINE r == [Uncalled EXCEPT !.step = "raised", !.failed = TRUE]
  <2>1. r.step = "raised" /\ r.failed /\ r \in CallRecords
    BY <1>5 DEF CallRecords, CallSteps
  <2>2. OutputsOK(c, r)
    BY <2>1 DEF OutputsOK
  <2>3. Step(c, r) /\ call[c].step = "idle"
    BY <1>8 DEF FunctionRaises
  <2> HIDE DEF r
  <2> QED
    BY <1>6, <2>1, <2>2, <2>3
<1>9. CASE Replay(c)
  <2>1. PICK out \in {Returns(n, memory), FromRepr} :
          Step(c, [call[c] EXCEPT !.again = out, !.step = "worker"])
    BY <1>9 DEF Replay
  <2> DEFINE r == [call[c] EXCEPT !.again = out, !.step = "worker"]
  <2>2. /\ call[c] \in CallRecords /\ call[c].step = "replay" /\ OutputsOK(c, call[c])
    BY <1>1, <1>9 DEF Replay, CallOK
  <2>3. out \in Outputs /\ (out[1] = "sharing" => KindOf[n] = "sharing")
    BY <1>3 DEF FromRepr, Outputs
  <2>4. /\ r.step = "worker" /\ r.out = call[c].out /\ r.again = out
        /\ r.failed = call[c].failed /\ r \in CallRecords
    BY <2>2, <2>3 DEF CallRecords, CallSteps
  <2>5. ~r.failed
    BY <2>2, <2>4 DEF OutputsOK
  <2>6. OutputsOK(c, r)
    BY <2>2, <2>3, <2>4, <2>5 DEF OutputsOK
  <2> HIDE DEF r
  <2>7. Step(c, r)
    BY <2>1 DEF r
  <2> QED
    BY <1>6, <2>2, <2>4, <2>5, <2>6, <2>7
<1>10. CASE ReplayRaises(c)
  <2> DEFINE r == [call[c] EXCEPT !.step = "raised", !.failed = TRUE]
  <2>1. call[c] \in CallRecords /\ call[c].step = "replay"
    BY <1>1, <1>10 DEF ReplayRaises, CallOK
  <2>2. r.step = "raised" /\ r.failed /\ r \in CallRecords
    BY <2>1 DEF CallRecords, CallSteps
  <2>3. OutputsOK(c, r)
    BY <2>2 DEF OutputsOK
  <2>4. Step(c, r)
    BY <1>10 DEF ReplayRaises
  <2> HIDE DEF r
  <2> QED
    BY <1>6, <2>1, <2>2, <2>3, <2>4
<1> QED
  BY <1>7, <1>8, <1>9, <1>10

(* The receipt of the Worker is the first of its call.                     *)
LEMMA EmitWorkerKeeps ==
  ASSUME NodesInv, NEW c \in NodeCalls, EmitWorker(c)
  PROVE  NodesInv'
<1> DEFINE n == NodeOf[c]
           h == Value(n, call[c].out)
           q == [call |-> c, agent |-> "worker", hash |-> h, correct |-> FALSE]
           rec == IF Dual THEN [call[c] EXCEPT !.step = "verifier", !.hash = h] ELSE Returned(c)
           bad == [call[c] EXCEPT !.step = "raised"]
<1>1. /\ n \in GraphNodes /\ CallOK(c, call[c], sink) /\ call[c].step = "worker"
      /\ Emit(c, q, rec) /\ UNCHANGED <<graphVars, memory, unwrapped>>
  BY NodesAssumption DEF EmitWorker, NodesInv, CallsOK
<1>2. /\ call[c] \in CallRecords /\ call[c].out \in Outputs /\ call[c].out[1] = KindOf[n]
      /\ ~call[c].failed
  BY <1>1 DEF CallOK, OutputsOK
<1>3. h \in Int /\ (KindOf[n] # "sharing" => h = call[c].out[2])
  BY <1>1, <1>2, ValueIsAnInt
<1> HIDE DEF h
<1>4. q \in Receipts /\ q.call = c /\ q.agent = "worker"
  BY <1>3 DEF Receipts
<1>5. /\ bad \in CallRecords /\ bad.step = "raised" /\ ~bad.failed
      /\ rec \in CallRecords /\ rec.step = (IF Dual THEN "verifier" ELSE "returned") /\ ~rec.failed
      /\ rec.out = call[c].out /\ rec.again = call[c].again /\ (Dual => rec.hash = h)
  BY <1>1, <1>2, <1>3 DEF CallRecords, CallSteps, Returned, h
<1>6. OutputsOK(c, bad)
  BY <1>5 DEF OutputsOK
<1>7. OutputsOK(c, rec)
  BY <1>1, <1>2, <1>3, <1>5 DEF OutputsOK, CallOK
<1> HIDE DEF q, rec, bad
<1>8. Among(sink, c, "worker") = {} /\ Among(sink, c, "verifier") = {}
  BY <1>1 DEF CallOK, WorkerOK, VerifierOK
<1>9. /\ Among(Append(sink, q), c, "worker") = {Len(sink) + 1}
      /\ Among(Append(sink, q), c, "verifier") = {}
      /\ Len(sink) + 1 \in DOMAIN Append(sink, q)
  <2>1. sink \in Seq(Receipts)
    BY DEF NodesInv, SinkOK
  <2>2. Among(Append(sink, q), c, "worker") = Among(sink, c, "worker") \cup {Len(sink) + 1}
    BY <1>4, <2>1, AmongAppended
  <2>3. Among(Append(sink, q), c, "verifier") = Among(sink, c, "verifier")
    BY <1>4, <2>1, AmongAppended
  <2>4. Len(sink) + 1 \in DOMAIN Append(sink, q)
    BY <1>4, <2>1, AmongAppended
  <2> QED
    BY <1>8, <2>2, <2>3, <2>4
<1>10. CallOK(c, rec, Append(sink, q))
  BY <1>5, <1>7, <1>9, NodesAssumption DEF CallOK, WorkerOK, VerifierOK
<1>11. \A s \in {sink, Append(sink, q)} : CallOK(c, bad, s)
  BY <1>5, <1>6, <1>8, <1>9 DEF CallOK, WorkerOK, VerifierOK
<1>12. SinkOK' /\ CallsOK'
  BY <1>1, <1>4, <1>10, <1>11, EmitKeeps DEF bad
<1> QED
  BY <1>1, <1>12 DEF NodesInv, GraphOK, MemoryOK, graphVars

(* The receipt of the Verifier comes after it, and is the only one.        *)
LEMMA EmitVerifierKeeps ==
  ASSUME NodesInv, NEW c \in NodeCalls, EmitVerifier(c)
  PROVE  NodesInv'
<1> DEFINE n == NodeOf[c]
           h == Value(n, call[c].again)
           q == [call |-> c, agent |-> "verifier", hash |-> h, correct |-> h = call[c].hash]
           rec == Returned(c)
           bad == [call[c] EXCEPT !.step = "raised"]
<1>1. /\ n \in GraphNodes /\ CallOK(c, call[c], sink) /\ call[c].step = "verifier"
      /\ Emit(c, q, rec) /\ UNCHANGED <<graphVars, memory, unwrapped>>
  BY NodesAssumption DEF EmitVerifier, NodesInv, CallsOK
<1>2. /\ call[c] \in CallRecords /\ call[c].out \in Outputs /\ ~call[c].failed /\ Dual
      /\ call[c].again \in Outputs
      /\ KindOf[n] # "sharing" => call[c].again[1] # "sharing" /\ call[c].hash = call[c].out[2]
  BY <1>1 DEF CallOK, OutputsOK
<1>3. h \in Int /\ (KindOf[n] # "sharing" => h = call[c].again[2])
  BY <1>1, <1>2, ValueIsAnInt
<1>4. Value(n, call[c].out) \in Int
  BY <1>1, <1>2, ValueIsAnInt
<1> HIDE DEF h
<1>5. /\ q \in Receipts /\ q.call = c /\ q.agent = "verifier"
      /\ q.correct <=> h = call[c].hash
  BY <1>3 DEF Receipts
<1>6. /\ bad \in CallRecords /\ bad.step = "raised" /\ ~bad.failed
      /\ bad.out = call[c].out /\ bad.again = call[c].again
      /\ rec \in CallRecords /\ rec.step = "returned" /\ ~rec.failed
      /\ rec.out = call[c].out /\ rec.again = call[c].again
  BY <1>2, <1>4 DEF CallRecords, CallSteps, Returned
<1>7. OutputsOK(c, bad) /\ OutputsOK(c, rec)
  BY <1>6 DEF OutputsOK
<1> HIDE DEF q, rec, bad
<1>8. /\ Among(sink, c, "verifier") = {}
      /\ \E i \in DOMAIN sink : Among(sink, c, "worker") = {i}
  BY <1>1 DEF CallOK, WorkerOK, VerifierOK
<1>9. PICK i \in DOMAIN sink : Among(sink, c, "worker") = {i}
  BY <1>8
<1> DEFINE s2 == Append(sink, q)
           j == Len(sink) + 1
<1>10. /\ Among(s2, c, "worker") = {i} /\ Among(s2, c, "verifier") = {j}
       /\ i \in DOMAIN s2 /\ i < j /\ s2[j] = q
  <2>1. sink \in Seq(Receipts)
    BY DEF NodesInv, SinkOK
  <2>2. Among(s2, c, "worker") = Among(sink, c, "worker")
    BY <1>5, <2>1, AmongAppended
  <2>3. Among(s2, c, "verifier") = Among(sink, c, "verifier") \cup {j}
    BY <1>5, <2>1, AmongAppended
  <2>4. i \in DOMAIN s2 /\ i < j /\ s2[j] = q
    BY <1>5, <2>1, AmongAppended
  <2> QED
    BY <1>8, <1>9, <2>2, <2>3, <2>4
<1> HIDE DEF s2, j
<1>11. KindOf[n] # "sharing" => (s2[j].correct <=> call[c].out[2] = call[c].again[2])
  BY <1>2, <1>3, <1>5, <1>10
<1>12. \A r \in {rec, bad} : CallOK(c, r, s2)
  <2> SUFFICES ASSUME NEW r \in {rec, bad} PROVE CallOK(c, r, s2)
    OBVIOUS
  <2>1. r \in CallRecords /\ OutputsOK(c, r) /\ ~r.failed /\ r.step \in {"returned", "raised"}
    BY <1>6, <1>7
  <2>2. WorkerOK(c, r, s2)
    BY <1>10, <2>1 DEF WorkerOK
  <2>3. VerifierOK(c, r, s2)
    BY <1>6, <1>10, <1>11, <2>1 DEF VerifierOK
  <2> QED
    BY <2>1, <2>2, <2>3 DEF CallOK
<1>13. CallOK(c, bad, sink)
  BY <1>6, <1>7, <1>8 DEF CallOK, WorkerOK, VerifierOK
<1>14. SinkOK' /\ CallsOK'
  BY <1>1, <1>5, <1>12, <1>13, EmitKeeps DEF bad, s2
<1> QED
  BY <1>1, <1>14 DEF NodesInv, GraphOK, MemoryOK, graphVars

LEMMA NodesInvHolds == NodesSpec => []NodesInv
<1>1. NodesInv /\ [NodesNext]_nodesVars => NodesInv'
  <2> SUFFICES ASSUME NodesInv, [NodesNext]_nodesVars PROVE NodesInv'
    OBVIOUS
  <2>1. CASE UNCHANGED nodesVars
    BY <2>1 DEF nodesVars, NodesInv, GraphOK, MemoryOK, SinkOK, CallsOK
  <2>2. CASE Attest \/ \E n \in GraphNodes : AddNode(n)
    BY <2>2, AttestKeeps
  <2>3. ASSUME NEW c \in NodeCalls, Invoke(c) \/ FunctionRaises(c) \/ Replay(c) \/ ReplayRaises(c)
        PROVE  NodesInv'
    BY <2>3, FunctionKeeps
  <2>4. ASSUME NEW c \in NodeCalls, EmitWorker(c) PROVE NodesInv'
    BY <2>4, EmitWorkerKeeps
  <2>5. ASSUME NEW c \in NodeCalls, EmitVerifier(c) PROVE NodesInv'
    BY <2>5, EmitVerifierKeeps
  <2> QED
    BY <2>1, <2>2, <2>3, <2>4, <2>5 DEF NodesNext
<1> QED
  BY <1>1, NodesInitOK, PTL DEF NodesSpec

(* For any graph, however it is put together and in whatever order its     *)
(* branches run: a call of an attested node that returned left one receipt *)
(* of the Worker and, with a Verifier, one after it that tells truly       *)
(* whether the outputs agreed; one whose function failed left none.        *)
THEOREM ReceiptsAreSound == NodesSpec => []ReceiptsSound
<1>1. NodesInv => ReceiptsSound
  <2> SUFFICES ASSUME NodesInv PROVE ReceiptsSound
    OBVIOUS
  <2>1. /\ \A n \in GraphNodes : wraps[n] <= 1
        /\ marked => \A n \in added \ Opaque : wraps[n] = 1
        /\ recorded <= Len(sink)
    BY DEF NodesInv, GraphOK, SinkOK
  <2>2. \A c \in NodeCalls : \A a : ReceiptsOf(c, a) = Among(sink, c, a)
    BY DEF ReceiptsOf, Among
  <2>3. ASSUME NEW c \in NodeCalls, call[c].step = "returned"
        PROVE  Cardinality(ReceiptsOf(c, "worker")) = 1 /\ (Dual => ReceiptsOf(c, "verifier") # {})
    <3>1. CallOK(c, call[c], sink)
      BY DEF NodesInv, CallsOK
    <3>2. PICK i \in DOMAIN sink : Among(sink, c, "worker") = {i}
      BY <2>3, <3>1 DEF CallOK, WorkerOK
    <3>3. Cardinality({i}) = 1
      BY FS_Singleton
    <3> QED
      BY <2>2, <2>3, <3>1, <3>2, <3>3 DEF CallOK, VerifierOK
  <2>4. ASSUME NEW c \in NodeCalls, call[c].failed PROVE ReceiptsOf(c, "worker") = {}
    BY <2>2, <2>4 DEF NodesInv, CallsOK, CallOK, WorkerOK
  <2>5. ASSUME NEW c \in NodeCalls, NEW j \in ReceiptsOf(c, "verifier")
        PROVE  /\ ReceiptsOf(c, "verifier") = {j}
               /\ \E i \in ReceiptsOf(c, "worker") : i < j
               /\ KindOf[NodeOf[c]] # "sharing" =>
                    (sink[j].correct <=> call[c].out[2] = call[c].again[2])
    BY <2>2, <2>5 DEF NodesInv, CallsOK, CallOK, VerifierOK
  <2> QED
    BY <2>1, <2>3, <2>4, <2>5 DEF ReceiptsSound
<1> QED
  BY <1>1, NodesInvHolds, PTL
=============================================================================
