------------------------------ MODULE Telemetry -----------------------------
(***************************************************************************)
(* The telemetry of the SDK (attestly.langgraph.telemetry) and its ingest  *)
(* (handlers/telemetry.rs).  Each process counts the attestations it emits *)
(* in a day; a thread posts the count once when the module is imported and *)
(* then, waking up every hour, once a day, under an install id that is in  *)
(* a file shared by the processes of a machine.  The service files a       *)
(* report under the day it arrives.  The program switches telemetry off    *)
(* and on when it likes (telemetry_disable, telemetry_enable), so each     *)
(* is_enabled() below is free to answer either way.                        *)
(***************************************************************************)
EXTENDS Integers, FiniteSets

CONSTANTS
  Processes,     \* of one machine
  Nobody,        \* no install id
  MaxDay,        \* bound: the last day
  MaxMade        \* bound: attestations of a process in a day

ASSUME TelemetryAssumption ==
  MaxDay \in Nat /\ MaxMade \in Nat /\ Nobody \notin Processes

VARIABLES
  today,         \* the UTC date
  idFile,        \* the install-id file
  proc,          \* _state of each process, and its thread with the locals of its report
  recording,     \* calls of record_attestation on their way to the lock, by the day they read
  made,          \* history: attestations that each process emitted, by the day it read
  events         \* telemetry_events: counts, by install and day

telemetryVars == <<today, idFile, proc, recording, made, events>>

Store == INSTANCE PgDb WITH Contents <- {}, IdOf <- <<>>, AgentOf <- <<>>, CustomerOf <- <<>>,
                            None <- Nobody, Retention <- [p \in {"team", "enterprise"} |-> 0],
                            Included <- [p \in {"team", "enterprise"} |-> 0], DayLength <- 1

Fresh == [id |-> Nobody, count |-> 0, current |-> 0, sent |-> -1,
          thread |-> "first", force |-> TRUE, asked |-> 0, payload |-> 0]

TelemetryInit ==
  /\ today = 0
  /\ idFile = Nobody
  /\ proc = [p \in Processes |-> Fresh]
  /\ recording = [p \in Processes |-> [d \in 0 .. MaxDay |-> 0]]
  /\ made = [p \in Processes |-> [d \in 0 .. MaxDay |-> 0]]
  /\ events = <<>>

Set(p, rec) == proc' = [proc EXCEPT ![p] = rec]

Holds(p) == proc[p].thread \in {"load", "create", "write"}   \* the lock of _state

NewDay ==
  /\ today < MaxDay
  /\ today' = today + 1
  /\ UNCHANGED <<idFile, proc, recording, made, events>>

----------------------------------------------------------------------------
(* record_attestation reads the day before it takes the lock, so that the  *)
(* calls of a process, on several threads, may count in another order than *)
(* they read: one that read yesterday takes the counter back to yesterday. *)
(* (With telemetry disabled the call does nothing.)                        *)
ReadDay(p) ==
  /\ made[p][today] < MaxMade
  /\ recording' = [recording EXCEPT ![p][today] = @ + 1]
  /\ made' = [made EXCEPT ![p][today] = @ + 1]
  /\ UNCHANGED <<today, idFile, proc, events>>

KeepsCounting(s, d) == s.count + 1   \* mutant
Counted(s, d) == IF s.current = d THEN s.count + 1 ELSE 1

RecordAttestation(p, d) ==
  /\ recording[p][d] > 0
  /\ ~Holds(p)
  /\ Set(p, [proc[p] EXCEPT !.count = Counted(proc[p], d), !.current = d])
  /\ recording' = [recording EXCEPT ![p][d] = @ - 1]
  /\ UNCHANGED <<today, idFile, made, events>>

----------------------------------------------------------------------------
Sleep(s) == [s EXCEPT !.thread = "asleep", !.force = FALSE, !.asked = 0, !.payload = 0]

(* The thread: an hour has passed, or the module was imported just now.    *)
(* Telemetry that is disabled by then skips the first report, and ends the *)
(* thread at any later one, for good.                                      *)
Wake(p) ==
  /\ proc[p].thread \in {"first", "asleep"}
  /\ \/ Set(p, [proc[p] EXCEPT !.thread = "lock", !.force = proc[p].thread = "first",
                                !.asked = today])
     \/ Set(p, IF proc[p].thread = "first" THEN Sleep(proc[p])   \* is_enabled() is false
               ELSE [proc[p] EXCEPT !.thread = "ended"])
  /\ UNCHANGED <<today, idFile, recording, made, events>>

Compose(s) == [s EXCEPT !.payload = s.count, !.sent = s.asked, !.thread = "post"]

(* emit_daily_aggregate, under the lock                                    *)
TakeLock(p) ==
  LET s == proc[p] IN
  /\ s.thread = "lock"
  /\ Set(p, IF ~s.force /\ s.sent = s.asked THEN Sleep(s)
            ELSE IF s.id # Nobody THEN Compose(s)
            ELSE [s EXCEPT !.thread = "load"])
  /\ UNCHANGED <<today, idFile, recording, made, events>>

(* load_or_create_install_id: what is not a UUID, as a file that another   *)
(* process has just opened for writing, counts as no id.                   *)
LoadInstallId(p) ==
  /\ proc[p].thread = "load"
  /\ Set(p, IF idFile = Nobody THEN [proc[p] EXCEPT !.thread = "create", !.id = p]
            ELSE Compose([proc[p] EXCEPT !.id = idFile]))
  /\ UNCHANGED <<today, idFile, recording, made, events>>

TruncateFile(p) ==
  /\ proc[p].thread = "create"
  /\ \/ idFile' = Nobody /\ Set(p, [proc[p] EXCEPT !.thread = "write"])
     \/ UNCHANGED idFile /\ Set(p, Compose(proc[p]))   \* read-only: kept in memory
  /\ UNCHANGED <<today, recording, made, events>>

WriteInstallId(p) ==
  /\ proc[p].thread = "write"
  /\ idFile' = p \/ UNCHANGED idFile   \* or it fails
  /\ Set(p, Compose(proc[p]))
  /\ UNCHANGED <<today, recording, made, events>>

(* The report arrives, or the request fails; there is no second attempt.   *)
Post(p) ==
  /\ proc[p].thread = "post"
  /\ \/ events' = Store!UpsertTelemetryEvent(events,
                    [install |-> proc[p].id, day |-> today, count |-> proc[p].payload])
     \/ UNCHANGED events
  /\ Set(p, Sleep(proc[p]))
  /\ UNCHANGED <<today, idFile, recording, made>>

TelemetryNext ==
  \/ NewDay
  \/ \E p \in Processes :
       \/ ReadDay(p) \/ \E d \in 0 .. MaxDay : RecordAttestation(p, d)
       \/ Wake(p) \/ TakeLock(p) \/ LoadInstallId(p) \/ TruncateFile(p) \/ WriteInstallId(p)
       \/ Post(p)

TelemetrySpec == TelemetryInit /\ [][TelemetryNext]_telemetryVars

----------------------------------------------------------------------------
(* The count that the service holds for an install and a day is what one   *)
(* process with that install id had emitted on one day, never more: not    *)
(* the emissions of two days or of two processes.  (It need not be the day *)
(* of the row: a process that has emitted nothing yet today reports the    *)
(* count of the last day on which it did.)                                 *)
ReportsOneDay ==
  \A k \in DOMAIN events :
    \E p \in Processes, d \in 0 .. k[2] :
      proc[p].id = k[1] /\ events[k].count <= made[p][d]
=============================================================================
