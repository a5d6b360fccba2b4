------------------------------- MODULE Ingest -------------------------------
(***************************************************************************)
(* How an attestation reaches the service: CloudSink.emit of the SDK       *)
(* (sinks.py) posts it, and again on a 5xx or a transport error; ingest    *)
(* (handlers/attestations.rs) puts the blob, inserts the row and, if it    *)
(* was not there, counts it.  An answer may be lost, or come after the     *)
(* client stopped waiting, and a request that is dropped stops between any *)
(* two of its steps.                                                       *)
(***************************************************************************)
EXTENDS Blobs

CONSTANTS
  Clients,      \* calls of emit
  MaxAttempts,  \* max_attempts of the CloudSink of each
  Post,         \* what a client posts: [account |-> ..., content |-> ...]
  Genuine       \* the contents whose signature verifies

VARIABLES
  sink,         \* each call of emit
  pc,           \* each request
  at,           \* its received_at
  effect,       \* what it has done: inserted the row, counted it
  filed         \* and the received_at of that row

ingestVars == <<sink, pc, at, effect, filed>>

Posted == UNION {{k} \X (1 .. MaxAttempts[k]) : k \in Clients}

ASSUME IngestAssumption ==
  /\ MaxAttempts \in [Clients -> Nat \ {0}]
  /\ Posted \subseteq Requests
  /\ Genuine \subseteq Contents
  /\ \A k \in Clients : Post[k].content \in Contents /\ Post[k].account \in Nat

Content(r) == Post[r[1]].content
Account(r) == Post[r[1]].account
Current(k) == <<k, sink[k].attempt>>

Put == {"create", "write", "rename"}
Ended == {"200", "201", "422", "failed"}
Points == {"none", "exists", "insert", "select", "meter"} \cup Put \cup Ended

IngestTypeOK ==
  /\ sink \in [Clients -> [status : {"idle", "waiting", "returned", "rejected", "unavailable"},
                           attempt : Nat]]
  /\ \A k \in Clients :
       /\ sink[k].attempt <= MaxAttempts[k]
       /\ sink[k].attempt = 0 <=> sink[k].status = "idle"
  /\ pc \in [Posted -> Points]
  /\ \A r \in Posted : pc[r] = "none" <=> r[2] > sink[r[1]].attempt
  /\ at \in [Posted -> Nat]
  /\ effect \in [Posted -> {"none", "row", "metered"}]
  /\ filed \in [Posted -> Nat]

IngestInit ==
  /\ sink = [k \in Clients |-> [status |-> "idle", attempt |-> 0]]
  /\ pc = [r \in Posted |-> "none"]
  /\ at = [r \in Posted |-> 0]
  /\ effect = [r \in Posted |-> "none"]
  /\ filed = [r \in Posted |-> 0]

GoTo(r, point) == pc' = [pc EXCEPT ![r] = point]
InFlight(r) == pc[r] \notin Ended \cup {"none"}
Reverify(c) == c \in Genuine

----------------------------------------------------------------------------
(* CloudSink.emit.  A request is sent, and reaches ingest; reverify fails  *)
(* at once.                                                                *)
Send(k, n) ==
  /\ sink' = [sink EXCEPT ![k] = [status |-> "waiting", attempt |-> n]]
  /\ GoTo(<<k, n>>, IF Reverify(Post[k].content) THEN "exists" ELSE "422")
  /\ UNCHANGED <<at, effect, filed, blobVars, tables>>

Emit(k) == sink[k].status = "idle" /\ Send(k, 1)

Settle(k, status) ==
  /\ sink' = [sink EXCEPT ![k].status = status]
  /\ UNCHANGED <<pc, at, effect, filed, blobVars, tables>>

Return(k) ==
  /\ sink[k].status = "waiting"
  /\ pc[Current(k)] \in {"200", "201"}
  /\ Settle(k, "returned")

Rejected(k) ==
  /\ sink[k].status = "waiting"
  /\ pc[Current(k)] = "422"
  /\ Settle(k, "rejected")

(* A 5xx, or no answer in time: the request may be over, dropped, or still *)
(* under way.                                                              *)
TryAgain(k) ==
  /\ sink[k].status = "waiting"
  /\ sink[k].attempt < MaxAttempts[k]
  /\ Send(k, sink[k].attempt + 1)

GiveUp(k) ==
  /\ sink[k].status = "waiting"
  /\ sink[k].attempt = MaxAttempts[k]
  /\ Settle(k, "unavailable")

----------------------------------------------------------------------------
(* BlobStore::put                                                          *)
TryExists(r) ==
  /\ pc[r] = "exists"
  /\ IF Stored(Content(r))
     THEN GoTo(r, "insert") /\ at' = [at EXCEPT ![r] = now]
     ELSE GoTo(r, "create") /\ UNCHANGED at
  /\ UNCHANGED <<sink, effect, filed, blobVars, tables>>

Writers(c) == {r \in Posted : Content(r) = c /\ pc[r] \in {"write", "rename"}}

Create(r) ==
  /\ pc[r] = "create"
  /\ CreateTmp(r, Content(r), Writers(Content(r)) # {})
  /\ GoTo(r, "write")
  /\ UNCHANGED <<sink, at, effect, filed, tables>>

Write(r) ==
  /\ pc[r] = "write"
  /\ WriteAll(r)
  /\ GoTo(r, "rename")
  /\ UNCHANGED <<sink, at, effect, filed, tables>>

Rename(r) ==
  /\ pc[r] = "rename"
  /\ CanRename(Content(r))
  /\ RenameTmp(r, Content(r))
  /\ GoTo(r, "insert")
  /\ at' = [at EXCEPT ![r] = now]
  /\ UNCHANGED <<sink, effect, filed, tables>>

(* Another put renamed the file: NotFound.                                 *)
RenameFails(r) ==
  /\ pc[r] = "rename"
  /\ ~CanRename(Content(r))
  /\ GoTo(r, "failed")
  /\ Abandon(r)
  /\ UNCHANGED <<sink, at, effect, filed, tables>>

----------------------------------------------------------------------------
(* insert_attestation and record_usage                                     *)
Insert(r) ==
  LET answer == InsertStatement(rows, NewRow(Content(r), Account(r), at[r])) IN
  /\ pc[r] = "insert"
  /\ rows' = answer.rows
  /\ effect' = [effect EXCEPT ![r] = IF answer.inserted THEN "row" ELSE "none"]
  /\ filed' = [filed EXCEPT ![r] = IF answer.inserted THEN at[r] ELSE 0]
  /\ GoTo(r, "select")
  /\ UNCHANGED <<sink, at, blobVars, accounts, keys, usage, links>>

Outcome(r) == IF effect[r] = "row" THEN "meter" ELSE "200"

Select(r) ==
  /\ pc[r] = "select"
  /\ IF SelectById(rows, IdOf[Content(r)]) = {}
     THEN GoTo(r, "failed") /\ UNCHANGED at
     ELSE \E x \in SelectById(rows, IdOf[Content(r)]) :
            GoTo(r, Outcome(r)) /\ at' = [at EXCEPT ![r] = x.at]
  /\ UNCHANGED <<sink, effect, filed, blobVars, tables>>

WhenCounted(r) == now   \* mutant
ReceivedAt(r) == at[r]

Meter(r) ==
  /\ pc[r] = "meter"
  /\ usage' = RecordUsage(usage, Account(r), ReceivedAt(r))
  /\ effect' = [effect EXCEPT ![r] = "metered"]
  /\ GoTo(r, "201") \/ GoTo(r, "failed")   \* counted, but the answer is lost
  /\ UNCHANGED <<sink, at, filed, blobVars, accounts, keys, rows, links>>

(* A statement or a call of the file system fails; or the connection is    *)
(* lost and the handler dropped; or the process dies.                      *)
Fail(r) ==
  /\ InFlight(r)
  /\ GoTo(r, "failed")
  /\ Abandon(r)
  /\ UNCHANGED <<sink, at, effect, filed, tables>>

IngestNext ==
  \/ \E k \in Clients \cap actors : Emit(k) \/ Return(k) \/ Rejected(k) \/ TryAgain(k) \/ GiveUp(k)
  \/ \E r \in Posted :
       \/ TryExists(r) \/ Create(r) \/ Write(r) \/ Rename(r) \/ RenameFails(r)
       \/ Insert(r) \/ Select(r) \/ Meter(r)
       \/ Fail(r)
=============================================================================
