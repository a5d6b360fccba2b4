------------------------------ MODULE Retention -----------------------------
(***************************************************************************)
(* The retention sweeper (sweeper.rs), a task of the service: a pass lists *)
(* the accounts and deletes, account by account, the attestations older    *)
(* than its retention.  A statement that fails ends the pass, and the next *)
(* one, a day later, begins with the first account again.                  *)
(***************************************************************************)
EXTENDS CloudTables

CONSTANTS MaxErrors   \* bound: statements of the sweeper that fail

ASSUME RetentionAssumption == MaxErrors \in Nat

VARIABLES
  sweep,    \* the pass: its accounts, the next of them, when it began
  swept,    \* how many rows of each account and day are gone; at the start, as
            \* many as usage has more than there are rows
  errors    \* statements that failed

sweepVars == <<sweep, swept, errors>>

Asleep == [status |-> "asleep", list |-> <<>>, next |-> 0, began |-> 0]

RetentionTypeOK ==
  /\ sweep.status \in {"asleep", "delete", "mark"}
  /\ sweep.status # "asleep" => sweep.next \in DOMAIN sweep.list
  /\ sweep.began <= now
  /\ errors \in 0 .. MaxErrors

DayOf(x) == <<x.account, DateNaive(x.at)>>
RowsOn(k) == {x \in rows : DayOf(x) = k}
UsageOn(k) == IF k \in DOMAIN usage THEN usage[k] ELSE 0
Deleted(k) == IF k \in DOMAIN swept THEN swept[k] ELSE 0

(* The task begins with a pass.                                            *)
RetentionInit ==
  /\ sweep = Asleep
  /\ swept = [k \in DOMAIN usage \cup {DayOf(x) : x \in rows} |->
                UsageOn(k) - Cardinality(RowsOn(k))]
  /\ errors = 0

(* list_accounts: the rows as they are now, whatever becomes of them.      *)
BeginPass ==
  /\ "sweeper" \in actors
  /\ sweep.status = "asleep"
  /\ accounts # <<>>
  /\ sweep' = [status |-> "delete", list |-> accounts, next |-> 1, began |-> now]
  /\ UNCHANGED <<swept, errors, tables>>

Cutoff(a) == sweep.began - sweep.list[a].retention * DayLength

DeleteExpired ==
  LET a == sweep.next
      kept == DeleteAttestationsOlderThan(rows, a, Cutoff(a)) IN
  /\ sweep.status = "delete"
  /\ rows' = kept
  /\ swept' = [k \in DOMAIN swept \cup {DayOf(x) : x \in rows \ kept} |->
                Deleted(k) + Cardinality({x \in rows \ kept : DayOf(x) = k})]
  /\ sweep' = [sweep EXCEPT !.status = "mark"]
  /\ UNCHANGED <<errors, accounts, keys, usage, links>>

(* mark_swept writes a column that nothing reads.                          *)
MarkSwept ==
  /\ sweep.status = "mark"
  /\ sweep' = IF sweep.next = Len(sweep.list) THEN Asleep
              ELSE [sweep EXCEPT !.status = "delete", !.next = @ + 1]
  /\ UNCHANGED <<swept, errors, tables>>

Stays == [sweep EXCEPT !.status = "stuck"]   \* mutant
AfterError == Asleep

StatementFails ==
  /\ errors < MaxErrors
  /\ sweep.status # "asleep"
  /\ errors' = errors + 1
  /\ sweep' = AfterError
  /\ UNCHANGED <<swept, tables>>

RetentionNext == BeginPass \/ DeleteExpired \/ MarkSwept \/ StatementFails
=============================================================================
