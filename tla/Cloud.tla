-------------------------------- MODULE Cloud -------------------------------
(***************************************************************************)
(* attestly-cloud: its handlers, the sweeper and the clock, over one       *)
(* database and one blob store.                                            *)
(***************************************************************************)
EXTENDS Ingest, Retention, Readers, Accounts, Billing

(* Each of these makes a key of its own.                                   *)
ASSUME CloudAssumption ==
  /\ Signups \cap Callers = {} /\ Signups \cap Events = {} /\ Callers \cap Events = {}
  /\ \A scene \in Scenes : \A i \in DOMAIN scene.keys :
       scene.keys[i].hash \notin Signups \cup Callers \cup Events

cloudVars == <<actors, now, tables, blobVars, ingestVars, sweepVars, readVars,
               accountVars, billingVars>>

CloudInit ==
  /\ \E scene \in Scenes :
       TablesInit(scene) /\ BlobsInit(scene.rotten)
  /\ RetentionInit
  /\ IngestInit
  /\ ReadersInit
  /\ AccountsInit
  /\ BillingInit

Ingesting ==
  /\ IngestNext
  /\ UNCHANGED <<actors, now, sweepVars, readVars, accountVars, billingVars>>

Sweeping ==
  /\ RetentionNext
  /\ UNCHANGED <<actors, now, blobVars, ingestVars, readVars, accountVars, billingVars>>

Reading ==
  /\ ReadersNext
  /\ UNCHANGED <<actors, now, ingestVars, sweepVars, accountVars, billingVars>>

Serving ==
  /\ AccountsNext
  /\ UNCHANGED <<actors, now, blobVars, ingestVars, sweepVars, readVars, billingVars>>

Charging ==
  /\ BillingNext
  /\ UNCHANGED <<actors, now, blobVars, ingestVars, sweepVars, readVars, accountVars>>

Ticking ==
  /\ Tick
  /\ UNCHANGED <<actors, tables, blobVars, ingestVars, sweepVars, readVars, accountVars,
                 billingVars>>

CloudNext == Ingesting \/ Sweeping \/ Reading \/ Serving \/ Charging \/ Ticking

(* The sweeper is a loop that the runtime resumes for ever; nothing makes  *)
(* a client come, or wait.                                                 *)
CloudSpec == CloudInit /\ [][CloudNext]_cloudVars /\ WF_cloudVars(Sweeping)

----------------------------------------------------------------------------
CloudTypeOK ==
  /\ TablesTypeOK
  /\ BlobsTypeOK
  /\ IngestTypeOK
  /\ RetentionTypeOK
  /\ ReadersTypeOK
  /\ AccountsTypeOK
  /\ BillingTypeOK

(* An attestation that search lists can be read back: its blob is there,   *)
(* and whole, unless two puts of it overlapped or the disk lost it.  (The  *)
(* put comes before the insert, and a retry after a crash in between finds *)
(* the blob; a dropped put leaves only a temporary file.)                  *)
StoredWhole ==
  \A x \in rows : Stored(x.content) /\ (x.content \notin suspect => Whole(x.content))

(* What the comment of put (blob/filesystem.rs) promises: once no put of a *)
(* content is under way, the file at its path is not a part of it.         *)
NoHalfBlob ==
  \A c \in Contents :
    (\A r \in Posted : Content(r) = c => ~InFlight(r)) => (Stored(c) => Whole(c))

(* Usage counts each attestation once, on the day of its received_at,      *)
(* however often it was posted, and deleting a row takes nothing off it.   *)
(* It lacks those whose request has yet to count them or ended before it   *)
(* could, which no later request makes up for (NothingMissed).  And a      *)
(* request counts on the day of the row that its SELECT finds: where its   *)
(* own row was deleted and the id inserted again before that, the count is *)
(* of another instant.                                                     *)
FiledOn(r) == <<Account(r), DateNaive(filed[r])>>
CountedOn(r) == <<Account(r), DateNaive(at[r])>>
Supplanted(r) == effect[r] = "metered" /\ at[r] # filed[r]
Lacking(k) == {r \in Posted : FiledOn(r) = k /\ (effect[r] = "row" \/ Supplanted(r))}
Excess(k) == {r \in Posted : CountedOn(r) = k /\ Supplanted(r)}

Balanced(k) ==
  UsageOn(k) + Cardinality(Lacking(k))
    = Cardinality(RowsOn(k)) + Deleted(k) + Cardinality(Excess(k))

AccountDays == DOMAIN usage \cup DOMAIN swept \cup {DayOf(x) : x \in rows}
                 \cup {FiledOn(r) : r \in Posted} \cup {CountedOn(r) : r \in Posted}

UsageAccounted == \A k \in AccountDays : Balanced(k)

(* What the README of the service (lines 102-104) says of usage: that it   *)
(* is populated on every successful ingest, so that nothing is missed.  An *)
(* attestation that a request was answered 200 or 201 for is then not one  *)
(* whose row was inserted by a request that ended without counting it.     *)
NothingMissed ==
  \A q, r \in Posted :
    pc[q] \in {"200", "201"} /\ Content(q) = Content(r) /\ Account(q) = Account(r) =>
      ~(pc[r] = "failed" /\ effect[r] = "row")

(* A client that follows the cursor to the end has seen, once and newest   *)
(* first, every attestation that matched at its first page and was there   *)
(* at each later one, whatever was inserted and deleted meanwhile.         *)
WalkComplete ==
  /\ \A i, j \in DOMAIN walk.seen : i < j => Before(walk.seen[j], walk.seen[i])
  /\ walk.status = "done" => walk.start \subseteq ToSet(walk.seen)

(* What a request that reads receipts hands out is of one account, whole,  *)
(* and, through a link, named by the link; a link that was revoked or had  *)
(* expired when the request came hands out nothing.                        *)
PagesSound ==
  \A v \in Reader :
    LET r == reader[v] IN
    /\ \A i \in DOMAIN r.page :
         /\ r.page[i].row.account = r.account
         /\ r.page[i].whole
         /\ r.kind = "share" => IdOf[r.page[i].row.content] \in ToSet(links[r.link].ids)
    /\ r.dead => r.status \in {"resolve", "404"}

(* A row is deleted only when it is older than its account's retention,    *)
(* and is deleted some time after that, though passes fail.                *)
OutOfDate(x) == x.at < now - accounts[x.account].retention * DayLength
HasOutOfDate(c) == \E x \in rows : x.content = c /\ OutOfDate(x)

NoneTooSoon == [][\A x \in rows : x \in rows' \/ OutOfDate(x)]_cloudVars

RetentionKept ==
  /\ NoneTooSoon
  /\ "sweeper" \in actors => \A c \in Contents : []<>~HasOutOfDate(c)

(* A key opens an account only as long as it is active, even if it was     *)
(* still listed as active when the request came; and only a request of the *)
(* account that owns it revokes a key.                                     *)
KeysGuarded ==
  [][/\ \A v \in Callers :
          caller[v].status = "refetch" /\ caller'[v].status = "authed" =>
            /\ ~keys[caller[v].key].revoked
            /\ caller'[v].account = keys[caller[v].key].account
     /\ \A i \in DOMAIN keys :
          keys'[i].revoked /\ ~keys[i].revoked =>
            \E v \in Callers : Authed(v) /\ caller[v].account = keys[i].account]_cloudVars

(* A signup that was answered with 201 has an account to itself, with its  *)
(* password and a key, whoever signed up or checked out with that email at *)
(* the same time.                                                          *)
SignupsOwn ==
  \A s \in Signups : signup[s].status = "201" =>
    /\ accounts[signup[s].account].password = s
    /\ \E i \in DOMAIN keys : keys[i].account = signup[s].account /\ keys[i].hash = s
    /\ \A t \in Signups \ {s} : signup[t].account # signup[s].account

(* A checkout that Stripe knows to be processed has an account with its    *)
(* email and with a customer, through lost answers, failures and second    *)
(* deliveries; and the account has a key unless its signup or the delivery *)
(* that inserted it has failed, or is under way, or it had none when the   *)
(* service started.                                                        *)
Keyless(i) == \A k \in DOMAIN keys : keys[k].account # i
WasKeyless(i) ==
  \E scene \in Scenes :
    /\ scene.actors = actors /\ i \in DOMAIN scene.accounts
    /\ \A k \in DOMAIN scene.keys : scene.keys[k].account # i
Excused(i) ==
  \/ WasKeyless(i)
  \/ \E s \in Signups : signup[s].account = i /\ signup[s].status \in {"key", "500"}
  \/ \E e \in Events :
       /\ hook[e].account = i
       /\ hook[e].failed \/ (hook[e].new /\ hook[e].status \in {"ids", "key"})

CheckoutsProvision ==
  \A e \in Events : Payload[e].type = "checkout" /\ hook[e].acked =>
    \E i \in AccountsOf(accounts, Payload[e].email) :
      accounts[i].customer # None /\ (Keyless(i) => Excused(i))

(* What an account used in a period, by the table u.                       *)
Used(u, i, from, to) == SumOver(u, {k \in DOMAIN u : k[1] = i /\ k[2] \in from .. to - 1})

(* A total is no less than there was when the call began, and no more than *)
(* there is.                                                               *)
Reckoned(x) ==
  /\ Used(x.before, x.account, x.from, x.to) <= x.total
  /\ x.total <= Used(usage, x.account, x.from, x.to)

BeyondPlan(x) == x.total - Included[accounts[x.account].plan]

(* The charge that a mark rests on: the call's own, or one up to the same  *)
(* day that Stripe had made less than a day before for another call, of    *)
(* whatever period and total that one had.                                 *)
RestsOn(m, x) ==
  /\ x.account = m.account /\ x.to = m.to
  /\ x.at <= m.posted /\ m.posted - x.at < DayLength
  /\ x.by = m.by => x.from = m.from /\ x.total = m.total

(* An account that is billed through a day was, if it had used more than   *)
(* its plan includes in the period of the call that billed it, charged up  *)
(* to that day.  A charge is of as many units, begun ones included, as the *)
(* account used beyond its plan in the period of the call that made it.    *)
(* And no two charges up to one day are less than a day apart, whatever    *)
(* failed and was repeated.                                                *)
OverageCharged ==
  /\ \A i \in DOMAIN accounts :
       accounts[i].billed = NeverBilled \/ \E m \in marked : m.account = i /\ m.to = accounts[i].billed
  /\ \A m \in marked :
       Reckoned(m) /\ (BeyondPlan(m) > 0 => \E x \in charges : RestsOn(m, x))
  /\ \A x \in charges :
       /\ Reckoned(x)
       /\ BeyondPlan(x) > 0
       /\ BeyondPlan(x) \in (x.units - 1) * UnitSize + 1 .. x.units * UnitSize
  /\ \A x, y \in charges :
       x # y /\ x.account = y.account /\ x.to = y.to =>
         x.at - y.at >= DayLength \/ y.at - x.at >= DayLength

(* What handlers/billing.rs says of bill_period: a retried trigger does    *)
(* not double-charge (18-19), and it is idempotent on the account and the  *)
(* end of the period (292-293).                                            *)
ChargedOnce == \A x, y \in charges : x.account = y.account /\ x.to = y.to => x = y
=============================================================================
