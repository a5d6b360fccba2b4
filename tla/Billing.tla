------------------------------- MODULE Billing ------------------------------
(***************************************************************************)
(* Billing (handlers/billing.rs): the events that Stripe posts to the      *)
(* webhook, and the calls of bill_period.                                  *)
(*                                                                         *)
(* Stripe is external.  It posts an event until an answer of 2xx reaches   *)
(* it, at most MaxDeliveries times, perhaps again after that, and in any   *)
(* order; it answers a usage record whose idempotency key it has seen in   *)
(* the last day with the record made then (stripe.rs).                     *)
(***************************************************************************)
EXTENDS CloudTables

CONSTANTS
  Events,          \* what Stripe has to tell
  Payload,         \* each: [type, email, customer, subscription]
  MaxDeliveries,   \* bound: deliveries of an event
  Secret,          \* the secret that the service checks signatures with
  Headers,         \* bound: the signature headers that deliveries carry, each
                   \* [age, v1]: the age of its t, or None, and who signed
  Tolerance,       \* the replay window
  Bills,           \* calls of bill_period
  Periods,         \* the periods they name: <<from, to>>, each a day or None
  MonthLength,     \* days in a month
  UnitSize         \* attestations in a unit of overage: 1000

VARIABLES
  hook,            \* each event, and the delivery of it that is under way
  bill,            \* each call of bill_period
  charges,         \* the usage records that Stripe has made
  marked           \* each time an account was marked as billed: the period, its
                   \* total, the call, and when that call posted

billingVars == <<hook, bill, charges, marked>>

ASSUME BillingAssumption ==
  /\ UnitSize \in Nat \ {0}
  /\ MonthLength \in Nat \ {0}
  /\ MaxDeliveries \in Nat
  /\ Periods \subseteq (Nat \cup {None}) \X (Nat \cup {None})
  /\ \A h \in Headers : h.age # None => h.age \in Int
  /\ \A e \in Events : Payload[e].type \in {"checkout", "subscription"} => Payload[e].customer # None

Undelivered == [status |-> "idle", account |-> 0, new |-> FALSE, acked |-> FALSE,
                tries |-> 0, failed |-> FALSE]
Unasked == [status |-> "idle", list |-> <<>>, next |-> 0, from |-> 0, to |-> 0,
            before |-> <<>>, total |-> 0, units |-> 0, posted |-> 0]

BillingTypeOK ==
  /\ \A e \in Events :
       /\ hook[e].status \in {"idle", "upsert", "ids", "key", "find", "sync"}
       /\ hook[e].account \in 0 .. Len(accounts)
       /\ hook[e].status \in {"ids", "key", "sync"} => hook[e].account # 0
       /\ hook[e].tries \in 0 .. MaxDeliveries
  /\ \A b \in Bills :
       /\ bill[b].status \in {"idle", "read", "post", "mark", "200", "400", "500"}
       /\ bill[b].status \in {"read", "post", "mark"} => bill[b].next \in DOMAIN bill[b].list
       /\ bill[b].units \in Nat /\ bill[b].total \in Nat /\ bill[b].posted \in Nat

BillingInit ==
  /\ hook = [e \in Events |-> Undelivered]
  /\ bill = [b \in Bills |-> Unasked]
  /\ charges = {}
  /\ marked = {[account |-> i, from |-> 0, to |-> accounts[i].billed, by |-> None,
                before |-> <<>>, total |-> 0, posted |-> 0] : i \in DOMAIN accounts}

----------------------------------------------------------------------------
(* The webhook                                                             *)
Hook(e, rec) ==
  /\ hook' = [hook EXCEPT ![e] = rec]
  /\ UNCHANGED <<bill, charges, marked>>

(* The answer of 200 reaches Stripe, or is lost.                           *)
Acknowledge(e) ==
  \E reached \in BOOLEAN :
    Hook(e, [hook[e] EXCEPT !.status = "idle", !.acked = @ \/ reached])

(* webhook::verify: a header without t or v1, or with a t outside of the   *)
(* window on either side, is a bad request; then any of its signatures may *)
(* match (Stripe signs with two secrets while one is rolled).              *)
Verify(h) ==
  IF \/ h.age = None
     \/ h.v1 = {}
     \/ h.age > Tolerance \/ -h.age > Tolerance THEN "400"
  ELSE IF Secret \in h.v1 THEN "ok" ELSE "401"

(* The answer of 400 or 401 leaves the event to be delivered again.        *)
Refuse(e, h) ==
  /\ Verify(h) # "ok"
  /\ Hook(e, [hook[e] EXCEPT !.tries = @ + 1])

Route(e) ==
  Hook(e, [hook[e] EXCEPT !.tries = @ + 1,
             !.status = CASE Payload[e].type = "checkout" -> "upsert"
                          [] Payload[e].type = "subscription" -> "find"
                          [] OTHER -> "idle",
             !.acked = @ \/ Payload[e].type = "other"])

Deliver(e) ==
  /\ hook[e].status = "idle"
  /\ hook[e].tries < MaxDeliveries
  /\ \E h \in Headers : Refuse(e, h) \/ (Verify(h) = "ok" /\ Route(e))
  /\ UNCHANGED tables

(* provision_from_checkout                                                 *)
Upsert(e) ==
  LET answer == UpsertAccountByEmail(accounts, Payload[e].email, "team") IN
  /\ hook[e].status = "upsert"
  /\ accounts' = answer.accounts
  /\ Hook(e, [hook[e] EXCEPT !.status = "ids", !.account = answer.id, !.new = answer.inserted])
  /\ UNCHANGED <<keys, rows, usage, links>>

OnlyOfNew(e) ==                                               \* mutant
  IF hook[e].new
  THEN SetAccountStripeIds(accounts, hook[e].account, Payload[e].customer, Payload[e].subscription)
  ELSE accounts
Linked(e) == SetAccountStripeIds(accounts, hook[e].account, Payload[e].customer, Payload[e].subscription)

SetIds(e) ==
  /\ hook[e].status = "ids"
  /\ accounts' = Linked(e)
  /\ IF hook[e].new THEN Hook(e, [hook[e] EXCEPT !.status = "key"]) ELSE Acknowledge(e)
  /\ UNCHANGED <<keys, rows, usage, links>>

IssueKey(e) ==
  /\ hook[e].status = "key"
  /\ keys' = CreateApiKey(keys, hook[e].account, e)
  /\ Acknowledge(e)
  /\ UNCHANGED <<accounts, rows, usage, links>>

(* sync_subscription: an event that comes before the checkout has no       *)
(* account, and is answered with 200 all the same.                         *)
FindCustomer(e) ==
  /\ hook[e].status = "find"
  /\ \E i \in FindAccountByStripeCustomer(accounts, Payload[e].customer) :
       IF i = 0 THEN Acknowledge(e)
       ELSE Hook(e, [hook[e] EXCEPT !.status = "sync", !.account = i])
  /\ UNCHANGED tables

Sync(e) ==
  /\ hook[e].status = "sync"
  /\ accounts' = SetAccountStripeIds(accounts, hook[e].account, Payload[e].customer, Payload[e].subscription)
  /\ Acknowledge(e)
  /\ UNCHANGED <<keys, rows, usage, links>>

(* A statement fails or the process dies; failed remembers that it was     *)
(* after the account had been inserted.                                    *)
HookFails(e) ==
  /\ hook[e].status # "idle"
  /\ Hook(e, [hook[e] EXCEPT !.status = "idle",
                !.failed = @ \/ (hook[e].status \in {"ids", "key"} /\ hook[e].new)])
  /\ UNCHANGED tables

----------------------------------------------------------------------------
(* bill_period: the accounts are listed once, and billed one by one.       *)
(* before is the usage that there was when the call began; the code keeps  *)
(* no such copy.                                                           *)
Bill(b, rec) ==
  /\ bill' = [bill EXCEPT ![b] = rec]
  /\ UNCHANGED hook

(* Neither end: the month before this one.  One end alone is refused.      *)
Invalid(p) == \/ (p[1] = None) # (p[2] = None)
              \/ p[1] # None /\ p[1] >= p[2]

ResolvePeriod(p) ==
  LET month == DateNaive(now) \div MonthLength IN
  IF p = <<None, None>> THEN <<(month - 1) * MonthLength, month * MonthLength>> ELSE p

Next1(r) == IF r.next = Len(r.list) THEN [r EXCEPT !.status = "200"]
            ELSE [r EXCEPT !.status = "read", !.next = @ + 1]

StartBill(b) ==
  /\ bill[b].status = "idle"
  /\ \E p \in Periods :
       Bill(b, IF Invalid(p) THEN [Unasked EXCEPT !.status = "400"]
               ELSE Next1([Unasked EXCEPT !.list = accounts, !.from = ResolvePeriod(p)[1],
                                          !.to = ResolvePeriod(p)[2], !.before = usage]))
  /\ UNCHANGED <<charges, marked, tables>>

RoundedDown(overage) == overage \div UnitSize                 \* mutant
Units(overage) == (overage + UnitSize - 1) \div UnitSize

Overage(total, plan) == IF total > Included[plan] THEN total - Included[plan] ELSE 0

ReadUsage(b) ==
  LET r == bill[b]
      a == r.list[r.next]
      total == AccountUsageInRange(usage, r.next, r.from, r.to)
      units == Units(Overage(total, a.plan)) IN
  /\ r.status = "read"
  /\ Bill(b, IF a.plan = "enterprise" \/ a.billed >= r.to THEN Next1(r)
             ELSE [r EXCEPT !.status = IF units = 0 THEN "mark" ELSE "post",
                            !.total = total, !.units = units])
  /\ UNCHANGED <<charges, marked, tables>>

IdempotencyKey(b) == <<bill[b].next, bill[b].to>>

Remembered(key) == \E x \in charges : x.key = key /\ now - x.at < DayLength

UsageRecord(b) ==
  LET r == bill[b] IN
  [key |-> IdempotencyKey(b), account |-> r.next, from |-> r.from, to |-> r.to, by |-> b,
   before |-> r.before, total |-> r.total, units |-> r.units, at |-> now]

(* post_usage_record; the answer may be lost.                              *)
PostUsage(b) ==
  /\ bill[b].status = "post"
  /\ charges' = IF Remembered(IdempotencyKey(b)) THEN charges ELSE charges \cup {UsageRecord(b)}
  /\ \E answer \in {"mark", "500"} : Bill(b, [bill[b] EXCEPT !.status = answer, !.posted = now])
  /\ UNCHANGED <<marked, tables>>

Marking(b) ==
  LET r == bill[b] IN
  [account |-> r.next, from |-> r.from, to |-> r.to, by |-> b,
   before |-> r.before, total |-> r.total, posted |-> r.posted]

MarkBilled(b) ==
  /\ bill[b].status = "mark"
  /\ accounts' = SetBilledThrough(accounts, bill[b].next, bill[b].to)
  /\ marked' = marked \cup {Marking(b)}
  /\ Bill(b, Next1(bill[b]))
  /\ UNCHANGED <<charges, keys, rows, usage, links>>

BillFails(b) ==
  /\ bill[b].status \in {"read", "post", "mark"}
  /\ Bill(b, [bill[b] EXCEPT !.status = "500"])
  /\ UNCHANGED <<charges, marked, tables>>

BillingNext ==
  \/ \E e \in Events \cap actors :
       \/ Deliver(e) \/ Upsert(e) \/ SetIds(e) \/ IssueKey(e)
       \/ FindCustomer(e) \/ Sync(e) \/ HookFails(e)
  \/ \E b \in Bills \cap actors :
       StartBill(b) \/ ReadUsage(b) \/ PostUsage(b) \/ MarkBilled(b) \/ BillFails(b)
=============================================================================
