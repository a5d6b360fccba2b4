------------------------------- MODULE MemDb --------------------------------
(***************************************************************************)
(* The store of the tests, MemDb (store/memory.rs): vectors and maps under *)
(* one mutex, so each operation is one step, but for                       *)
(* upsert_account_by_email, which looks and creates under two locks.       *)
(***************************************************************************)
EXTENDS CloudTypes

Indices(table, Keep(_)) == {i \in DOMAIN table : Keep(table[i])}
InOrder(indices) == OrderBy(indices, LAMBDA i, j : i < j)

(* iter().find: the first that matches, or 0                               *)
Find(table, Keep(_)) ==
  LET found == Indices(table, Keep) IN
  IF found = {} THEN 0 ELSE CHOOSE i \in found : \A j \in found : i <= j

----------------------------------------------------------------------------
FindAccountByEmail(accounts, email) == Find(accounts, LAMBDA a : a.email = email)

(* Nothing looks whether the email is taken.                               *)
CreateAccount(accounts, email, plan, password) ==
  Append(accounts, NewAccount(email, plan, password))

UpsertAccountByEmail(accounts, email, plan) ==
  LET existing == FindAccountByEmail(accounts, email) IN
  IF existing # 0
  THEN [accounts |-> accounts, id |-> existing, inserted |-> FALSE]
  ELSE [accounts |-> CreateAccount(accounts, email, plan, None),
        id |-> Len(accounts) + 1, inserted |-> TRUE]

FindAccountByStripeCustomer(accounts, customer) ==
  Find(accounts, LAMBDA a : a.customer = customer)

FetchAccount(accounts, id) == IF id \in DOMAIN accounts THEN id ELSE 0

ForgetsSubscription(accounts, id, customer, subscription) ==    \* mutant
  IF id \notin DOMAIN accounts THEN accounts
  ELSE [accounts EXCEPT ![id].customer = customer, ![id].subscription = subscription]

SetAccountStripeIds(accounts, id, customer, subscription) ==
  IF id \notin DOMAIN accounts THEN accounts
  ELSE LET known == [accounts EXCEPT ![id].customer = customer]
       IN IF subscription = None THEN known
          ELSE [known EXCEPT ![id].subscription = subscription]

SetAccountPlan(accounts, id, plan) ==
  IF id \notin DOMAIN accounts THEN accounts
  ELSE [accounts EXCEPT ![id].plan = plan, ![id].retention = Retention[plan]]

SetBilledThrough(accounts, id, day) ==
  IF id \notin DOMAIN accounts THEN accounts
  ELSE [accounts EXCEPT ![id].billed = day]

ListAccounts(accounts) == [i \in DOMAIN accounts |-> i]

----------------------------------------------------------------------------
AccountUsageInRange(usage, account, from, to) ==
  SumOver(usage, {k \in DOMAIN usage : k[1] = account /\ k[2] >= from /\ k[2] < to})

UsageForPeriod(usage, account, from, to) ==
  LET kept == {k \in DOMAIN usage : k[1] = account /\ ~(k[2] < from \/ k[2] >= to)}
  IN OrderBy({[day |-> k[2], count |-> usage[k]] : k \in kept}, LAMBDA r, s : r.day < s.day)

AccountUsageTotal(usage, account) ==
  SumOver(usage, {k \in DOMAIN usage : k[1] = account})

RecordUsage(usage, account, at) ==
  LET k == <<account, DateNaive(at)>>
      entry == [j \in DOMAIN usage \cup {k} |-> IF j \in DOMAIN usage THEN usage[j] ELSE 0]
  IN [entry EXCEPT ![k] = @ + 1]

----------------------------------------------------------------------------
ListActiveApiKeys(keys, account) ==
  InOrder(Indices(keys, LAMBDA k : k.account = account /\ ~k.revoked))

RevokeApiKey(keys, account, id) ==
  IF id \in Indices(keys, LAMBDA k : k.account = account /\ ~k.revoked)
  THEN [updated |-> TRUE, keys |-> [keys EXCEPT ![id].revoked = TRUE]]
  ELSE [updated |-> FALSE, keys |-> keys]

CreateApiKey(keys, account, hash) == Append(keys, NewKey(account, hash))

FindAccountByHashedKey(keys, hash) ==
  LET k == Find(keys, LAMBDA key : key.hash = hash /\ ~key.revoked)
  IN IF k = 0 THEN 0 ELSE keys[k].account

ListActiveHashedKeys(keys) == {keys[i].hash : i \in Indices(keys, LAMBDA k : ~k.revoked)}

----------------------------------------------------------------------------
InsertAttestation(rows, row) ==
  IF Find(rows, LAMBDA r : IdOf[r.content] = IdOf[row.content]) # 0
  THEN [inserted |-> FALSE, rows |-> rows]
  ELSE [inserted |-> TRUE, rows |-> Append(rows, row)]

FetchAttestation(rows, account, id) ==
  LET i == Find(rows, LAMBDA r : IdOf[r.content] = id /\ r.account = account)
  IN IF i = 0 THEN {} ELSE {rows[i]}

DeleteAttestationsOlderThan(rows, account, olderThan) ==
  LET kept == InOrder(Indices(rows, LAMBDA r : ~(r.account = account /\ r.at < olderThan)))
  IN [n \in DOMAIN kept |-> rows[kept[n]]]

Newer(r, s) ==
  r.at > s.at \/ (r.at = s.at /\ IdOf[r.content] > IdOf[s.content])

Filtered(rows, account, f) ==
  OrderBy({r \in ToSet(rows) :
      /\ r.account = account
      /\ f.agent \in {None, AgentOf[r.content]}
      /\ f.customer \in {None, CustomerOf[r.content]}
      /\ r.at >= f.from
      /\ r.at < f.to}, Newer)

(* The cursor is how many rows earlier pages held.  Where fewer than that  *)
(* are left the slice panics under the lock, and every call after it is    *)
(* refused: the mutex is poisoned.                                         *)
SearchAttestations(rows, account, f, limit, start) ==
  LET filtered == Filtered(rows, account, f)
      end == IF start + limit < Len(filtered) THEN start + limit ELSE Len(filtered)
  IN [panicked |-> start > Len(filtered),
      rows |-> SubSeq(filtered, start + 1, end),
      next |-> IF end < Len(filtered) THEN end ELSE None]

(* sort_by_key keeps the order of insertion among rows of one instant.     *)
ListAllAttestations(rows, account) ==
  LET mine == Indices(rows, LAMBDA r : r.account = account)
      sorted == OrderBy(mine, LAMBDA i, j :
                  rows[i].at < rows[j].at \/ (rows[i].at = rows[j].at /\ i < j))
  IN [n \in DOMAIN sorted |-> rows[sorted[n]]]

----------------------------------------------------------------------------
CreateShareLink(links, link) == Append(links, link)

FetchShareLink(links, token) == IF token \in DOMAIN links THEN token ELSE 0

(* A link that is revoked already is answered TRUE once more.              *)
RevokeShareLink(links, account, token) ==
  IF token \in Indices(links, LAMBDA l : l.account = account)
  THEN [updated |-> TRUE, links |-> [links EXCEPT ![token].revoked = TRUE]]
  ELSE [updated |-> FALSE, links |-> links]

----------------------------------------------------------------------------
UpsertTelemetryEvent(events, event) ==
  LET k == <<event.install, event.day>>
  IN [j \in DOMAIN events \cup {k} |-> IF j = k THEN event ELSE events[j]]

TopTelemetryVolumes(events, from, min, limit) ==
  LET found == {k \in DOMAIN events :
        events[k].day >= from /\ events[k].count >= min /\ events[k].sink = "FileSink"}
      sorted == OrderBy(found, LAMBDA k, l :
        \/ events[k].count > events[l].count
        \/ events[k].count = events[l].count /\ events[k].day > events[l].day
        \/ events[k].count = events[l].count /\ events[k].day = events[l].day
             /\ events[k].install < events[l].install)
  IN {events[sorted[n]] : n \in 1 .. IF Len(sorted) > limit THEN limit ELSE Len(sorted)}
=============================================================================
