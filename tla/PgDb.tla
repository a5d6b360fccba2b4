-------------------------------- MODULE PgDb --------------------------------
(***************************************************************************)
(* The store of production, PgDb (store/postgres.rs): what each SQL        *)
(* statement answers and what it leaves in the tables.  Rows that are      *)
(* named by the order of their creation are a sequence, as none is ever    *)
(* deleted; an absent one is 0.                                            *)
(***************************************************************************)
EXTENDS CloudTypes

Where(table, Keep(_)) == {i \in DOMAIN table : Keep(table[i])}

(* One row of those that match, whichever the database finds first.        *)
FetchOptional(found) == IF found = {} THEN {0} ELSE found

----------------------------------------------------------------------------
(* accounts: email is UNIQUE.                                              *)
AccountsOf(accounts, email) == Where(accounts, LAMBDA a : a.email = email)

FindAccountByEmail(accounts, email) == FetchOptional(AccountsOf(accounts, email))

CreateAccount(accounts, email, plan, password) ==
  IF AccountsOf(accounts, email) # {}
  THEN [ok |-> FALSE, accounts |-> accounts]
  ELSE [ok |-> TRUE, accounts |-> Append(accounts, NewAccount(email, plan, password))]

UpsertAccountByEmail(accounts, email, plan) ==
  LET found == AccountsOf(accounts, email) IN
  IF found # {}
  THEN [accounts |-> accounts, id |-> CHOOSE i \in found : TRUE, inserted |-> FALSE]
  ELSE [accounts |-> Append(accounts, NewAccount(email, plan, None)),
        id |-> Len(accounts) + 1, inserted |-> TRUE]

FindAccountByStripeCustomer(accounts, customer) ==
  FetchOptional(Where(accounts, LAMBDA a : a.customer = customer))

FetchAccount(accounts, id) == FetchOptional({id} \cap DOMAIN accounts)

SetAccountStripeIds(accounts, id, customer, subscription) ==
  [i \in DOMAIN accounts |->
     IF i # id THEN accounts[i]
     ELSE [accounts[i] EXCEPT
             !.customer = customer,
             !.subscription = IF subscription = None THEN @ ELSE subscription]]

SetAccountPlan(accounts, id, plan) ==
  [i \in DOMAIN accounts |->
     IF i # id THEN accounts[i]
     ELSE [accounts[i] EXCEPT !.plan = plan, !.retention = Retention[plan]]]

SetBilledThrough(accounts, id, day) ==
  [i \in DOMAIN accounts |->
     IF i # id THEN accounts[i] ELSE [accounts[i] EXCEPT !.billed = day]]

ListAccounts(accounts) == [i \in DOMAIN accounts |-> i]   \* ORDER BY created_at ASC

----------------------------------------------------------------------------
(* usage: one row for each account and day.                                *)
Days(usage, account, from, to) ==
  {k \in DOMAIN usage : k[1] = account /\ k[2] >= from /\ k[2] < to}

AccountUsageInRange(usage, account, from, to) ==
  SumOver(usage, Days(usage, account, from, to))

UsageForPeriod(usage, account, from, to) ==
  OrderBy({[day |-> k[2], count |-> usage[k]] : k \in Days(usage, account, from, to)},
          LAMBDA r, s : r.day < s.day)

AccountUsageTotal(usage, account) ==
  SumOver(usage, {k \in DOMAIN usage : k[1] = account})

RecordUsage(usage, account, at) ==
  LET k == <<account, DateNaive(at)>> IN
  [j \in DOMAIN usage \cup {k} |->
     (IF j \in DOMAIN usage THEN usage[j] ELSE 0) + (IF j = k THEN 1 ELSE 0)]

----------------------------------------------------------------------------
(* api_keys                                                                *)
Newest(ids) == OrderBy(ids, LAMBDA i, j : i > j)   \* ORDER BY created_at DESC

ListActiveApiKeys(keys, account) ==
  Newest(Where(keys, LAMBDA k : k.account = account /\ ~k.revoked))

Revocable(keys, account, id) ==
  id \in Where(keys, LAMBDA k : k.account = account /\ ~k.revoked)

RevokeApiKey(keys, account, id) ==
  IF Revocable(keys, account, id)
  THEN [updated |-> TRUE, keys |-> [keys EXCEPT ![id].revoked = TRUE]]
  ELSE [updated |-> FALSE, keys |-> keys]

CreateApiKey(keys, account, hash) == Append(keys, NewKey(account, hash))

ListActiveHashedKeys(keys) == {keys[i].hash : i \in Where(keys, LAMBDA k : ~k.revoked)}

FindAccountByHashedKey(keys, hash) ==
  FetchOptional({keys[i].account : i \in Where(keys, LAMBDA k : k.hash = hash /\ ~k.revoked)})

----------------------------------------------------------------------------
(* attestations: a set of rows.  The id is the primary key, whatever the   *)
(* account.                                                                *)
SelectById(rows, id) == {r \in rows : IdOf[r.content] = id}

ByAccount(rows, row) ==                                        \* mutant
  IF \E r \in SelectById(rows, IdOf[row.content]) : r.account = row.account
  THEN [inserted |-> FALSE, rows |-> rows]
  ELSE [inserted |-> TRUE, rows |-> rows \cup {row}]

(* INSERT ... ON CONFLICT (id) DO NOTHING; the SELECT that follows it is a *)
(* statement of its own, and finds no row if one was deleted in between.   *)
InsertStatement(rows, row) ==
  IF SelectById(rows, IdOf[row.content]) # {}
  THEN [inserted |-> FALSE, rows |-> rows]
  ELSE [inserted |-> TRUE, rows |-> rows \cup {row}]

FetchAttestation(rows, account, id) ==
  {r \in SelectById(rows, id) : r.account = account}

DeleteAttestationsOlderThan(rows, account, olderThan) ==
  {r \in rows : ~(r.account = account /\ r.at < olderThan)}

Matches(row, account, f) ==
  /\ row.account = account
  /\ f.agent # None => AgentOf[row.content] = f.agent
  /\ f.customer # None => CustomerOf[row.content] = f.customer
  /\ row.at >= f.from
  /\ row.at < f.to

(* (received_at, id) < (received_at, id), as SQL compares pairs            *)
Before(r, s) ==
  \/ r.at < s.at
  \/ r.at = s.at /\ IdOf[r.content] < IdOf[s.content]

NewestFirst(rows) == OrderBy(rows, LAMBDA r, s : Before(s, r))

(* The cursor is the last row kept of the page before, or None.            *)
ByTime(r, cursor) == cursor # None => r.at < cursor.at          \* mutant
Beyond(r, cursor) == cursor # None => Before(r, cursor)

SearchAttestations(rows, account, f, limit, cursor) ==
  LET sorted == NewestFirst({r \in rows :
                  Matches(r, account, f) /\ Beyond(r, cursor)})
      kept == SubSeq(sorted, 1, IF Len(sorted) > limit THEN limit ELSE Len(sorted))
  IN [rows |-> kept,
      next |-> IF Len(sorted) > limit THEN kept[limit] ELSE None]

ListAllAttestations(rows, account) ==
  OrderBy({r \in rows : r.account = account}, Before)

----------------------------------------------------------------------------
(* share_links: the token is the primary key.                              *)
CreateShareLink(links, link) == Append(links, link)

FetchShareLink(links, token) == FetchOptional({token} \cap DOMAIN links)

RevokeShareLink(links, account, token) ==
  IF token \in Where(links, LAMBDA l : l.account = account /\ ~l.revoked)
  THEN [updated |-> TRUE, links |-> [links EXCEPT ![token].revoked = TRUE]]
  ELSE [updated |-> FALSE, links |-> links]

----------------------------------------------------------------------------
(* telemetry_events: one row for each install and day.                     *)
UpsertTelemetryEvent(events, event) ==
  LET k == <<event.install, event.day>> IN
  [j \in DOMAIN events \cup {k} |-> IF j = k THEN event ELSE events[j]]

Louder(e, f) == e.count > f.count \/ (e.count = f.count /\ e.day > f.day)

(* LIMIT keeps any of the rows that tie.                                   *)
TopTelemetryVolumes(events, from, min, limit) ==
  LET found == {events[k] : k \in {k \in DOMAIN events :
                  /\ k[2] >= from
                  /\ events[k].count >= min
                  /\ events[k].sink = "FileSink"}}
  IN {top \in SUBSET found :
        /\ Cardinality(top) = IF Cardinality(found) > limit THEN limit ELSE Cardinality(found)
        /\ \A e \in top, f \in found \ top : ~Louder(f, e)}
=============================================================================
