----------------------------- MODULE CloudProofs ----------------------------
(***************************************************************************)
(* Theorems about Cloud, for any scenes and any number of requests: about  *)
(* its accounts, their keys and their bills.                               *)
(***************************************************************************)
EXTENDS Cloud, CloudTableProofs

----------------------------------------------------------------------------
(* What each actor leaves alone                                            *)
LEMMA IngestingFrame ==
  ASSUME Ingesting
  PROVE  UNCHANGED <<actors, now, accounts, keys, links, sweepVars, readVars, accountVars,
                     billingVars>>
<1>1. ASSUME NEW k \in Clients, Emit(k) \/ Return(k) \/ Rejected(k) \/ TryAgain(k) \/ GiveUp(k)
      PROVE  UNCHANGED <<accounts, keys, links>>
  BY <1>1 DEF Emit, Return, Rejected, TryAgain, GiveUp, Send, Settle, tables
<1>2. ASSUME NEW r \in Posted,
             \/ TryExists(r) \/ Create(r) \/ Write(r) \/ Rename(r) \/ RenameFails(r)
             \/ Insert(r) \/ Select(r) \/ Meter(r) \/ Fail(r)
      PROVE  UNCHANGED <<accounts, keys, links>>
  BY <1>2 DEF TryExists, Create, Write, Rename, RenameFails, Insert, Select, Meter, Fail, tables
<1> QED
  BY <1>1, <1>2 DEF Ingesting, IngestNext

LEMMA SweepingFrame ==
  ASSUME Sweeping
  PROVE  /\ UNCHANGED <<actors, now, accounts, keys, usage, links, blobVars, ingestVars,
                        readVars, accountVars, billingVars>>
         /\ rows' \subseteq rows
BY DEF Sweeping, RetentionNext, BeginPass, DeleteExpired, MarkSwept, StatementFails, tables,
       DeleteAttestationsOlderThan

LEMMA ReadingFrame ==
  ASSUME Reading
  PROVE  UNCHANGED <<actors, now, accounts, keys, rows, usage, blobVars, ingestVars, sweepVars,
                     accountVars, billingVars>>
<1>1. ASSUME NEW v,
             \/ \E l \in DOMAIN links : Open(v, l)
             \/ \E a \in Owners : Export(v, a) \/ \E id \in Ids : GetOne(v, a, id)
             \/ Resolve(v) \/ FetchRow(v) \/ FetchBlob(v) \/ ExportLine(v) \/ Answer(v)
      PROVE  UNCHANGED <<accounts, keys, rows, usage, blobVars>>
  BY <1>1 DEF Open, Export, GetOne, Resolve, FetchRow, FetchBlob, ExportLine, Answer, Read, tables
<1>2. ASSUME NextPage \/ \E a \in Owners : FirstPage(a)
      PROVE  UNCHANGED <<accounts, keys, rows, usage, blobVars>>
  BY <1>2 DEF NextPage, FirstPage, TakePage, tables
<1>3. ASSUME \/ \E a \in Owners : ShareFilter(a) \/ \E id, jd \in Ids : ShareIds(a, <<id, jd>>)
             \/ CheckId \/ CreateLink
             \/ \E a \in Owners, l \in DOMAIN links : Revoke(a, l)
      PROVE  UNCHANGED <<accounts, keys, rows, usage, blobVars>>
  BY <1>3 DEF ShareFilter, ShareIds, CheckId, CreateLink, Revoke, Make, tables
<1> QED
  BY <1>1, <1>2, <1>3 DEF Reading, ReadersNext

LEMMA ServingFrame ==
  ASSUME Serving
  PROVE  UNCHANGED <<actors, now, rows, usage, links, blobVars, ingestVars, sweepVars, readVars,
                     billingVars>>
<1>1. ASSUME NEW s, Begin(s) \/ FindEmail(s) \/ MakeAccount(s) \/ MakeFirstKey(s) \/ SignupFails(s)
      PROVE  UNCHANGED <<rows, usage, links>>
  BY <1>1 DEF Begin, FindEmail, MakeAccount, MakeFirstKey, SignupFails, tables
<1>2. ASSUME NEW v,
             \/ Present(v) \/ ListHashes(v) \/ Refetch(v)
             \/ MakeKey(v) \/ RevokeKey(v) \/ ReadAccount(v) \/ CallFails(v)
      PROVE  UNCHANGED <<rows, usage, links>>
  BY <1>2 DEF Present, ListHashes, Refetch, MakeKey, RevokeKey, ReadAccount, CallFails, tables
<1> QED
  BY <1>1, <1>2 DEF Serving, AccountsNext

LEMMA ChargingFrame ==
  ASSUME Charging
  PROVE  UNCHANGED <<actors, now, rows, usage, links, blobVars, ingestVars, sweepVars, readVars,
                     accountVars>>
<1>1. ASSUME NEW e,
             \/ Deliver(e) \/ Upsert(e) \/ SetIds(e) \/ IssueKey(e)
             \/ FindCustomer(e) \/ Sync(e) \/ HookFails(e)
      PROVE  UNCHANGED <<rows, usage, links>>
  BY <1>1 DEF Deliver, Upsert, SetIds, IssueKey, FindCustomer, Sync, HookFails, tables
<1>2. ASSUME NEW b,
             StartBill(b) \/ ReadUsage(b) \/ PostUsage(b) \/ MarkBilled(b) \/ BillFails(b)
      PROVE  UNCHANGED <<rows, usage, links>>
  BY <1>2 DEF StartBill, ReadUsage, PostUsage, MarkBilled, BillFails, tables
<1> QED
  BY <1>1, <1>2 DEF Charging, BillingNext

LEMMA TickingFrame ==
  ASSUME Ticking
  PROVE  /\ UNCHANGED <<actors, tables, blobVars, ingestVars, sweepVars, readVars, accountVars,
                        billingVars>>
         /\ now' = now + 1
BY DEF Ticking, Tick

(* Two of the actors write accounts and keys.                              *)
Others == Ingesting \/ Sweeping \/ Reading \/ Ticking \/ UNCHANGED cloudVars

LEMMA OthersFrame ==
  ASSUME Others
  PROVE  UNCHANGED <<actors, accounts, keys, accountVars, billingVars>>
<1>1. CASE Ingesting \/ Sweeping \/ Reading \/ Ticking
  BY <1>1, IngestingFrame, SweepingFrame, ReadingFrame, TickingFrame DEF tables
<1>2. CASE UNCHANGED cloudVars
  BY <1>2 DEF cloudVars, tables
<1> QED
  BY <1>1, <1>2 DEF Others

----------------------------------------------------------------------------
(* The tables of accounts and keys                                         *)
BillColumns ==
  {"status", "list", "next", "from", "to", "before", "total", "units", "posted"}

BillOK(r) ==
  /\ DOMAIN r = BillColumns
  /\ r.status \in {"idle", "read", "post", "mark", "200", "400", "500"}
  /\ AccountsOK(r.list)
  /\ r.next \in 0 .. Len(r.list)
  /\ r.status \in {"read", "post", "mark"} => r.next # 0
  /\ r.from \in Int /\ r.to \in Int /\ UsageOK(r.before)
  /\ r.total \in Nat /\ r.units \in Nat /\ r.posted \in Nat

BillsOK ==
  /\ bill = [b \in Bills |-> bill[b]]
  /\ \A b \in Bills : BillOK(bill[b])

(* The tables that the two leave alone, and what goes into them            *)
DataOK == now \in Nat /\ RowsOK(rows) /\ UsageOK(usage) /\ at \in [Posted -> Nat]

TablesInv == DataOK /\ AccountsOK(accounts) /\ IsTable(keys, KeyColumns) /\ BillsOK

(* What holds of the two tables in every step, whoever takes it            *)
TablesGrow ==
  /\ AccountsOK(accounts') /\ IsTable(keys', KeyColumns)
  /\ SameAccounts(accounts, accounts') /\ SameOwners(keys, keys')

LEMMA TablesStay ==
  ASSUME TablesInv, UNCHANGED <<accounts, keys>>
  PROVE  TablesGrow
BY DEF TablesInv, TablesGrow, SameAccounts, SameOwners

LEMMA AccountsGrow ==
  ASSUME TablesInv, UNCHANGED keys, AccountsOK(accounts'), SameAccounts(accounts, accounts')
  PROVE  TablesGrow
BY DEF TablesInv, TablesGrow, SameOwners

LEMMA KeysGrow ==
  ASSUME TablesInv, UNCHANGED accounts, IsTable(keys', KeyColumns), SameOwners(keys, keys')
  PROVE  TablesGrow
BY DEF TablesInv, TablesGrow, SameAccounts

LEMMA ServingGrows ==
  ASSUME TablesInv, Serving
  PROVE  TablesGrow
<1>1. ASSUME NEW s \in Signups, Begin(s) \/ FindEmail(s) \/ SignupFails(s)
      PROVE  TablesGrow
  BY <1>1, TablesStay DEF Begin, FindEmail, SignupFails, tables
<1>2. ASSUME NEW s \in Signups, MakeAccount(s)
      PROVE  TablesGrow
  <2>1. accounts' = CreateAccount(accounts, EmailOf[s], "team", s).accounts /\ keys' = keys
    BY <1>2 DEF MakeAccount, Created
  <2> QED
    BY <2>1, CreateAccountKeeps, AccountsGrow DEF TablesInv, Plans
<1>3. ASSUME NEW s \in Signups, MakeFirstKey(s)
      PROVE  TablesGrow
  <2>1. keys' = CreateApiKey(keys, signup[s].account, s) /\ accounts' = accounts
    BY <1>3 DEF MakeFirstKey
  <2> QED
    BY <2>1, CreateKeyKeeps, KeysGrow DEF TablesInv
<1>4. ASSUME NEW v \in Callers,
             Present(v) \/ ListHashes(v) \/ Refetch(v) \/ ReadAccount(v) \/ CallFails(v)
      PROVE  TablesGrow
  BY <1>4, TablesStay DEF Present, ListHashes, Refetch, ReadAccount, CallFails, tables
<1>5. ASSUME NEW v \in Callers, MakeKey(v)
      PROVE  TablesGrow
  <2>1. keys' = CreateApiKey(keys, caller[v].account, v) /\ accounts' = accounts
    BY <1>5 DEF MakeKey
  <2> QED
    BY <2>1, CreateKeyKeeps, KeysGrow DEF TablesInv
<1>6. ASSUME NEW v \in Callers, RevokeKey(v)
      PROVE  TablesGrow
  <2>1. accounts' = accounts
    BY <1>6 DEF RevokeKey
  <2>2. PICK i \in DOMAIN keys : keys' = RevokeApiKey(keys, caller[v].account, i).keys
    BY <1>6 DEF RevokeKey
  <2> QED
    BY <2>1, <2>2, RevokeKeyKeeps, KeysGrow DEF TablesInv
<1> QED
  BY <1>1, <1>2, <1>3, <1>4, <1>5, <1>6 DEF Serving, AccountsNext

LEMMA ChargingGrows ==
  ASSUME TablesInv, Charging
  PROVE  TablesGrow
<1>1. ASSUME NEW e \in Events, Deliver(e) \/ FindCustomer(e) \/ HookFails(e)
      PROVE  TablesGrow
  BY <1>1, TablesStay DEF Deliver, FindCustomer, HookFails, tables
<1>2. ASSUME NEW e \in Events, Upsert(e)
      PROVE  TablesGrow
  <2>1. accounts' = UpsertAccountByEmail(accounts, Payload[e].email, "team").accounts
        /\ keys' = keys
    BY <1>2 DEF Upsert
  <2> QED
    BY <2>1, UpsertAccountKeeps, AccountsGrow DEF TablesInv, Plans
<1>3. ASSUME NEW e \in Events, SetIds(e) \/ Sync(e)
      PROVE  TablesGrow
  BY <1>3, SetStripeIdsKeeps, AccountsGrow DEF SetIds, Sync, Linked, TablesInv
<1>4. ASSUME NEW e \in Events, IssueKey(e)
      PROVE  TablesGrow
  <2>1. keys' = CreateApiKey(keys, hook[e].account, e) /\ accounts' = accounts
    BY <1>4 DEF IssueKey
  <2> QED
    BY <2>1, CreateKeyKeeps, KeysGrow DEF TablesInv
<1>5. ASSUME NEW b \in Bills, StartBill(b) \/ ReadUsage(b) \/ PostUsage(b) \/ BillFails(b)
      PROVE  TablesGrow
  BY <1>5, TablesStay DEF StartBill, ReadUsage, PostUsage, BillFails, tables
<1>6. ASSUME NEW b \in Bills, MarkBilled(b)
      PROVE  TablesGrow
  <2>1. accounts' = SetBilledThrough(accounts, bill[b].next, bill[b].to) /\ keys' = keys
    BY <1>6 DEF MarkBilled
  <2>2. bill[b].to \in Int
    BY DEF TablesInv, BillsOK, BillOK
  <2> QED
    BY <2>1, <2>2, SetBilledKeeps, AccountsGrow DEF TablesInv
<1> QED
  BY <1>1, <1>2, <1>3, <1>4, <1>5, <1>6 DEF Charging, BillingNext

LEMMA EachStepGrows ==
  ASSUME TablesInv, [CloudNext]_cloudVars
  PROVE  TablesGrow
<1>1. CASE Others
  BY <1>1, OthersFrame, TablesStay
<1> QED
  BY <1>1, ServingGrows, ChargingGrows DEF CloudNext, Others

LEMMA OneBill ==
  ASSUME BillsOK, NEW b \in Bills, NEW r, BillOK(r), bill' = [bill EXCEPT ![b] = r]
  PROVE  BillsOK'
BY DEF BillsOK

LEMMA BillGoesOn ==
  ASSUME NEW r, BillOK(r)
  PROVE  BillOK(Next1(r))
<1>1. Len(r.list) \in Nat
  BY AccountFacts DEF BillOK
<1>2. CASE r.next = Len(r.list)
  BY <1>2 DEF BillOK, BillColumns, Next1
<1>3. CASE r.next # Len(r.list)
  <2>1. r.next + 1 \in 0 .. Len(r.list) /\ r.next + 1 # 0
    BY <1>1, <1>3 DEF BillOK
  <2>2. Next1(r) = [r EXCEPT !.status = "read", !.next = r.next + 1]
    BY <1>3 DEF Next1
  <2> QED
    BY <2>1, <2>2 DEF BillOK, BillColumns
<1> QED
  BY <1>2, <1>3

LEMMA PeriodIsDays ==
  ASSUME now \in Nat, NEW p \in Periods, ~Invalid(p)
  PROVE  ResolvePeriod(p)[1] \in Int /\ ResolvePeriod(p)[2] \in Int
<1> DEFINE m == DateNaive(now) \div MonthLength
<1>1. p = <<p[1], p[2]>> /\ p[1] \in Nat \cup {None} /\ p[2] \in Nat \cup {None}
  BY BillingAssumption
<1>2. CASE p = <<None, None>>
  <2>1. MonthLength \in Nat \ {0} /\ m \in Int
    BY BillingAssumption, CloudTypesAssumption DEF DateNaive
  <2>2. ResolvePeriod(p) = <<(m - 1) * MonthLength, m * MonthLength>>
    BY <1>2 DEF ResolvePeriod
  <2> HIDE DEF m
  <2>3. (m - 1) * MonthLength \in Int /\ m * MonthLength \in Int
    BY <2>1
  <2> QED
    BY <2>2, <2>3
<1>3. CASE p # <<None, None>>
  <2>1. p[1] \in Nat /\ p[2] \in Nat
    BY <1>1, <1>3 DEF Invalid
  <2> QED
    BY <1>3, <2>1 DEF ResolvePeriod
<1> QED
  BY <1>2, <1>3

LEMMA UnitsAreNat ==
  ASSUME NEW total \in Nat, NEW plan \in Plans
  PROVE  Overage(total, plan) \in Nat /\ Units(Overage(total, plan)) \in Nat
         /\ (Units(Overage(total, plan)) = 0 => total <= Included[plan])
<1>1. Included[plan] \in Nat /\ UnitSize \in Nat \ {0}
  BY CloudTypesAssumption, BillingAssumption
<1>2. Overage(total, plan) \in Nat /\ (Overage(total, plan) = 0 => total <= Included[plan])
  BY <1>1 DEF Overage
<1>3. ASSUME NEW n \in Nat
      PROVE  Units(n) \in Nat /\ (Units(n) = 0 => n = 0)
  BY <1>1 DEF Units
<1> QED
  BY <1>2, <1>3

LEMMA BillingKeepsBills ==
  ASSUME TablesInv, BillingNext
  PROVE  BillsOK'
<1>1. BillsOK /\ now \in Nat /\ UsageOK(usage) /\ AccountsOK(accounts)
  BY DEF TablesInv, DataOK
<1>2. ASSUME NEW e \in Events,
             \/ Deliver(e) \/ Upsert(e) \/ SetIds(e) \/ IssueKey(e)
             \/ FindCustomer(e) \/ Sync(e) \/ HookFails(e)
      PROVE  UNCHANGED bill
  BY <1>2 DEF Deliver, Upsert, SetIds, IssueKey, FindCustomer, Sync, HookFails, Refuse, Route,
              Acknowledge, Hook
<1>3. ASSUME NEW b \in Bills, StartBill(b)
      PROVE  BillsOK'
  <2>1. PICK p \in Periods :
          bill' = [bill EXCEPT ![b] = IF Invalid(p) THEN [Unasked EXCEPT !.status = "400"]
                    ELSE Next1([Unasked EXCEPT !.list = accounts, !.from = ResolvePeriod(p)[1],
                                               !.to = ResolvePeriod(p)[2], !.before = usage])]
    BY <1>3 DEF StartBill, Bill
  <2>2. AccountsOK(<<>>) /\ UsageOK(<<>>)
    BY FS_EmptySet DEF AccountsOK, IsTable, ToSet, UsageOK
  <2>3. CASE Invalid(p)
    <3>1. BillOK([Unasked EXCEPT !.status = "400"])
      BY <2>2 DEF BillOK, BillColumns, Unasked
    <3> QED
      BY <1>1, <2>1, <2>3, <3>1, OneBill
  <2>4. CASE ~Invalid(p)
    <3> DEFINE f == ResolvePeriod(p)[1]
               u == ResolvePeriod(p)[2]
               r == [Unasked EXCEPT !.list = accounts, !.from = f, !.to = u, !.before = usage]
    <3>1. f \in Int /\ u \in Int
      BY <1>1, <2>4, PeriodIsDays
    <3> HIDE DEF f, u
    <3>2. BillOK(r)
      BY <1>1, <3>1, AccountFacts DEF BillOK, BillColumns, Unasked
    <3>3. bill' = [bill EXCEPT ![b] = Next1(r)]
      BY <2>1, <2>4 DEF f, u
    <3> HIDE DEF r
    <3> QED
      BY <1>1, <3>2, <3>3, BillGoesOn, OneBill
  <2> QED
    BY <2>3, <2>4
<1>4. ASSUME NEW b \in Bills, ReadUsage(b)
      PROVE  BillsOK'
  <2> DEFINE r == bill[b]
             a == r.list[r.next]
             total == AccountUsageInRange(usage, r.next, r.from, r.to)
             units == Units(Overage(total, a.plan))
  <2>1. BillOK(r) /\ r.status = "read"
    BY <1>1, <1>4 DEF BillsOK, ReadUsage
  <2>2. \/ bill' = [bill EXCEPT ![b] = Next1(r)]
        \/ bill' = [bill EXCEPT ![b] = [r EXCEPT !.status = IF units = 0 THEN "mark" ELSE "post",
                                                 !.total = total, !.units = units]]
    BY <1>4 DEF ReadUsage, Bill
  <2>3. total \in Nat /\ units \in Nat
    <3>1. a.plan \in Plans
      BY <2>1, AccountFacts DEF BillOK, AccountsOK
    <3>2. total \in Nat
      BY <1>1, RangeIsNat
    <3> QED
      BY <3>1, <3>2, UnitsAreNat
  <2> HIDE DEF units, total, r
  <2>4. BillOK([r EXCEPT !.status = IF units = 0 THEN "mark" ELSE "post",
                         !.total = total, !.units = units])
    BY <2>1, <2>3 DEF BillOK, BillColumns
  <2> QED
    BY <1>1, <2>1, <2>2, <2>4, BillGoesOn, OneBill
<1>5. ASSUME NEW b \in Bills, PostUsage(b) \/ BillFails(b)
      PROVE  BillsOK'
  <2>1. /\ bill[b].status \in {"read", "post", "mark"}
        /\ \/ \E h \in {"mark", "500"} :
                bill' = [bill EXCEPT ![b] = [bill[b] EXCEPT !.status = h, !.posted = now]]
           \/ bill' = [bill EXCEPT ![b] = [bill[b] EXCEPT !.status = "500"]]
    BY <1>5 DEF PostUsage, BillFails, Bill
  <2>2. BillOK(bill[b])
    BY <1>1 DEF BillsOK
  <2>3. /\ \A h \in {"mark", "500"} : BillOK([bill[b] EXCEPT !.status = h, !.posted = now])
        /\ BillOK([bill[b] EXCEPT !.status = "500"])
    BY <1>1, <2>1, <2>2 DEF BillOK, BillColumns
  <2> QED
    BY <1>1, <2>1, <2>3, OneBill
<1>6. ASSUME NEW b \in Bills, MarkBilled(b)
      PROVE  BillsOK'
  <2>1. bill' = [bill EXCEPT ![b] = Next1(bill[b])] /\ BillOK(bill[b])
    BY <1>1, <1>6 DEF MarkBilled, Bill, BillsOK
  <2> QED
    BY <1>1, <2>1, BillGoesOn, OneBill
<1> QED
  BY <1>1, <1>2, <1>3, <1>4, <1>5, <1>6 DEF BillingNext, BillsOK

LEMMA PostedFacts ==
  /\ \A r \in Posted : /\ r[1] \in Clients /\ r[2] \in Nat /\ r = <<r[1], r[2]>>
                       /\ r \in Requests /\ Content(r) \in Contents /\ Account(r) \in Nat
  /\ \A k \in Clients : \A n \in 1 .. MaxAttempts[k] : <<k, n>> \in Posted
  /\ None \notin Requests /\ Past \notin Requests /\ Rotted \notin Requests
<1>1. ASSUME NEW r \in Posted
      PROVE  r[1] \in Clients /\ r[2] \in Nat /\ r = <<r[1], r[2]>>
  <2>1. PICK k \in Clients : r \in {k} \X (1 .. MaxAttempts[k])
    BY DEF Posted
  <2>2. MaxAttempts[k] \in Nat
    BY IngestAssumption
  <2> QED
    BY <2>1, <2>2
<1>2. ASSUME NEW k \in Clients, NEW n \in 1 .. MaxAttempts[k]
      PROVE  <<k, n>> \in Posted
  <2>1. <<k, n>> \in {k} \X (1 .. MaxAttempts[k])
    OBVIOUS
  <2> QED
    BY <2>1 DEF Posted
<1> QED
  BY <1>1, <1>2, IngestAssumption, BlobsAssumption DEF Content, Account, Files

LEMMA IngestKeepsData ==
  ASSUME DataOK, IngestNext, UNCHANGED now
  PROVE  DataOK'
<1> USE DEF DataOK
<1>1. ASSUME UNCHANGED <<rows, usage>>, at' \in [Posted -> Nat]
      PROVE  DataOK'
  BY <1>1
<1>2. ASSUME NEW k \in Clients, Emit(k) \/ Return(k) \/ Rejected(k) \/ TryAgain(k) \/ GiveUp(k)
      PROVE  DataOK'
  BY <1>1, <1>2 DEF Emit, Return, Rejected, TryAgain, GiveUp, Send, Settle, tables
<1>3. ASSUME NEW r \in Posted,
             TryExists(r) \/ Create(r) \/ Write(r) \/ Rename(r) \/ RenameFails(r) \/ Fail(r)
      PROVE  DataOK'
  <2>1. UNCHANGED at \/ at' = [at EXCEPT ![r] = now]
    BY <1>3 DEF TryExists, Create, Write, Rename, RenameFails, Fail
  <2>2. at' \in [Posted -> Nat]
    BY <2>1
  <2> QED
    BY <1>1, <1>3, <2>2 DEF TryExists, Create, Write, Rename, RenameFails, Fail, tables
<1>4. ASSUME NEW r \in Posted, Insert(r)
      PROVE  DataOK'
  <2> DEFINE x == NewRow(Content(r), Account(r), at[r])
  <2>1. x \in [content : Contents, account : Nat, at : Nat] /\ x.content = Content(r)
    BY PostedFacts DEF NewRow
  <2>2. rows' = InsertStatement(rows, x).rows /\ UNCHANGED <<usage, at>>
    BY <1>4 DEF Insert
  <2> HIDE DEF x
  <2>3. RowsOK(rows')
    <3>1. CASE SelectById(rows, IdOf[x.content]) # {}
      BY <2>2, <3>1 DEF InsertStatement
    <3>2. CASE SelectById(rows, IdOf[x.content]) = {}
      <4>1. rows' = rows \cup {x}
        BY <2>2, <3>2 DEF InsertStatement
      <4>2. \A y \in rows : IdOf[y.content] # IdOf[x.content]
        BY <3>2 DEF SelectById
      <4>3. IsFiniteSet(rows')
        BY <4>1, FS_AddElement DEF RowsOK
      <4> QED
        BY <2>1, <4>1, <4>2, <4>3 DEF RowsOK
    <3> QED
      BY <3>1, <3>2
  <2> QED
    BY <2>2, <2>3
<1>5. ASSUME NEW r \in Posted, Select(r)
      PROVE  DataOK'
  <2>1. UNCHANGED at \/ \E x \in rows : at' = [at EXCEPT ![r] = x.at]
    BY <1>5 DEF Select, SelectById
  <2>2. at' \in [Posted -> Nat]
    BY <2>1, RowFacts
  <2> QED
    BY <1>1, <1>5, <2>2 DEF Select, tables
<1>6. ASSUME NEW r \in Posted, Meter(r)
      PROVE  DataOK'
  <2>1. usage' = RecordUsage(usage, Account(r), at[r]) /\ UNCHANGED <<rows, at>>
    BY <1>6 DEF Meter, ReceivedAt
  <2>2. Account(r) \in Nat /\ at[r] \in Nat
    BY PostedFacts
  <2> QED
    BY <2>1, <2>2, RecordUsageCounts
<1> QED
  BY <1>2, <1>3, <1>4, <1>5, <1>6 DEF IngestNext

LEMMA EachStepKeepsData ==
  ASSUME DataOK, [CloudNext]_cloudVars
  PROVE  DataOK'
<1>1. CASE Ingesting
  BY <1>1, IngestKeepsData DEF Ingesting
<1>2. CASE Sweeping
  BY <1>2, SweepingFrame, RowFacts DEF DataOK, ingestVars
<1>3. CASE Reading \/ Serving \/ Charging
  BY <1>3, ReadingFrame, ServingFrame, ChargingFrame DEF DataOK, ingestVars
<1>4. CASE Ticking
  BY <1>4, TickingFrame DEF DataOK, ingestVars, tables
<1>5. CASE UNCHANGED cloudVars
  BY <1>5 DEF DataOK, cloudVars, ingestVars, tables
<1> QED
  BY <1>1, <1>2, <1>3, <1>4, <1>5 DEF CloudNext

LEMMA TablesInvHolds == CloudSpec => []TablesInv
<1>1. CloudInit => TablesInv
  <2> SUFFICES ASSUME CloudInit PROVE TablesInv
    OBVIOUS
  <2>1. PICK scene \in Scenes : TablesInit(scene)
    BY DEF CloudInit
  <2>2. /\ now \in Nat /\ AccountsOK(accounts) /\ IsTable(keys, KeyColumns)
        /\ RowsOK(rows) /\ UsageOK(usage)
    BY <2>1, ScenesAssumption DEF TablesInit, KeysOK, KeyColumns
  <2>3. at \in [Posted -> Nat]
    BY DEF CloudInit, IngestInit
  <2>4. bill = [b \in Bills |-> Unasked]
    BY DEF CloudInit, BillingInit
  <2>5. AccountsOK(<<>>) /\ UsageOK(<<>>)
    BY FS_EmptySet DEF AccountsOK, IsTable, ToSet, UsageOK
  <2>6. BillOK(Unasked)
    BY <2>5 DEF BillOK, BillColumns, Unasked
  <2> QED
    BY <2>2, <2>3, <2>4, <2>6 DEF TablesInv, DataOK, BillsOK
<1>2. TablesInv /\ [CloudNext]_cloudVars => TablesInv'
  <2> SUFFICES ASSUME TablesInv, [CloudNext]_cloudVars PROVE TablesInv'
    OBVIOUS
  <2>1. TablesGrow
    BY EachStepGrows
  <2>2. DataOK'
    BY EachStepKeepsData DEF TablesInv
  <2>3. BillsOK'
    <3>1. CASE Charging
      BY <3>1, BillingKeepsBills DEF Charging
    <3>2. CASE Others \/ Serving
      BY <3>2, OthersFrame, ServingFrame DEF TablesInv, BillsOK, billingVars
    <3> QED
      BY <3>1, <3>2 DEF CloudNext, Others
  <2> QED
    BY <2>1, <2>2, <2>3 DEF TablesInv, TablesGrow
<1> QED
  BY <1>1, <1>2, PTL DEF CloudSpec

----------------------------------------------------------------------------
(* Sign-ups                                                                *)
SignupStates ==
  [status : {"idle", "find", "create", "key", "201", "400", "500"}, account : Nat]

(* The account of a sign-up is there and has its password; with 201 it has *)
(* a key too.                                                              *)
SignupOK(s, r, t, k) ==
  /\ r.account # 0 => r.account \in DOMAIN t /\ t[r.account].password = s
  /\ r.status \in {"key", "201"} => r.account # 0
  /\ r.status = "201" =>
       \E i \in DOMAIN k : k[i].account = r.account /\ k[i].hash = s

SignupsInv ==
  /\ signup \in [Signups -> SignupStates]
  /\ \A s \in Signups : SignupOK(s, signup[s], accounts, keys)

LEMMA SignupStays ==
  ASSUME NEW s, NEW r, NEW t, NEW u, NEW k, NEW l, SignupOK(s, r, t, k),
         SameAccounts(t, u), SameOwners(k, l)
  PROVE  SignupOK(s, r, u, l)
BY DEF SignupOK, SameAccounts, SameOwners

LEMMA OneSignupKeeps ==
  ASSUME SignupsInv, TablesGrow, NEW s \in Signups, NEW r \in SignupStates,
         signup' = [signup EXCEPT ![s] = r],
         SignupOK(s, r, accounts', keys')
  PROVE  SignupsInv'
<1>1. signup' \in [Signups -> SignupStates]
  BY DEF SignupsInv
<1>2. ASSUME NEW q \in Signups PROVE SignupOK(q, signup'[q], accounts', keys')
  <2>1. CASE q = s
    BY <2>1 DEF SignupsInv
  <2>2. CASE q # s
    <3>1. signup'[q] = signup[q]
      BY <2>2 DEF SignupsInv
    <3> QED
      BY <3>1, SignupStays DEF SignupsInv, TablesGrow
  <2> QED
    BY <2>1, <2>2
<1> QED
  BY <1>1, <1>2 DEF SignupsInv

LEMMA SignupStepKeeps ==
  ASSUME TablesInv, SignupsInv, TablesGrow, NEW s \in Signups,
         Begin(s) \/ FindEmail(s) \/ MakeAccount(s) \/ MakeFirstKey(s) \/ SignupFails(s)
  PROVE  SignupsInv'
<1> DEFINE r == signup[s]
<1>1. r \in SignupStates /\ SignupOK(s, r, accounts', keys')
  BY SignupStays DEF SignupsInv, TablesGrow
<1>2. ASSUME NEW h \in {"find", "create", "400", "500", "201"}, Step(s, h),
             h = "201" => /\ r.account # 0
                          /\ \E i \in DOMAIN keys' :
                               keys'[i].account = r.account /\ keys'[i].hash = s
      PROVE  SignupsInv'
  <2> DEFINE q == [r EXCEPT !.status = h]
  <2>1. signup' = [signup EXCEPT ![s] = q]
    BY <1>2 DEF Step
  <2>2. q \in SignupStates /\ q.status = h /\ q.account = r.account
    <3> HIDE DEF r
    <3> QED
      BY <1>1 DEF SignupStates
  <2> HIDE DEF q, r
  <2>3. SignupOK(s, q, accounts', keys')
    BY <1>1, <1>2, <2>2 DEF SignupOK
  <2> QED
    BY <2>1, <2>2, <2>3, OneSignupKeeps
<1>3. CASE Begin(s) \/ FindEmail(s) \/ SignupFails(s)
  BY <1>2, <1>3 DEF Begin, FindEmail, SignupFails
<1>4. CASE MakeAccount(s)
  <2> DEFINE c == Created(s)
             n == [status |-> "key", account |-> Len(accounts')]
  <2>1. c = CreateAccount(accounts, EmailOf[s], "team", s)
    BY DEF Created
  <2>2. /\ accounts' = c.accounts
        /\ c.ok => signup' = [signup EXCEPT ![s] = n]
        /\ ~c.ok => Step(s, "500")
    BY <1>4 DEF MakeAccount, Step
  <2> HIDE DEF c, r
  <2>3. c.ok => /\ Len(accounts') \in DOMAIN accounts'
                /\ accounts'[Len(accounts')] = NewAccount(EmailOf[s], "team", s)
    BY <2>1, <2>2, CreateAccountKeeps DEF TablesInv, Plans
  <2>4. CASE c.ok
    <3>1. Len(accounts') \in Nat /\ Len(accounts') # 0
      BY <2>3, <2>4, AccountFacts DEF TablesGrow
    <3>2. n \in SignupStates
      BY <3>1 DEF SignupStates
    <3>3. SignupOK(s, n, accounts', keys')
      BY <2>3, <2>4, <3>1 DEF SignupOK, NewAccount
    <3> QED
      BY <2>2, <2>4, <3>2, <3>3, OneSignupKeeps
  <2>5. CASE ~c.ok
    BY <1>2, <2>2, <2>5
  <2> QED
    BY <2>4, <2>5
<1>5. CASE MakeFirstKey(s)
  <2>1. /\ r.status = "key" /\ accounts' = accounts
        /\ keys' = CreateApiKey(keys, r.account, s)
        /\ Step(s, "201") \/ Step(s, "500")
    BY <1>5 DEF MakeFirstKey
  <2>2. \E i \in DOMAIN keys' : keys'[i].account = r.account /\ keys'[i].hash = s
    BY <2>1, CreateKeyKeeps DEF TablesInv
  <2>3. r.account # 0
    BY <1>1, <2>1 DEF SignupOK
  <2> QED
    BY <1>2, <2>1, <2>2, <2>3
<1> QED
  BY <1>3, <1>4, <1>5

(* Whoever else makes a step writes no sign-up.                            *)
LEMMA SignupsAlone ==
  ASSUME [CloudNext]_cloudVars
  PROVE  \/ UNCHANGED signup
         \/ \E s \in Signups :
              Begin(s) \/ FindEmail(s) \/ MakeAccount(s) \/ MakeFirstKey(s) \/ SignupFails(s)
<1>1. CASE Others \/ Charging
  BY <1>1, OthersFrame, ChargingFrame DEF accountVars
<1>2. CASE Serving
  BY <1>2 DEF Serving, AccountsNext, Present, ListHashes, Refetch, MakeKey, RevokeKey,
              ReadAccount, CallFails
<1> QED
  BY <1>1, <1>2 DEF CloudNext, Others

LEMMA SignupsInvHolds == CloudSpec => []SignupsInv
<1>1. CloudInit => SignupsInv
  BY DEF CloudInit, AccountsInit, SignupsInv, SignupStates, SignupOK
<1>2. TablesInv /\ SignupsInv /\ [CloudNext]_cloudVars => SignupsInv'
  <2> SUFFICES ASSUME TablesInv, SignupsInv, [CloudNext]_cloudVars PROVE SignupsInv'
    OBVIOUS
  <2>1. TablesGrow
    BY EachStepGrows
  <2>2. CASE UNCHANGED signup
    BY <2>1, <2>2, SignupStays DEF SignupsInv, TablesGrow
  <2> QED
    BY <2>1, <2>2, SignupsAlone, SignupStepKeeps
<1> QED
  BY <1>1, <1>2, TablesInvHolds, PTL DEF CloudSpec

(* Whoever signs up or checks out with one email at the same time, and     *)
(* whatever webhooks and bills write to the accounts meanwhile: a sign-up  *)
(* that was answered with 201 has an account that no other one has, with   *)
(* its password and its key.                                               *)
THEOREM SignupsHaveTheirOwn == CloudSpec => []SignupsOwn
<1>1. SignupsInv => SignupsOwn
  <2> SUFFICES ASSUME SignupsInv, NEW s \in Signups, signup[s].status = "201"
               PROVE  /\ accounts[signup[s].account].password = s
                      /\ \E i \in DOMAIN keys :
                           keys[i].account = signup[s].account /\ keys[i].hash = s
                      /\ \A t \in Signups \ {s} : signup[t].account # signup[s].account
    BY DEF SignupsOwn
  <2>1. \A t \in Signups : SignupOK(t, signup[t], accounts, keys)
    BY DEF SignupsInv
  <2> QED
    BY <2>1 DEF SignupOK
<1> QED
  BY <1>1, SignupsInvHolds, PTL

----------------------------------------------------------------------------
(* Keys: each is of an account, and no two have one hash.                  *)
Unissued(h, k) == \A i \in DOMAIN k : k[i].hash # h
NoneIssued(h, k, l) == Unissued(h, k) <=> Unissued(h, l)

CallerColumns == {"status", "key", "account"}
HookColumns == {"status", "account", "new", "acked", "tries", "failed"}

CallerOK(v, r, t, k) ==
  /\ DOMAIN r = CallerColumns
  /\ r.status \in {"idle", "list", "refetch", "authed", "done", "401", "404", "500"}
  /\ r.status # "idle" => r.key \in DOMAIN k
  /\ r.account # 0 => r.account \in DOMAIN t
  /\ r.status = "authed" => r.account # 0
  /\ r.status # "done" => Unissued(v, k)

(* An event issues a key once: from then on its email has an account.      *)
HookOK(e, r, t, k) ==
  /\ DOMAIN r = HookColumns
  /\ r.status \in {"idle", "upsert", "ids", "key", "find", "sync"}
  /\ r.new \in BOOLEAN /\ r.acked \in BOOLEAN /\ r.failed \in BOOLEAN /\ r.tries \in Nat
  /\ r.account # 0 => r.account \in DOMAIN t
  /\ r.status \in {"ids", "key", "sync"} => r.account # 0
  /\ r.status \in {"ids", "key"} => t[r.account].email = Payload[e].email
  /\ r.status = "key" => r.new
  /\ r.status \in {"ids", "key"} /\ r.new => Unissued(e, k)
  /\ Unissued(e, k) \/ AccountsOf(t, Payload[e].email) # {}

FreshSignup(s, r, k) == r.status \in {"idle", "find", "create", "key"} => Unissued(s, k)

KeysInv ==
  /\ KeysOK(keys, DOMAIN accounts)
  /\ caller = [v \in Callers |-> caller[v]]
  /\ hook = [e \in Events |-> hook[e]]
  /\ \A s \in Signups : FreshSignup(s, signup[s], keys)
  /\ \A v \in Callers : CallerOK(v, caller[v], accounts, keys)
  /\ \A e \in Events : HookOK(e, hook[e], accounts, keys)

(* What a step does to the keys, if the only hash it may issue is h        *)
KeysStep(h) ==
  /\ KeysOK(keys', DOMAIN accounts')
  /\ \A g : g # h => NoneIssued(g, keys, keys')

LEMMA CallerStays ==
  ASSUME NEW v, NEW r, NEW t, NEW u, NEW k, NEW l, CallerOK(v, r, t, k),
         SameAccounts(t, u), SameOwners(k, l), NoneIssued(v, k, l)
  PROVE  CallerOK(v, r, u, l)
BY DEF CallerOK, SameAccounts, SameOwners, NoneIssued

LEMMA HookStays ==
  ASSUME NEW e, NEW r, NEW t, NEW u, NEW k, NEW l, HookOK(e, r, t, k),
         SameAccounts(t, u), NoneIssued(e, k, l)
  PROVE  HookOK(e, r, u, l)
<1>1. AccountsOf(t, Payload[e].email) # {} => AccountsOf(u, Payload[e].email) # {}
  BY DEF AccountsOf, Where, SameAccounts
<1>2. r.status \in {"ids", "key"} => u[r.account].email = Payload[e].email
  BY DEF HookOK, SameAccounts
<1> QED
  BY <1>1, <1>2 DEF HookOK, SameAccounts, NoneIssued

LEMMA KeysStayOK ==
  ASSUME KeysInv, TablesGrow, UNCHANGED keys, NEW h
  PROVE  KeysStep(h)
BY DEF KeysInv, TablesGrow, KeysStep, KeysOK, NoneIssued, SameAccounts

LEMMA NewKeyStep ==
  ASSUME TablesInv, KeysInv, UNCHANGED accounts, NEW a \in DOMAIN accounts, NEW h,
         Unissued(h, keys), keys' = CreateApiKey(keys, a, h)
  PROVE  KeysStep(h)
<1>1. /\ IsTable(keys', KeyColumns)
      /\ \A i \in DOMAIN keys : i \in DOMAIN keys' /\ keys'[i] = keys[i]
      /\ \A i \in DOMAIN keys' : i \in DOMAIN keys \/ (i = Len(keys) + 1 /\ keys'[i] = NewKey(a, h))
  BY CreateKeyKeeps DEF TablesInv, SameOwners
<1>2. KeysOK(keys', DOMAIN accounts')
  <2>3. /\ NewKey(a, h).account = a /\ NewKey(a, h).hash = h /\ NewKey(a, h).revoked = FALSE
        /\ \A i \in DOMAIN keys : keys[i].account \in DOMAIN accounts /\ keys[i].revoked \in BOOLEAN
    BY DEF KeysInv, KeysOK, NewKey
  <2>1. ASSUME NEW i \in DOMAIN keys'
        PROVE  keys'[i].account \in DOMAIN accounts /\ keys'[i].revoked \in BOOLEAN
    <3>1. CASE i \in DOMAIN keys
      BY <1>1, <2>3, <3>1
    <3>2. CASE keys'[i] = NewKey(a, h)
      BY <2>3, <3>2
    <3> QED
      BY <1>1, <3>1, <3>2
  <2>2. \A i, j \in DOMAIN keys' : keys'[i].hash = keys'[j].hash => i = j
    BY <1>1 DEF KeysInv, KeysOK, NewKey, Unissued
  <2> QED
    BY <1>1, <2>1, <2>2 DEF KeysOK, KeyColumns
<1>3. \A g : g # h => NoneIssued(g, keys, keys')
  BY <1>1 DEF NoneIssued, Unissued, NewKey
<1> QED
  BY <1>2, <1>3 DEF KeysStep

LEMMA RevokeStep ==
  ASSUME TablesInv, KeysInv, UNCHANGED accounts, NEW a, NEW k \in DOMAIN keys, NEW h,
         keys' = RevokeApiKey(keys, a, k).keys
  PROVE  KeysStep(h) /\ \A g : NoneIssued(g, keys, keys')
<1>1. /\ IsTable(keys', KeyColumns) /\ DOMAIN keys' = DOMAIN keys
      /\ \A i \in DOMAIN keys : keys'[i].account = keys[i].account /\ keys'[i].hash = keys[i].hash
      /\ \A i \in DOMAIN keys : keys[i].revoked \in BOOLEAN => keys'[i].revoked \in BOOLEAN
  BY RevokeKeyKeeps DEF TablesInv, SameOwners
<1>2. KeysOK(keys', DOMAIN accounts')
  BY <1>1 DEF KeysInv, KeysOK, KeyColumns
<1> QED
  BY <1>1, <1>2 DEF KeysStep, NoneIssued, Unissued

LEMMA OneSignupsKeys ==
  ASSUME SignupsInv, KeysInv, TablesGrow, NEW s \in Signups, NEW h, KeysStep(h), h = s,
         UNCHANGED <<caller, hook>>,
         \A q \in Signups : q # s => signup'[q] = signup[q],
         FreshSignup(s, signup'[s], keys')
  PROVE  KeysInv'
<1>1. ASSUME NEW v \in Callers PROVE CallerOK(v, caller[v], accounts', keys')
  BY CallerStays, CloudAssumption DEF KeysInv, TablesGrow, KeysStep
<1>2. ASSUME NEW e \in Events PROVE HookOK(e, hook[e], accounts', keys')
  BY HookStays, CloudAssumption DEF KeysInv, TablesGrow, KeysStep
<1>3. ASSUME NEW q \in Signups PROVE FreshSignup(q, signup'[q], keys')
  BY DEF KeysInv, KeysStep, FreshSignup, NoneIssued
<1> QED
  BY <1>1, <1>2, <1>3 DEF KeysInv, KeysStep

LEMMA OneCallersKeys ==
  ASSUME KeysInv, TablesGrow, NEW v \in Callers, KeysStep(v), UNCHANGED <<signup, hook>>,
         NEW r, caller' = [caller EXCEPT ![v] = r], CallerOK(v, r, accounts', keys')
  PROVE  KeysInv'
<1>1. ASSUME NEW w \in Callers PROVE CallerOK(w, caller'[w], accounts', keys')
  <2>1. CASE w = v
    BY <2>1 DEF KeysInv
  <2>2. CASE w # v
    <3>1. caller'[w] = caller[w]
      BY <2>2 DEF KeysInv
    <3> QED
      BY <2>2, <3>1, CallerStays DEF KeysInv, TablesGrow, KeysStep
  <2> QED
    BY <2>1, <2>2
<1>2. ASSUME NEW e \in Events PROVE HookOK(e, hook[e], accounts', keys')
  BY HookStays, CloudAssumption DEF KeysInv, TablesGrow, KeysStep
<1>3. ASSUME NEW q \in Signups PROVE FreshSignup(q, signup[q], keys')
  BY CloudAssumption DEF KeysInv, KeysStep, FreshSignup, NoneIssued
<1>4. caller' = [w \in Callers |-> caller'[w]]
  BY DEF KeysInv
<1> QED
  BY <1>1, <1>2, <1>3, <1>4 DEF KeysInv, KeysStep

LEMMA OneHooksKeys ==
  ASSUME KeysInv, TablesGrow, NEW e \in Events, KeysStep(e), UNCHANGED <<signup, caller>>,
         NEW r, hook' = [hook EXCEPT ![e] = r], HookOK(e, r, accounts', keys')
  PROVE  KeysInv'
<1>1. ASSUME NEW v \in Callers PROVE CallerOK(v, caller[v], accounts', keys')
  BY CallerStays, CloudAssumption DEF KeysInv, TablesGrow, KeysStep
<1>2. ASSUME NEW d \in Events PROVE HookOK(d, hook'[d], accounts', keys')
  <2>1. CASE d = e
    BY <2>1 DEF KeysInv
  <2>2. CASE d # e
    <3>1. hook'[d] = hook[d]
      BY <2>2 DEF KeysInv
    <3> QED
      BY <2>2, <3>1, HookStays DEF KeysInv, TablesGrow, KeysStep
  <2> QED
    BY <2>1, <2>2
<1>3. ASSUME NEW q \in Signups PROVE FreshSignup(q, signup[q], keys')
  BY CloudAssumption DEF KeysInv, KeysStep, FreshSignup, NoneIssued
<1>4. hook' = [d \in Events |-> hook'[d]]
  BY DEF KeysInv
<1> QED
  BY <1>1, <1>2, <1>3, <1>4 DEF KeysInv, KeysStep

LEMMA SignupsKeys ==
  ASSUME TablesInv, SignupsInv, KeysInv, TablesGrow, NEW s \in Signups,
         Begin(s) \/ FindEmail(s) \/ MakeAccount(s) \/ MakeFirstKey(s) \/ SignupFails(s),
         UNCHANGED billingVars
  PROVE  KeysInv'
<1>1. /\ signup[s] \in SignupStates /\ signup[s].status \in {"idle", "find", "create", "key"}
      /\ UNCHANGED <<caller, hook>>
      /\ \E r : signup' = [signup EXCEPT ![s] = r]
  BY DEF Begin, FindEmail, MakeAccount, MakeFirstKey, SignupFails, Step, SignupsInv, billingVars
<1>2. \A q \in Signups : q # s => signup'[q] = signup[q]
  BY <1>1 DEF SignupsInv
<1>3. Unissued(s, keys)
  BY <1>1 DEF KeysInv, FreshSignup
<1>4. CASE MakeFirstKey(s)
  <2>1. /\ keys' = CreateApiKey(keys, signup[s].account, s) /\ accounts' = accounts
        /\ signup[s].status = "key"
        /\ signup'[s].status \in {"201", "500"}
    BY <1>1, <1>4 DEF MakeFirstKey, Step, SignupsInv, SignupStates
  <2>2. signup[s].account \in DOMAIN accounts
    BY <2>1 DEF SignupsInv, SignupOK
  <2>3. KeysStep(s)
    BY <1>3, <2>1, <2>2, NewKeyStep
  <2>4. FreshSignup(s, signup'[s], keys')
    BY <2>1 DEF FreshSignup
  <2> QED
    BY <1>1, <1>2, <2>3, <2>4, OneSignupsKeys
<1>5. CASE Begin(s) \/ FindEmail(s) \/ MakeAccount(s) \/ SignupFails(s)
  <2>1. UNCHANGED keys
    BY <1>5 DEF Begin, FindEmail, MakeAccount, SignupFails, tables
  <2>2. KeysStep(s)
    BY <2>1, KeysStayOK
  <2>3. FreshSignup(s, signup'[s], keys')
    BY <1>3, <2>1 DEF FreshSignup
  <2> QED
    BY <1>1, <1>2, <2>2, <2>3, OneSignupsKeys
<1> QED
  BY <1>4, <1>5

LEMMA CallersKeys ==
  ASSUME TablesInv, KeysInv, TablesGrow, NEW v \in Callers,
         \/ Present(v) \/ ListHashes(v) \/ Refetch(v)
         \/ MakeKey(v) \/ RevokeKey(v) \/ ReadAccount(v) \/ CallFails(v),
         UNCHANGED billingVars
  PROVE  KeysInv'
<1> DEFINE r == caller[v]
<1>1. CallerOK(v, r, accounts, keys) /\ UNCHANGED <<signup, hook, accounts>>
  BY DEF KeysInv, Present, ListHashes, Refetch, MakeKey, RevokeKey, ReadAccount, CallFails,
         tables, billingVars
<1>2. ASSUME NEW h \in {"401", "refetch", "done", "404", "500"}, Move(v, h), KeysStep(v),
             r.status # "idle", Unissued(v, keys') \/ h = "done"
      PROVE  KeysInv'
  <2> DEFINE q == [r EXCEPT !.status = h]
  <2>1. caller' = [caller EXCEPT ![v] = q]
    BY <1>2 DEF Move
  <2> HIDE DEF r
  <2>2. DOMAIN q = CallerColumns /\ q.status = h /\ q.key = r.key /\ q.account = r.account
    BY <1>1 DEF CallerOK, CallerColumns
  <2> HIDE DEF q
  <2>3. CallerOK(v, q, accounts', keys')
    BY <1>1, <1>2, <2>2 DEF CallerOK, TablesGrow, SameOwners
  <2> QED
    BY <1>1, <1>2, <2>1, <2>3, OneCallersKeys
<1>3. ASSUME UNCHANGED keys PROVE KeysStep(v) /\ (Unissued(v, keys) => Unissued(v, keys'))
  BY <1>3, KeysStayOK
<1>4. CASE Present(v)
  <2>1. /\ r.status = "idle" /\ keys' = keys
    BY <1>4 DEF Present, tables
  <2>2. PICK i \in DOMAIN keys : caller' = [caller EXCEPT ![v].status = "list", ![v].key = i]
    BY <1>4 DEF Present
  <2> DEFINE q == [r EXCEPT !.status = "list", !.key = i]
  <2>3. caller' = [caller EXCEPT ![v] = q]
    BY <2>2 DEF KeysInv
  <2> HIDE DEF r
  <2>4. CallerOK(v, q, accounts', keys')
    BY <1>1, <2>1 DEF CallerOK, CallerColumns
  <2> HIDE DEF q
  <2> QED
    BY <1>1, <1>3, <2>1, <2>3, <2>4, OneCallersKeys
<1>5. CASE ListHashes(v) \/ ReadAccount(v) \/ CallFails(v)
  <2>1. keys' = keys /\ r.status \in {"list", "refetch", "authed"}
        /\ \E h \in {"401", "refetch", "done", "500"} : Move(v, h)
    BY <1>5 DEF ListHashes, ReadAccount, CallFails, Authed, tables
  <2> QED
    BY <1>1, <1>2, <1>3, <2>1 DEF CallerOK
<1>6. CASE Refetch(v)
  <2>1. /\ r.status = "refetch" /\ keys' = keys
    BY <1>6 DEF Refetch, tables
  <2>2. PICK a \in Refetched(v) :
          caller' = [caller EXCEPT ![v].status = IF a = 0 THEN "401" ELSE "authed",
                                   ![v].account = a]
    BY <1>6 DEF Refetch
  <2> DEFINE q == [r EXCEPT !.status = IF a = 0 THEN "401" ELSE "authed", !.account = a]
  <2>3. caller' = [caller EXCEPT ![v] = q]
    BY <2>2 DEF KeysInv
  <2>4. a = 0 \/ a \in DOMAIN accounts
    BY <2>2 DEF Refetched, FindAccountByHashedKey, FetchOptional, Where, KeysInv, KeysOK
  <2> HIDE DEF r
  <2>5. CallerOK(v, q, accounts', keys')
    BY <1>1, <2>1, <2>4 DEF CallerOK, CallerColumns
  <2> HIDE DEF q
  <2> QED
    BY <1>1, <1>3, <2>1, <2>3, <2>5, OneCallersKeys
<1>7. CASE MakeKey(v)
  <2>1. r.status = "authed" /\ keys' = CreateApiKey(keys, r.account, v) /\ Move(v, "done")
    BY <1>7 DEF MakeKey, Authed
  <2>2. KeysStep(v)
    BY <1>1, <2>1, NewKeyStep DEF CallerOK
  <2> QED
    BY <1>2, <2>1, <2>2
<1>8. CASE RevokeKey(v)
  <2>1. r.status = "authed" /\ \E h \in {"done", "404"} : Move(v, h)
    BY <1>8 DEF RevokeKey, Authed
  <2>2. PICK i \in DOMAIN keys : keys' = RevokeApiKey(keys, r.account, i).keys
    BY <1>8 DEF RevokeKey
  <2>3. KeysStep(v) /\ NoneIssued(v, keys, keys')
    BY <1>1, <2>2, RevokeStep
  <2> QED
    BY <1>1, <1>2, <2>1, <2>3 DEF CallerOK, NoneIssued
<1> QED
  BY <1>4, <1>5, <1>6, <1>7, <1>8

(* What becomes of an event's record, where its account stays              *)
SameHook(q, r) ==
  /\ DOMAIN q = HookColumns /\ q.account = r.account /\ q.new = r.new
  /\ q.acked \in BOOLEAN /\ q.failed \in BOOLEAN /\ q.tries \in Nat

LEMMA Acknowledged ==
  ASSUME NEW e, HookOK(e, hook[e], accounts, keys), Acknowledge(e)
  PROVE  \E q : /\ Hook(e, q) /\ SameHook(q, hook[e])
                /\ q.status = "idle" /\ q.failed = hook[e].failed
<1> DEFINE r == hook[e]
<1>1. PICK reached \in BOOLEAN : Hook(e, [r EXCEPT !.status = "idle", !.acked = @ \/ reached])
  BY DEF Acknowledge
<1> DEFINE q == [r EXCEPT !.status = "idle", !.acked = @ \/ reached]
<1>2. Hook(e, q) /\ HookOK(e, r, accounts, keys)
  BY <1>1
<1>3. SUFFICES SameHook(q, r) /\ q.status = "idle" /\ q.failed = r.failed
  BY <1>2
<1> HIDE DEF r
<1>4. DOMAIN q = HookColumns /\ q.status = "idle" /\ q.new = r.new /\ q.account = r.account
      /\ q.failed = r.failed /\ q.tries = r.tries /\ q.acked \in BOOLEAN
  BY <1>2 DEF HookOK, HookColumns
<1>5. q.failed \in BOOLEAN /\ q.tries \in Nat
  BY <1>2, <1>4 DEF HookOK
<1> HIDE DEF q
<1> QED
  BY <1>4, <1>5 DEF SameHook

LEMMA Delivered ==
  ASSUME NEW e, HookOK(e, hook[e], accounts, keys), Deliver(e)
  PROVE  /\ hook[e].status = "idle"
         /\ \E q : /\ Hook(e, q) /\ SameHook(q, hook[e])
                   /\ \/ q.status = "idle"
                      \/ q.status = "upsert" /\ Payload[e].type = "checkout"
                      \/ q.status = "find" /\ Payload[e].type = "subscription"
                   /\ q.failed = hook[e].failed
                   /\ q.acked => hook[e].acked \/ Payload[e].type = "other"
<1> DEFINE r == hook[e]
           type == Payload[e].type
<1>1. r.status = "idle" /\ HookOK(e, r, accounts, keys)
  BY DEF Deliver
<1>2. CASE \E h \in Headers : Refuse(e, h)
  <2> DEFINE q == [r EXCEPT !.tries = @ + 1]
  <2>1. Hook(e, q)
    BY <1>2 DEF Refuse
  <2>2. SUFFICES SameHook(q, r) /\ q.status = "idle" /\ q.failed = r.failed /\ q.acked = r.acked
    BY <1>1, <2>1
  <2> HIDE DEF r
  <2>3. DOMAIN q = HookColumns /\ q.status = "idle" /\ q.new = r.new /\ q.account = r.account
        /\ q.failed = r.failed /\ q.tries = r.tries + 1 /\ q.acked = r.acked
    BY <1>1 DEF HookOK, HookColumns
  <2>4. q.failed \in BOOLEAN /\ q.acked \in BOOLEAN /\ q.tries \in Nat
    BY <1>1, <2>3 DEF HookOK
  <2> HIDE DEF q
  <2> QED
    BY <2>3, <2>4 DEF SameHook
<1>3. CASE Route(e)
  <2> DEFINE st == CASE type = "checkout" -> "upsert"
                     [] type = "subscription" -> "find"
                     [] OTHER -> "idle"
             ack == r.acked \/ type = "other"
             q == [r EXCEPT !.tries = @ + 1, !.status = st, !.acked = ack]
  <2>1. /\ \/ st = "idle"
           \/ st = "upsert" /\ type = "checkout"
           \/ st = "find" /\ type = "subscription"
        /\ ack \in BOOLEAN /\ (ack => r.acked \/ type = "other")
    OBVIOUS
  <2>2. Hook(e, q)
    BY <1>3 DEF Route
  <2> HIDE DEF st, ack
  <2>3. SUFFICES SameHook(q, r) /\ q.status = st /\ q.failed = r.failed /\ q.acked = ack
    BY <1>1, <2>1, <2>2
  <2> HIDE DEF r
  <2>4. DOMAIN q = HookColumns /\ q.status = st /\ q.new = r.new /\ q.account = r.account
        /\ q.failed = r.failed /\ q.tries = r.tries + 1 /\ q.acked = ack
    BY <1>1 DEF HookOK, HookColumns
  <2>5. q.failed \in BOOLEAN /\ q.tries \in Nat /\ q.acked \in BOOLEAN
    BY <1>1, <2>1, <2>4 DEF HookOK
  <2> HIDE DEF q
  <2> QED
    BY <2>4, <2>5 DEF SameHook
<1> QED
  BY <1>2, <1>3 DEF Deliver

LEMMA Failed ==
  ASSUME NEW e, HookOK(e, hook[e], accounts, keys), HookFails(e)
  PROVE  \E q : /\ Hook(e, q) /\ SameHook(q, hook[e])
                /\ q.status = "idle" /\ q.acked = hook[e].acked
                /\ q.failed <=> hook[e].failed \/ (hook[e].status \in {"ids", "key"} /\ hook[e].new)
<1> DEFINE r == hook[e]
           failed == r.failed \/ (r.status \in {"ids", "key"} /\ r.new)
           q == [r EXCEPT !.status = "idle", !.failed = failed]
<1>1. Hook(e, q) /\ HookOK(e, r, accounts, keys)
  BY DEF HookFails
<1>2. failed \in BOOLEAN
  OBVIOUS
<1>3. SUFFICES /\ SameHook(q, r) /\ q.status = "idle" /\ q.acked = r.acked
               /\ q.failed = failed
  BY <1>1
<1> HIDE DEF failed, r
<1>4. DOMAIN q = HookColumns /\ q.status = "idle" /\ q.new = r.new /\ q.account = r.account
      /\ q.acked = r.acked /\ q.tries = r.tries /\ q.failed = failed
  BY <1>1 DEF HookOK, HookColumns
<1>5. q.acked \in BOOLEAN /\ q.failed \in BOOLEAN /\ q.tries \in Nat
  BY <1>1, <1>2, <1>4 DEF HookOK
<1> HIDE DEF q
<1> QED
  BY <1>4, <1>5 DEF SameHook

(* The customer of a new account is known: its key is next.                *)
LEMMA KeyNext ==
  ASSUME NEW e, HookOK(e, hook[e], accounts, keys), SetIds(e), hook[e].new
  PROVE  \E q : /\ Hook(e, q) /\ SameHook(q, hook[e])
                /\ q.status = "key" /\ q.acked = hook[e].acked /\ q.failed = hook[e].failed
<1> DEFINE r == hook[e]
           q == [r EXCEPT !.status = "key"]
<1>1. Hook(e, q) /\ HookOK(e, r, accounts, keys)
  BY DEF SetIds
<1>2. SUFFICES /\ SameHook(q, r) /\ q.status = "key" /\ q.acked = r.acked
               /\ q.failed = r.failed
  BY <1>1
<1> HIDE DEF r
<1>3. DOMAIN q = HookColumns /\ q.status = "key" /\ q.new = r.new /\ q.account = r.account
      /\ q.acked = r.acked /\ q.tries = r.tries /\ q.failed = r.failed
  BY <1>1 DEF HookOK, HookColumns
<1>4. q.acked \in BOOLEAN /\ q.failed \in BOOLEAN /\ q.tries \in Nat
  BY <1>1, <1>3 DEF HookOK
<1> HIDE DEF q
<1> QED
  BY <1>3, <1>4 DEF SameHook

(* An event has found its account, or has inserted it.                     *)
LEMMA Upserted ==
  ASSUME AccountsOK(accounts), NEW e, HookOK(e, hook[e], accounts, keys), Upsert(e)
  PROVE  \E q : /\ Hook(e, q) /\ DOMAIN q = HookColumns /\ q.status = "ids"
                /\ q.acked = hook[e].acked /\ q.failed = hook[e].failed /\ q.tries = hook[e].tries
                /\ q.account \in DOMAIN accounts' /\ accounts'[q.account].email = Payload[e].email
                /\ q.new \in BOOLEAN
                /\ q.new => AccountsOf(accounts, Payload[e].email) = {}
                /\ \A i \in DOMAIN accounts : accounts'[i] = accounts[i]
                /\ \A i \in DOMAIN accounts' : i \in DOMAIN accounts \/ (i = q.account /\ q.new)
<1> DEFINE r == hook[e]
           c == UpsertAccountByEmail(accounts, Payload[e].email, "team")
           q == [r EXCEPT !.status = "ids", !.account = c.id, !.new = c.inserted]
<1>1. accounts' = c.accounts /\ Hook(e, q) /\ HookOK(e, r, accounts, keys)
  BY DEF Upsert
<1>2. /\ c.id \in DOMAIN c.accounts /\ c.accounts[c.id].email = Payload[e].email
      /\ c.inserted \in BOOLEAN
      /\ c.inserted => AccountsOf(accounts, Payload[e].email) = {}
      /\ \A i \in DOMAIN accounts : c.accounts[i] = accounts[i]
      /\ \A i \in DOMAIN c.accounts : i \in DOMAIN accounts \/ (i = c.id /\ c.inserted)
  BY UpsertAccountKeeps DEF Plans
<1> HIDE DEF c
<1>3. SUFFICES /\ DOMAIN q = HookColumns /\ q.status = "ids" /\ q.account = c.id
               /\ q.new = c.inserted
               /\ q.acked = r.acked /\ q.tries = r.tries /\ q.failed = r.failed
  BY <1>1, <1>2
<1> HIDE DEF r
<1> QED
  BY <1>1 DEF HookOK, HookColumns

(* A subscription has found the account of its customer.                   *)
LEMMA CustomerFound ==
  ASSUME NEW e, HookOK(e, hook[e], accounts, keys), FindCustomer(e), ~Acknowledge(e)
  PROVE  \E q : /\ Hook(e, q) /\ DOMAIN q = HookColumns /\ q.status = "sync"
                /\ q.account \in DOMAIN accounts /\ q.new = hook[e].new
                /\ q.acked = hook[e].acked /\ q.tries = hook[e].tries /\ q.failed = hook[e].failed
<1> DEFINE r == hook[e]
<1>1. PICK i \in FindAccountByStripeCustomer(accounts, Payload[e].customer) :
        i # 0 /\ Hook(e, [r EXCEPT !.status = "sync", !.account = i])
  BY DEF FindCustomer
<1>2. i \in DOMAIN accounts
  BY <1>1 DEF FindAccountByStripeCustomer, FetchOptional, Where
<1> DEFINE q == [r EXCEPT !.status = "sync", !.account = i]
<1>3. Hook(e, q) /\ HookOK(e, r, accounts, keys)
  BY <1>1
<1>4. SUFFICES /\ DOMAIN q = HookColumns /\ q.status = "sync" /\ q.account = i
               /\ q.new = r.new
               /\ q.acked = r.acked /\ q.tries = r.tries /\ q.failed = r.failed
  BY <1>2, <1>3
<1> HIDE DEF r
<1> QED
  BY <1>3 DEF HookOK, HookColumns

LEMMA HooksKeys ==
  ASSUME TablesInv, KeysInv, TablesGrow, NEW e \in Events,
         \/ Deliver(e) \/ Upsert(e) \/ SetIds(e) \/ IssueKey(e)
         \/ FindCustomer(e) \/ Sync(e) \/ HookFails(e),
         UNCHANGED accountVars
  PROVE  KeysInv'
<1> DEFINE r == hook[e]
<1>1. HookOK(e, r, accounts, keys) /\ UNCHANGED <<signup, caller>>
  BY DEF KeysInv, accountVars
<1>2. ASSUME NEW q, Hook(e, q), SameHook(q, r), UNCHANGED keys,
             \/ q.status \in {"idle", "upsert", "find"}
             \/ q.status = "key" /\ r.status = "ids" /\ r.new
      PROVE  KeysInv'
  <2>1. KeysStep(e)
    BY <1>2, KeysStayOK
  <2>2. HookOK(e, r, accounts', keys')
    BY <1>1, <1>2, HookStays DEF TablesGrow, NoneIssued
  <2> HIDE DEF r
  <2>3. HookOK(e, q, accounts', keys')
    BY <1>2, <2>2 DEF HookOK, SameHook
  <2> QED
    BY <1>1, <1>2, <2>1, <2>3, OneHooksKeys DEF Hook
<1>3. ASSUME Acknowledge(e), UNCHANGED keys
      PROVE  KeysInv'
  BY <1>1, <1>2, <1>3, Acknowledged
<1>4. CASE Deliver(e)
  <2>1. UNCHANGED keys
    BY <1>4 DEF Deliver, tables
  <2> QED
    BY <1>1, <1>2, <1>4, <2>1, Delivered
<1>5. CASE HookFails(e)
  <2>1. UNCHANGED keys
    BY <1>5 DEF HookFails, tables
  <2> QED
    BY <1>1, <1>2, <1>5, <2>1, Failed
<1>6. CASE Upsert(e)
  <2>1. UNCHANGED keys
    BY <1>6 DEF Upsert
  <2>2. PICK q : /\ Hook(e, q) /\ DOMAIN q = HookColumns /\ q.status = "ids"
                 /\ q.acked = r.acked /\ q.failed = r.failed /\ q.tries = r.tries
                 /\ q.account \in DOMAIN accounts' /\ accounts'[q.account].email = Payload[e].email
                 /\ q.new \in BOOLEAN
                 /\ q.new => AccountsOf(accounts, Payload[e].email) = {}
    BY <1>1, <1>6, Upserted DEF TablesInv
  <2> HIDE DEF r
  <2>3. q.acked \in BOOLEAN /\ q.failed \in BOOLEAN /\ q.tries \in Nat
        /\ (q.new => Unissued(e, keys'))
    BY <1>1, <2>1, <2>2 DEF HookOK
  <2>4. q.account # 0 /\ AccountsOf(accounts', Payload[e].email) # {}
    BY <2>1, <2>2, AccountFacts DEF AccountsOf, Where, TablesGrow
  <2>5. HookOK(e, q, accounts', keys')
    BY <2>1, <2>2, <2>3, <2>4 DEF HookOK
  <2>6. KeysStep(e)
    BY <2>1, KeysStayOK
  <2> QED
    BY <1>1, <2>2, <2>5, <2>6, OneHooksKeys DEF Hook
<1>7. CASE SetIds(e)
  <2>1. UNCHANGED keys /\ r.status = "ids"
    BY <1>7 DEF SetIds
  <2>2. CASE r.new
    BY <1>1, <1>2, <1>7, <2>1, <2>2, KeyNext
  <2>3. CASE ~r.new
    BY <1>3, <1>7, <2>1, <2>3 DEF SetIds
  <2> QED
    BY <2>2, <2>3
<1>8. CASE IssueKey(e)
  <2>1. r.status = "key" /\ keys' = CreateApiKey(keys, r.account, e) /\ accounts' = accounts
        /\ Acknowledge(e)
    BY <1>8 DEF IssueKey
  <2>2. PICK q : Hook(e, q) /\ SameHook(q, r) /\ q.status = "idle"
    BY <1>1, <2>1, Acknowledged
  <2> HIDE DEF r
  <2>3. r.account \in DOMAIN accounts /\ Unissued(e, keys)
        /\ accounts[r.account].email = Payload[e].email /\ r.new \in BOOLEAN
    BY <1>1, <2>1 DEF HookOK
  <2>4. KeysStep(e)
    BY <2>1, <2>3, NewKeyStep
  <2>5. AccountsOf(accounts', Payload[e].email) # {}
    BY <2>1, <2>3 DEF AccountsOf, Where
  <2>6. HookOK(e, q, accounts', keys')
    BY <2>1, <2>2, <2>3, <2>5 DEF HookOK, SameHook
  <2> QED
    BY <1>1, <2>2, <2>4, <2>6, OneHooksKeys DEF Hook
<1>9. CASE FindCustomer(e)
  <2>1. UNCHANGED keys
    BY <1>9 DEF FindCustomer, tables
  <2>2. CASE Acknowledge(e)
    BY <1>3, <2>1, <2>2
  <2>3. CASE ~Acknowledge(e)
    <3>1. PICK q : /\ Hook(e, q) /\ DOMAIN q = HookColumns /\ q.status = "sync"
                   /\ q.account \in DOMAIN accounts /\ q.new = r.new
                   /\ q.acked = r.acked /\ q.tries = r.tries /\ q.failed = r.failed
      BY <1>1, <1>9, <2>3, CustomerFound
    <3>2. HookOK(e, r, accounts', keys') /\ q.account \in DOMAIN accounts'
      BY <1>1, <2>1, <3>1, HookStays DEF TablesGrow, NoneIssued, SameAccounts
    <3>3. q.account # 0
      BY <3>1, AccountFacts DEF TablesInv
    <3> HIDE DEF r
    <3>4. HookOK(e, q, accounts', keys')
      BY <3>1, <3>2, <3>3 DEF HookOK
    <3>5. KeysStep(e)
      BY <2>1, KeysStayOK
    <3> QED
      BY <1>1, <3>1, <3>4, <3>5, OneHooksKeys DEF Hook
  <2> QED
    BY <2>2, <2>3
<1>10. CASE Sync(e)
  BY <1>3, <1>10 DEF Sync
<1> QED
  BY <1>4, <1>5, <1>6, <1>7, <1>8, <1>9, <1>10

LEMMA KeysInvHolds == CloudSpec => []KeysInv
<1>1. CloudInit => KeysInv
  <2> SUFFICES ASSUME CloudInit PROVE KeysInv
    OBVIOUS
  <2>1. PICK scene \in Scenes : TablesInit(scene)
    BY DEF CloudInit
  <2>2. KeysOK(keys, DOMAIN accounts)
    BY <2>1, ScenesAssumption DEF TablesInit
  <2>3. \A h \in Signups \cup Callers \cup Events : Unissued(h, keys)
    BY <2>1, CloudAssumption DEF TablesInit, Unissued
  <2>4. /\ caller = [v \in Callers |-> [status |-> "idle", key |-> 0, account |-> 0]]
        /\ hook = [e \in Events |-> Undelivered]
    BY DEF CloudInit, AccountsInit, BillingInit
  <2>5. \A v \in Callers : CallerOK(v, caller[v], accounts, keys)
    BY <2>3, <2>4 DEF CallerOK, CallerColumns
  <2>6. \A e \in Events : HookOK(e, hook[e], accounts, keys)
    BY <2>3, <2>4 DEF HookOK, HookColumns, Undelivered
  <2> QED
    BY <2>2, <2>3, <2>4, <2>5, <2>6 DEF KeysInv, FreshSignup
<1>2. TablesInv /\ SignupsInv /\ KeysInv /\ [CloudNext]_cloudVars => KeysInv'
  <2> SUFFICES ASSUME TablesInv, SignupsInv, KeysInv, [CloudNext]_cloudVars PROVE KeysInv'
    OBVIOUS
  <2>1. TablesGrow
    BY EachStepGrows
  <2>2. ASSUME UNCHANGED <<accounts, keys, signup, caller, hook>> PROVE KeysInv'
    BY <2>2 DEF KeysInv, FreshSignup, CallerOK, HookOK, Unissued, AccountsOf, Where
  <2>3. CASE Others
    BY <2>2, <2>3, OthersFrame DEF accountVars, billingVars
  <2>4. CASE Serving
    BY <2>1, <2>4, SignupsKeys, CallersKeys DEF Serving, AccountsNext
  <2>5. CASE Charging
    <3>1. ASSUME NEW b \in Bills,
                 StartBill(b) \/ ReadUsage(b) \/ PostUsage(b) \/ MarkBilled(b) \/ BillFails(b)
          PROVE  UNCHANGED <<keys, hook>>
      BY <3>1 DEF StartBill, ReadUsage, PostUsage, MarkBilled, BillFails, Bill, tables
    <3>2. ASSUME UNCHANGED <<keys, hook>> PROVE KeysInv'
      <4>1. UNCHANGED <<signup, caller>>
        BY <2>5 DEF Charging, accountVars
      <4>2. \A v \in Callers : CallerOK(v, caller[v], accounts', keys')
        BY <2>1, <3>2, CallerStays DEF KeysInv, TablesGrow, NoneIssued
      <4>3. \A e \in Events : HookOK(e, hook[e], accounts', keys')
        BY <2>1, <3>2, HookStays DEF KeysInv, TablesGrow, NoneIssued
      <4>4. KeysOK(keys', DOMAIN accounts')
        BY <2>1, <3>2, KeysStayOK DEF KeysStep
      <4> QED
        BY <3>2, <4>1, <4>2, <4>3, <4>4 DEF KeysInv, FreshSignup
    <3> QED
      BY <2>1, <2>5, <3>1, <3>2, HooksKeys DEF Charging, BillingNext
  <2> QED
    BY <2>3, <2>4, <2>5 DEF CloudNext, Others
<1> QED
  BY <1>1, <1>2, TablesInvHolds, SignupsInvHolds, PTL DEF CloudSpec

(* What is written to the keys                                             *)
LEMMA KeysWritten ==
  ASSUME [CloudNext]_cloudVars
  PROVE  \/ UNCHANGED keys
         \/ \E a, h : keys' = CreateApiKey(keys, a, h)
         \/ \E v \in Callers : \E k \in DOMAIN keys :
              Authed(v) /\ keys' = RevokeApiKey(keys, caller[v].account, k).keys
<1>1. CASE Others
  BY <1>1, OthersFrame
<1>2. CASE Serving
  BY <1>2 DEF Serving, AccountsNext, Begin, FindEmail, MakeAccount, MakeFirstKey, SignupFails,
              Present, ListHashes, Refetch, MakeKey, RevokeKey, ReadAccount, CallFails, tables
<1>3. CASE Charging
  BY <1>3 DEF Charging, BillingNext, Deliver, Upsert, SetIds, IssueKey, FindCustomer, Sync,
              HookFails, StartBill, ReadUsage, PostUsage, MarkBilled, BillFails, tables
<1> QED
  BY <1>1, <1>2, <1>3 DEF CloudNext, Others

LEMMA RefetchedOnly ==
  ASSUME KeysInv, [CloudNext]_cloudVars, NEW v \in Callers,
         caller[v].status = "refetch", caller'[v].status = "authed"
  PROVE  Refetch(v)
<1>1. ASSUME UNCHANGED caller PROVE FALSE
  BY <1>1
<1>2. Serving
  BY <1>1, OthersFrame, ChargingFrame DEF CloudNext, Others, accountVars
<1>3. PICK w \in Callers :
        \/ Present(w) \/ ListHashes(w) \/ Refetch(w)
        \/ MakeKey(w) \/ RevokeKey(w) \/ ReadAccount(w) \/ CallFails(w)
  BY <1>1, <1>2 DEF Serving, AccountsNext, Begin, FindEmail, MakeAccount, MakeFirstKey,
                    SignupFails
<1>4. \E r : caller' = [caller EXCEPT ![w] = r]
  <2>1. \/ \E h : Move(w, h)
        \/ \E i : caller' = [caller EXCEPT ![w].status = "list", ![w].key = i]
        \/ \E a : caller' = [caller EXCEPT ![w].status = IF a = 0 THEN "401" ELSE "authed",
                                           ![w].account = a]
    BY <1>3 DEF Present, ListHashes, Refetch, MakeKey, RevokeKey, ReadAccount, CallFails
  <2> QED
    BY <2>1 DEF Move, KeysInv
<1>5. w = v
  BY <1>4 DEF KeysInv
<1>6. ~Move(v, "500")
  <2>1. \A r : caller' = [caller EXCEPT ![v] = r] => caller'[v] = r
    BY DEF KeysInv
  <2>2. DOMAIN caller[v] = CallerColumns
    BY DEF KeysInv, CallerOK
  <2>3. [caller[v] EXCEPT !.status = "500"].status = "500"
    BY <2>2 DEF CallerColumns
  <2> QED
    BY <2>1, <2>3 DEF Move
<1> QED
  BY <1>3, <1>5, <1>6 DEF Present, ListHashes, MakeKey, RevokeKey, ReadAccount, CallFails, Authed

(* However requests, revocations and new keys overlap: a request whose key *)
(* was still listed as active is let in only if the key is active when its *)
(* account is looked up, and as the account that the key was issued for;   *)
(* and a key is revoked only by a request that was let in as its account.  *)
(* It rests on no two keys having one hash, whoever issued them.           *)
THEOREM KeysAreGuarded == CloudSpec => KeysGuarded
<1> DEFINE A == /\ \A v \in Callers :
                     caller[v].status = "refetch" /\ caller'[v].status = "authed" =>
                       /\ ~keys[caller[v].key].revoked
                       /\ caller'[v].account = keys[caller[v].key].account
                /\ \A i \in DOMAIN keys :
                     keys'[i].revoked /\ ~keys[i].revoked =>
                       \E v \in Callers : Authed(v) /\ caller[v].account = keys[i].account
<1>1. TablesInv /\ KeysInv /\ [CloudNext]_cloudVars => A
  <2> SUFFICES ASSUME TablesInv, KeysInv, [CloudNext]_cloudVars PROVE A
    OBVIOUS
  <2>1. ASSUME NEW v \in Callers, caller[v].status = "refetch", caller'[v].status = "authed"
        PROVE  /\ ~keys[caller[v].key].revoked
               /\ caller'[v].account = keys[caller[v].key].account
    <3>1. Refetch(v)
      BY <2>1, RefetchedOnly
    <3>2. PICK a \in Refetched(v) :
            caller' = [caller EXCEPT ![v].status = IF a = 0 THEN "401" ELSE "authed",
                                     ![v].account = a]
      BY <3>1 DEF Refetch
    <3>3. caller[v].key \in DOMAIN keys /\ DOMAIN caller[v] = CallerColumns
      BY <2>1 DEF KeysInv, CallerOK
    <3>4. caller'[v].status = (IF a = 0 THEN "401" ELSE "authed") /\ caller'[v].account = a
      BY <3>2, <3>3 DEF KeysInv, CallerColumns
    <3>5. a # 0
      BY <2>1, <3>4
    <3>6. PICK i \in DOMAIN keys : keys[i].hash = HashOf(v) /\ ~keys[i].revoked
                                   /\ keys[i].account = a
      BY <3>2, <3>5 DEF Refetched, FindAccountByHashedKey, FetchOptional, Where
    <3>7. i = caller[v].key
      BY <3>3, <3>6 DEF HashOf, KeysInv, KeysOK
    <3> QED
      BY <3>4, <3>6, <3>7
  <2>2. ASSUME NEW i \in DOMAIN keys, keys'[i].revoked, ~keys[i].revoked
        PROVE  \E v \in Callers : Authed(v) /\ caller[v].account = keys[i].account
    <3>1. keys'[i] # keys[i]
      BY <2>2
    <3>2. ASSUME NEW a, NEW h, keys' = CreateApiKey(keys, a, h)
          PROVE  FALSE
      BY <3>1, <3>2, CreateKeyKeeps DEF TablesInv
    <3>3. PICK v \in Callers, k \in DOMAIN keys :
            Authed(v) /\ keys' = RevokeApiKey(keys, caller[v].account, k).keys
      BY <3>1, <3>2, KeysWritten
    <3>4. keys[i].account # caller[v].account => keys'[i] = keys[i]
      BY <3>3, RevokeKeyKeeps DEF TablesInv
    <3> QED
      BY <3>1, <3>3, <3>4
  <2> QED
    BY <2>1, <2>2
<1>2. KeysGuarded <=> [][A]_cloudVars
  BY DEF KeysGuarded
<1> HIDE DEF A
<1>3. TablesInv /\ KeysInv /\ [CloudNext]_cloudVars => [A]_cloudVars
  BY <1>1
<1> QED
  BY <1>2, <1>3, TablesInvHolds, KeysInvHolds, PTL DEF CloudSpec

----------------------------------------------------------------------------
(* Checkouts: the account of one that was processed, and who still owes a  *)
(* key to an account that has none.                                        *)
SignupExcuses(r, i) == r.account = i /\ r.status \in {"key", "500"}
HookExcuses(r, i) ==
  r.account = i /\ (r.failed \/ (r.new /\ r.status \in {"ids", "key"}))

Provided(e, t) == \E i \in AccountsOf(t, Payload[e].email) : t[i].customer # None

ProvisionOK(e, r, t) ==
  /\ r.status \in {"upsert", "ids", "key"} => Payload[e].type = "checkout"
  /\ r.status \in {"find", "sync"} => Payload[e].type = "subscription"
  /\ r.status = "key" => t[r.account].customer # None
  /\ r.failed => /\ Payload[e].type = "checkout"
                 /\ r.account # 0 /\ t[r.account].email = Payload[e].email
  /\ Payload[e].type = "checkout" /\ r.acked => Provided(e, t)

ProvisionInv ==
  /\ \A e \in Events : ProvisionOK(e, hook[e], accounts)
  /\ \A i \in DOMAIN accounts : Keyless(i) => Excused(i)

NowKeyed(i) == \E k \in DOMAIN keys' : keys'[k].account = i

(* A customer, once known, is only ever replaced by another.               *)
CustomersStay == \A i \in DOMAIN accounts : accounts[i].customer # None => accounts'[i].customer # None

LEMMA ProvisionStays ==
  ASSUME NEW e, NEW r, HookOK(e, r, accounts, keys), ProvisionOK(e, r, accounts), TablesGrow,
         CustomersStay
  PROVE  ProvisionOK(e, r, accounts')
<1>1. Provided(e, accounts) => Provided(e, accounts')
  BY DEF Provided, AccountsOf, Where, TablesGrow, SameAccounts, CustomersStay
<1>2. r.account # 0 => /\ r.account \in DOMAIN accounts
                       /\ accounts'[r.account].email = accounts[r.account].email
  BY DEF HookOK, TablesGrow, SameAccounts
<1>3. r.status = "key" => r.account # 0
  BY DEF HookOK
<1> QED
  BY <1>1, <1>2, <1>3 DEF ProvisionOK, CustomersStay

LEMMA ExcusesStay ==
  ASSUME ProvisionInv, TablesGrow, UNCHANGED actors,
         \A s \in Signups : \A i \in DOMAIN accounts :
           SignupExcuses(signup[s], i) => SignupExcuses(signup'[s], i) \/ NowKeyed(i),
         \A e \in Events : \A i \in DOMAIN accounts :
           HookExcuses(hook[e], i) => HookExcuses(hook'[e], i) \/ NowKeyed(i),
         \A i \in DOMAIN accounts' \ DOMAIN accounts : Excused(i)'
  PROVE  \A i \in DOMAIN accounts' : Keyless(i)' => Excused(i)'
<1> SUFFICES ASSUME NEW i \in DOMAIN accounts', Keyless(i)', ~NowKeyed(i) PROVE Excused(i)'
  BY DEF Keyless, NowKeyed
<1>1. CASE i \notin DOMAIN accounts
  BY <1>1
<1>2. CASE i \in DOMAIN accounts
  <2>1. Keyless(i)
    BY DEF Keyless, TablesGrow, SameOwners
  <2>2. Excused(i)
    BY <1>2, <2>1 DEF ProvisionInv
  <2>3. CASE WasKeyless(i)
    BY <2>3 DEF Excused, WasKeyless
  <2>4. CASE \E s \in Signups : SignupExcuses(signup[s], i)
    <3>1. PICK s \in Signups : SignupExcuses(signup'[s], i)
      BY <1>2, <2>4
    <3> QED
      BY <3>1 DEF Excused, SignupExcuses
  <2>5. CASE \E e \in Events : HookExcuses(hook[e], i)
    <3>1. PICK e \in Events : HookExcuses(hook'[e], i)
      BY <1>2, <2>5
    <3> QED
      BY <3>1 DEF Excused, HookExcuses
  <2> QED
    BY <2>2, <2>3, <2>4, <2>5 DEF Excused, SignupExcuses, HookExcuses
<1> QED
  BY <1>1, <1>2

LEMMA ServingKeepsCustomers ==
  ASSUME TablesInv, Serving
  PROVE  CustomersStay
<1>1. ASSUME NEW s \in Signups, MakeAccount(s)
      PROVE  CustomersStay
  <2> DEFINE c == CreateAccount(accounts, EmailOf[s], "team", s)
             u == c.accounts
  <2>1. accounts' = u
    BY <1>1 DEF MakeAccount, Created
  <2>2. AccountsOK(accounts) /\ "team" \in Plans
    BY DEF TablesInv, Plans
  <2>3. \A i \in DOMAIN accounts : u[i] = accounts[i]
    BY <2>2, CreateAccountKeeps
  <2> HIDE DEF u
  <2> QED
    BY <2>1, <2>3 DEF CustomersStay
<1>2. ASSUME UNCHANGED accounts PROVE CustomersStay
  BY <1>2 DEF CustomersStay
<1>3. ASSUME NEW s \in Signups, Begin(s) \/ FindEmail(s) \/ MakeFirstKey(s) \/ SignupFails(s)
      PROVE  CustomersStay
  BY <1>2, <1>3 DEF Begin, FindEmail, MakeFirstKey, SignupFails, tables
<1>4. ASSUME NEW v \in Callers,
             \/ Present(v) \/ ListHashes(v) \/ Refetch(v)
             \/ MakeKey(v) \/ RevokeKey(v) \/ ReadAccount(v) \/ CallFails(v)
      PROVE  CustomersStay
  BY <1>2, <1>4 DEF Present, ListHashes, Refetch, MakeKey, RevokeKey, ReadAccount, CallFails, tables
<1> QED
  BY <1>1, <1>3, <1>4 DEF Serving, AccountsNext

LEMMA SignupsProvide ==
  ASSUME TablesInv, SignupsInv, KeysInv, ProvisionInv, TablesGrow, Serving
  PROVE  ProvisionInv'
<1>1. CustomersStay
  BY ServingKeepsCustomers
<1>2. UNCHANGED <<hook, actors>>
  BY ServingFrame DEF billingVars
<1>3. \A e \in Events : ProvisionOK(e, hook[e], accounts')
  BY <1>1, ProvisionStays DEF ProvisionInv, KeysInv
<1>4. \A e \in Events : \A i : HookExcuses(hook[e], i) => HookExcuses(hook'[e], i)
  BY <1>2
<1>5. ASSUME \A s \in Signups : \A i \in DOMAIN accounts :
               SignupExcuses(signup[s], i) => SignupExcuses(signup'[s], i) \/ NowKeyed(i),
             \A i \in DOMAIN accounts' \ DOMAIN accounts : Excused(i)'
      PROVE  ProvisionInv'
  BY <1>2, <1>3, <1>4, <1>5, ExcusesStay DEF ProvisionInv
<1>6. ASSUME NEW s \in Signups,
             Begin(s) \/ FindEmail(s) \/ MakeAccount(s) \/ MakeFirstKey(s) \/ SignupFails(s)
      PROVE  ProvisionInv'
  <2> DEFINE r == signup[s]
  <2>1. r \in SignupStates
    BY DEF SignupsInv
  <2>2. ASSUME NEW q, signup' = [signup EXCEPT ![s] = q],
               \A i : SignupExcuses(r, i) => SignupExcuses(q, i) \/ NowKeyed(i)
        PROVE  \A t \in Signups : \A i \in DOMAIN accounts :
                 SignupExcuses(signup[t], i) => SignupExcuses(signup'[t], i) \/ NowKeyed(i)
    BY <2>2 DEF SignupsInv
  <2>3. ASSUME NEW h \in {"find", "create", "400", "500", "201"}, Step(s, h),
               h = "500" \/ r.status \in {"idle", "find", "create"} \/ NowKeyed(r.account),
               UNCHANGED accounts
        PROVE  ProvisionInv'
    <3> DEFINE q == [r EXCEPT !.status = h]
    <3>1. signup' = [signup EXCEPT ![s] = q]
      BY <2>3 DEF Step
    <3> HIDE DEF r
    <3>2. q.status = h /\ q.account = r.account
      BY <2>1 DEF SignupStates
    <3> HIDE DEF q
    <3>3. \A i : SignupExcuses(r, i) => SignupExcuses(q, i) \/ NowKeyed(i)
      BY <2>3, <3>2 DEF SignupExcuses
    <3> QED
      BY <1>5, <2>2, <2>3, <3>1, <3>3
  <2>4. CASE Begin(s) \/ FindEmail(s) \/ SignupFails(s)
    BY <2>3, <2>4 DEF Begin, FindEmail, SignupFails, tables
  <2>5. CASE MakeFirstKey(s)
    <3>1. /\ keys' = CreateApiKey(keys, r.account, s) /\ accounts' = accounts
          /\ Step(s, "201") \/ Step(s, "500")
      BY <2>5 DEF MakeFirstKey
    <3>2. NowKeyed(r.account)
      BY <3>1, CreateKeyKeeps DEF TablesInv, NowKeyed
    <3> QED
      BY <2>3, <3>1, <3>2
  <2>6. CASE MakeAccount(s)
    <3> DEFINE c == Created(s)
    <3>1. /\ r.status = "create" /\ accounts' = c.accounts
          /\ signup' = [signup EXCEPT ![s] =
                          IF c.ok THEN [status |-> "key", account |-> Len(accounts')]
                          ELSE [r EXCEPT !.status = "500"]]
      BY <2>6 DEF MakeAccount
    <3>2. \A i : ~SignupExcuses(r, i)
      BY <3>1 DEF SignupExcuses
    <3>3. \A t \in Signups : \A i \in DOMAIN accounts :
            SignupExcuses(signup[t], i) => SignupExcuses(signup'[t], i) \/ NowKeyed(i)
      BY <2>2, <3>1, <3>2
    <3>4. /\ ~c.ok => accounts' = accounts
          /\ c.ok => \A i \in DOMAIN accounts' : i \in DOMAIN accounts \/ i = Len(accounts')
      BY <3>1, CreateAccountKeeps DEF TablesInv, Plans, Created
    <3>5. c.ok => SignupExcuses(signup'[s], Len(accounts'))
      BY <3>1 DEF SignupsInv, SignupExcuses
    <3>6. \A i \in DOMAIN accounts' \ DOMAIN accounts : Excused(i)'
      BY <3>4, <3>5 DEF Excused, SignupExcuses
    <3> QED
      BY <1>5, <3>3, <3>6
  <2> QED
    BY <1>6, <2>4, <2>5, <2>6
<1>7. ASSUME NEW v \in Callers,
             \/ Present(v) \/ ListHashes(v) \/ Refetch(v)
             \/ MakeKey(v) \/ RevokeKey(v) \/ ReadAccount(v) \/ CallFails(v)
      PROVE  ProvisionInv'
  <2>1. UNCHANGED <<signup, accounts>>
    BY <1>7 DEF Present, ListHashes, Refetch, MakeKey, RevokeKey, ReadAccount, CallFails, tables
  <2> QED
    BY <1>5, <2>1
<1> QED
  BY <1>6, <1>7 DEF Serving, AccountsNext

LEMMA OneHookProvides ==
  ASSUME KeysInv, ProvisionInv, TablesGrow, CustomersStay, NEW e \in Events,
         UNCHANGED <<signup, actors>>,
         NEW q, Hook(e, q), ProvisionOK(e, q, accounts'),
         \A i \in DOMAIN accounts : HookExcuses(hook[e], i) => HookExcuses(q, i) \/ NowKeyed(i),
         \A i \in DOMAIN accounts' \ DOMAIN accounts : HookExcuses(q, i)
  PROVE  ProvisionInv'
<1>1. hook' = [hook EXCEPT ![e] = q]
  BY DEF Hook
<1>2. hook'[e] = q /\ \A d \in Events : d # e => hook'[d] = hook[d]
  BY <1>1 DEF KeysInv
<1>3. ASSUME NEW d \in Events PROVE ProvisionOK(d, hook'[d], accounts')
  <2>1. CASE d = e
    BY <1>2, <2>1
  <2>2. CASE d # e
    BY <1>2, <2>2, ProvisionStays DEF KeysInv, ProvisionInv
  <2> QED
    BY <2>1, <2>2
<1>4. \A d \in Events : \A i \in DOMAIN accounts :
        HookExcuses(hook[d], i) => HookExcuses(hook'[d], i) \/ NowKeyed(i)
  BY <1>2
<1>5. ASSUME NEW i \in DOMAIN accounts' \ DOMAIN accounts PROVE Excused(i)'
  <2>1. HookExcuses(hook'[e], i)
    BY <1>2
  <2> QED
    BY <2>1 DEF Excused, HookExcuses
<1> QED
  BY <1>3, <1>4, <1>5, ExcusesStay DEF ProvisionInv

LEMMA HooksProvide ==
  ASSUME TablesInv, KeysInv, ProvisionInv, TablesGrow, NEW e \in Events,
         \/ Deliver(e) \/ Upsert(e) \/ SetIds(e) \/ IssueKey(e)
         \/ FindCustomer(e) \/ Sync(e) \/ HookFails(e),
         UNCHANGED <<accountVars, actors>>
  PROVE  ProvisionInv'
<1> DEFINE r == hook[e]
<1>1. /\ HookOK(e, r, accounts, keys) /\ ProvisionOK(e, r, accounts)
      /\ UNCHANGED <<signup, actors>> /\ AccountsOK(accounts)
  BY DEF KeysInv, ProvisionInv, TablesInv, accountVars
<1>2. ASSUME UNCHANGED accounts
      PROVE  CustomersStay /\ ProvisionOK(e, r, accounts')
  BY <1>1, <1>2 DEF CustomersStay
<1>3. CASE Deliver(e)
  <2>1. UNCHANGED accounts
    BY <1>3 DEF Deliver, tables
  <2>2. r.status = "idle"
    BY <1>1, <1>3, Delivered
  <2>3. PICK q : /\ Hook(e, q) /\ SameHook(q, r)
                 /\ \/ q.status = "idle"
                    \/ q.status = "upsert" /\ Payload[e].type = "checkout"
                    \/ q.status = "find" /\ Payload[e].type = "subscription"
                 /\ q.failed = r.failed
                 /\ q.acked => r.acked \/ Payload[e].type = "other"
    BY <1>1, <1>3, Delivered
  <2> HIDE DEF r
  <2>4. ProvisionOK(e, q, accounts')
    BY <1>2, <2>1, <2>3 DEF ProvisionOK, SameHook
  <2>5. \A i : HookExcuses(r, i) => HookExcuses(q, i)
    BY <2>2, <2>3 DEF HookExcuses, SameHook
  <2> QED
    BY <1>1, <1>2, <2>1, <2>3, <2>4, <2>5, OneHookProvides DEF r
<1>4. CASE HookFails(e)
  <2>1. UNCHANGED accounts
    BY <1>4 DEF HookFails, tables
  <2>2. PICK q : /\ Hook(e, q) /\ SameHook(q, r) /\ q.status = "idle" /\ q.acked = r.acked
                 /\ q.failed <=> r.failed \/ (r.status \in {"ids", "key"} /\ r.new)
    BY <1>1, <1>4, Failed
  <2> HIDE DEF r
  <2>3. ProvisionOK(e, q, accounts')
    BY <1>1, <1>2, <2>1, <2>2 DEF ProvisionOK, SameHook, HookOK
  <2>4. \A i : HookExcuses(r, i) => HookExcuses(q, i)
    BY <2>2 DEF HookExcuses, SameHook
  <2> QED
    BY <1>1, <1>2, <2>1, <2>2, <2>3, <2>4, OneHookProvides DEF r
<1>5. CASE Upsert(e)
  <2>1. r.status = "upsert"
    BY <1>5 DEF Upsert
  <2>2. PICK q : /\ Hook(e, q) /\ q.status = "ids" /\ q.acked = r.acked /\ q.failed = r.failed
                 /\ q.account \in DOMAIN accounts' /\ accounts'[q.account].email = Payload[e].email
                 /\ \A i \in DOMAIN accounts : accounts'[i] = accounts[i]
                 /\ \A i \in DOMAIN accounts' : i \in DOMAIN accounts \/ (i = q.account /\ q.new)
    BY <1>1, <1>5, Upserted
  <2> HIDE DEF r
  <2>3. CustomersStay
    BY <2>2 DEF CustomersStay
  <2>4. ProvisionOK(e, r, accounts')
    BY <1>1, <2>3, ProvisionStays
  <2>5. ASSUME NEW i \in DOMAIN accounts, HookExcuses(r, i) PROVE HookExcuses(q, i)
    <3>1. r.failed /\ i = r.account
      BY <2>1, <2>5 DEF HookExcuses
    <3>2. accounts'[i].email = Payload[e].email /\ i \in DOMAIN accounts'
      BY <2>4, <3>1 DEF ProvisionOK, TablesGrow, SameAccounts
    <3>3. i = q.account
      BY <2>2, <3>2 DEF TablesGrow, AccountsOK
    <3> QED
      BY <2>2, <3>1, <3>3 DEF HookExcuses
  <2>6. \A i \in DOMAIN accounts' \ DOMAIN accounts : HookExcuses(q, i)
    BY <2>2 DEF HookExcuses
  <2>7. q.account # 0
    BY <2>2, AccountFacts DEF TablesGrow
  <2>8. ProvisionOK(e, q, accounts')
    BY <2>1, <2>2, <2>4, <2>7 DEF ProvisionOK
  <2> QED
    BY <1>1, <2>2, <2>3, <2>5, <2>6, <2>8, OneHookProvides DEF r
<1>6. ASSUME Acknowledge(e), CustomersStay, DOMAIN accounts' = DOMAIN accounts,
             Payload[e].type = "checkout" => Provided(e, accounts'),
             r.status \in {"ids", "key"} /\ r.new => NowKeyed(r.account)
      PROVE  ProvisionInv'
  <2>1. PICK q : Hook(e, q) /\ SameHook(q, r) /\ q.status = "idle" /\ q.failed = r.failed
    BY <1>1, <1>6, Acknowledged
  <2>2. ProvisionOK(e, r, accounts')
    BY <1>1, <1>6, ProvisionStays
  <2>3. ProvisionOK(e, q, accounts')
    BY <1>6, <2>1, <2>2 DEF ProvisionOK, SameHook
  <2>4. \A i : HookExcuses(r, i) => HookExcuses(q, i) \/ NowKeyed(i)
    <3> HIDE DEF r
    <3> QED
      BY <1>6, <2>1 DEF HookExcuses, SameHook
  <2> QED
    BY <1>1, <1>6, <2>1, <2>3, <2>4, OneHookProvides
<1>7. ASSUME NEW a, NEW sub, accounts' = SetAccountStripeIds(accounts, a, Payload[e].customer, sub),
             Payload[e].type \in {"checkout", "subscription"}
      PROVE  /\ CustomersStay /\ DOMAIN accounts' = DOMAIN accounts
             /\ a \in DOMAIN accounts => accounts'[a].customer # None
  <2>1. Payload[e].customer # None
    BY <1>7, BillingAssumption
  <2>2. DOMAIN accounts' = DOMAIN accounts
        /\ \A i \in DOMAIN accounts :
             accounts'[i].customer = IF i = a THEN Payload[e].customer ELSE accounts[i].customer
    BY <1>1, <1>7, SetStripeIdsKeeps
  <2> QED
    BY <2>1, <2>2 DEF CustomersStay
<1>8. CASE SetIds(e)
  <2>1. r.status = "ids" /\ Payload[e].type = "checkout"
        /\ accounts' = SetAccountStripeIds(accounts, r.account, Payload[e].customer,
                                           Payload[e].subscription)
    BY <1>1, <1>8 DEF SetIds, Linked, ProvisionOK
  <2>2. r.account \in DOMAIN accounts /\ accounts[r.account].email = Payload[e].email
    <3> HIDE DEF r
    <3> QED
      BY <1>1, <2>1 DEF HookOK
  <2>3. CustomersStay /\ DOMAIN accounts' = DOMAIN accounts /\ accounts'[r.account].customer # None
    BY <1>7, <2>1, <2>2
  <2>4. accounts'[r.account].email = Payload[e].email
    BY <2>2 DEF TablesGrow, SameAccounts
  <2>5. Provided(e, accounts')
    BY <2>2, <2>3, <2>4 DEF Provided, AccountsOf, Where
  <2>6. CASE ~r.new
    BY <1>6, <1>8, <2>3, <2>5, <2>6 DEF SetIds
  <2>7. CASE r.new
    <3>1. PICK q : /\ Hook(e, q) /\ SameHook(q, r)
                   /\ q.status = "key" /\ q.acked = r.acked /\ q.failed = r.failed
      BY <1>1, <1>8, <2>7, KeyNext
    <3>2. ProvisionOK(e, r, accounts')
      BY <1>1, <2>3, ProvisionStays
    <3>3. ProvisionOK(e, q, accounts')
      BY <2>1, <2>3, <3>1, <3>2 DEF ProvisionOK, SameHook
    <3>4. \A i : HookExcuses(r, i) => HookExcuses(q, i)
      <4> HIDE DEF r
      <4> QED
        BY <2>7, <3>1 DEF HookExcuses, SameHook
    <3> QED
      BY <1>1, <2>3, <3>1, <3>3, <3>4, OneHookProvides
  <2> QED
    BY <2>6, <2>7
<1>9. CASE IssueKey(e)
  <2>1. r.status = "key" /\ keys' = CreateApiKey(keys, r.account, e) /\ accounts' = accounts
        /\ Acknowledge(e)
    BY <1>9 DEF IssueKey
  <2>2. r.account \in DOMAIN accounts /\ accounts[r.account].email = Payload[e].email
    <3> HIDE DEF r
    <3> QED
      BY <1>1, <2>1 DEF HookOK
  <2>3. accounts[r.account].customer # None
    BY <1>1, <2>1 DEF ProvisionOK
  <2>4. Provided(e, accounts')
    BY <2>1, <2>2, <2>3 DEF Provided, AccountsOf, Where
  <2>5. NowKeyed(r.account)
    BY <2>1, CreateKeyKeeps DEF TablesInv, NowKeyed
  <2> QED
    BY <1>2, <1>6, <2>1, <2>4, <2>5
<1>10. CASE FindCustomer(e)
  <2>1. UNCHANGED accounts /\ r.status = "find" /\ Payload[e].type = "subscription"
    BY <1>1, <1>10 DEF FindCustomer, ProvisionOK, tables
  <2>2. CASE Acknowledge(e)
    BY <1>2, <1>6, <2>1, <2>2
  <2>3. CASE ~Acknowledge(e)
    <3>1. PICK q : /\ Hook(e, q) /\ q.status = "sync" /\ q.account \in DOMAIN accounts
                   /\ q.acked = r.acked /\ q.failed = r.failed
      BY <1>1, <1>10, <2>3, CustomerFound
    <3>2. ProvisionOK(e, q, accounts')
      BY <1>1, <2>1, <3>1 DEF ProvisionOK
    <3>3. \A i : ~HookExcuses(r, i)
      BY <1>1, <2>1 DEF ProvisionOK, HookExcuses
    <3> QED
      BY <1>1, <1>2, <2>1, <3>1, <3>2, <3>3, OneHookProvides
  <2> QED
    BY <2>2, <2>3
<1>11. CASE Sync(e)
  <2>1. r.status = "sync" /\ Payload[e].type = "subscription" /\ Acknowledge(e)
        /\ accounts' = SetAccountStripeIds(accounts, r.account, Payload[e].customer,
                                           Payload[e].subscription)
    BY <1>1, <1>11 DEF Sync, ProvisionOK
  <2>2. CustomersStay /\ DOMAIN accounts' = DOMAIN accounts
    BY <1>7, <2>1
  <2> QED
    BY <1>6, <2>1, <2>2
<1> QED
  BY <1>3, <1>4, <1>5, <1>8, <1>9, <1>10, <1>11

LEMMA BillsProvide ==
  ASSUME TablesInv, KeysInv, ProvisionInv, TablesGrow, UNCHANGED <<accountVars, actors>>,
         NEW b \in Bills,
         StartBill(b) \/ ReadUsage(b) \/ PostUsage(b) \/ MarkBilled(b) \/ BillFails(b)
  PROVE  ProvisionInv'
<1>1. UNCHANGED <<hook, signup>>
  BY DEF StartBill, ReadUsage, PostUsage, MarkBilled, BillFails, Bill, accountVars
<1>2. CustomersStay /\ DOMAIN accounts' = DOMAIN accounts
  <2>1. CASE UNCHANGED accounts
    BY <2>1 DEF CustomersStay
  <2>2. CASE MarkBilled(b)
    <3>1. bill[b].to \in Int
      BY DEF TablesInv, BillsOK, BillOK
    <3> QED
      BY <2>2, <3>1, SetBilledKeeps DEF MarkBilled, TablesInv, CustomersStay
  <2> QED
    BY <2>1, <2>2 DEF StartBill, ReadUsage, PostUsage, BillFails, tables
<1>3. \A e \in Events : ProvisionOK(e, hook[e], accounts')
  BY <1>2, ProvisionStays DEF ProvisionInv, KeysInv
<1> QED
  BY <1>1, <1>2, <1>3, ExcusesStay DEF ProvisionInv

LEMMA ProvisionInvHolds == CloudSpec => []ProvisionInv
<1>1. CloudInit => ProvisionInv
  <2> SUFFICES ASSUME CloudInit PROVE ProvisionInv
    OBVIOUS
  <2>1. PICK scene \in Scenes : TablesInit(scene)
    BY DEF CloudInit
  <2>2. \A i \in DOMAIN accounts : Keyless(i) => WasKeyless(i)
    BY <2>1 DEF TablesInit, Keyless, WasKeyless
  <2>3. hook = [e \in Events |-> Undelivered]
    BY DEF CloudInit, BillingInit
  <2>4. \A e \in Events : ProvisionOK(e, hook[e], accounts)
    BY <2>3 DEF ProvisionOK, Undelivered
  <2> QED
    BY <2>2, <2>4 DEF ProvisionInv, Excused
<1>2. TablesInv /\ SignupsInv /\ KeysInv /\ ProvisionInv /\ [CloudNext]_cloudVars => ProvisionInv'
  <2> SUFFICES ASSUME TablesInv, SignupsInv, KeysInv, ProvisionInv, [CloudNext]_cloudVars
               PROVE  ProvisionInv'
    OBVIOUS
  <2>1. TablesGrow
    BY EachStepGrows
  <2>2. CASE Others
    <3>1. UNCHANGED <<actors, accounts, keys, signup, hook>>
      BY <2>2, OthersFrame DEF accountVars, billingVars
    <3> QED
      BY <3>1 DEF ProvisionInv, ProvisionOK, Provided, Keyless, Excused, WasKeyless
  <2>3. CASE Serving
    BY <2>1, <2>3, SignupsProvide
  <2>4. CASE Charging
    BY <2>1, <2>4, ChargingFrame, HooksProvide, BillsProvide DEF Charging, BillingNext
  <2> QED
    BY <2>2, <2>3, <2>4 DEF CloudNext, Others
<1> QED
  BY <1>1, <1>2, TablesInvHolds, SignupsInvHolds, KeysInvHolds, PTL DEF CloudSpec

(* Through lost answers, failures, second deliveries and sign-ups with the *)
(* same email: a checkout that Stripe knows to be processed has an account *)
(* with its email and with a customer; and that account lacks a key only   *)
(* because of a sign-up or a delivery that failed, or is under way.        *)
THEOREM CheckoutsAreProvided == CloudSpec => []CheckoutsProvision
<1>1. ProvisionInv => CheckoutsProvision
  <2> SUFFICES ASSUME ProvisionInv, NEW e \in Events, Payload[e].type = "checkout", hook[e].acked
               PROVE  \E i \in AccountsOf(accounts, Payload[e].email) :
                        accounts[i].customer # None /\ (Keyless(i) => Excused(i))
    BY DEF CheckoutsProvision
  <2>1. PICK i \in AccountsOf(accounts, Payload[e].email) : accounts[i].customer # None
    BY DEF ProvisionInv, ProvisionOK, Provided
  <2>2. i \in DOMAIN accounts
    BY DEF AccountsOf, Where
  <2> QED
    BY <2>1, <2>2 DEF ProvisionInv
<1> QED
  BY <1>1, ProvisionInvHolds, PTL

----------------------------------------------------------------------------
(* Bills: what a mark rests on, and what a charge is of.  The predicates    *)
(* are of the tables they are given, u of usage, t of accounts and c of    *)
(* charges, so that a step from one set of tables to the next is a lemma   *)
(* of each.                                                                *)
DayApart(x, y) == x.at - y.at >= DayLength \/ y.at - x.at >= DayLength

TotalOK(x, u) ==
  /\ x.from \in Int /\ x.to \in Int /\ x.total \in Int
  /\ UsageOK(x.before) /\ UsageGrows(x.before, u)
  /\ AccountUsageInRange(x.before, x.account, x.from, x.to) <= x.total
  /\ x.total <= AccountUsageInRange(u, x.account, x.from, x.to)

Over(x, t) == x.total - Included[t[x.account].plan]
Covers(units, n) == n > 0 /\ n \in (units - 1) * UnitSize + 1 .. units * UnitSize

MarkOK(m, u, t, c) ==
  /\ TotalOK(m, u) /\ m.account \in DOMAIN t
  /\ Over(m, t) > 0 => \E x \in c : RestsOn(m, x)

ChargeOK(x, u, t, n) ==
  /\ TotalOK(x, u) /\ x.account \in DOMAIN t
  /\ Covers(x.units, Over(x, t))
  /\ x.key = <<x.account, x.to>> /\ x.at \in Nat /\ x.at <= n

(* What a call in the state r would mark the account as                    *)
MarkOf(b, r) ==
  [account |-> r.next, from |-> r.from, to |-> r.to, by |-> b,
   before |-> r.before, total |-> r.total, posted |-> r.posted]

(* A call has charged the accounts before the one it is at, and that one   *)
(* only if it is past the post.                                            *)
CallOK(b, r, u, t, c) ==
  /\ UsageGrows(r.before, u)
  /\ \A i \in DOMAIN r.list : i \in DOMAIN t /\ t[i].plan = r.list[i].plan
  /\ \A x \in c : x.by = b =>
       /\ r.status # "idle" /\ x.account <= r.next
       /\ r.status \in {"read", "post"} => x.account # r.next
  /\ r.status \in {"post", "mark"} => TotalOK(MarkOf(b, r), u)
  /\ r.status = "post" => Covers(r.units, Over(MarkOf(b, r), t))
  /\ r.status = "mark" => MarkOK(MarkOf(b, r), u, t, c)

ChargeInv ==
  /\ \A i \in DOMAIN accounts :
       accounts[i].billed = NeverBilled \/ \E m \in marked : m.account = i /\ m.to = accounts[i].billed
  /\ \A b \in Bills : CallOK(b, bill[b], usage, accounts, charges)
  /\ \A m \in marked : MarkOK(m, usage, accounts, charges)
  /\ \A x \in charges : ChargeOK(x, usage, accounts, now)
  /\ \A x, y \in charges : x # y /\ x.account = y.account /\ x.to = y.to => DayApart(x, y)

PlansStay(t, s) == \A i \in DOMAIN t : i \in DOMAIN s /\ s[i].plan = t[i].plan

LEMMA UnitsCover ==
  ASSUME NEW n \in Nat
  PROVE  /\ Units(n) \in Nat /\ (Units(n) = 0 => n = 0)
         /\ n \in (Units(n) - 1) * UnitSize + 1 .. Units(n) * UnitSize
<1> DEFINE U == UnitSize
           m == n + U - 1
           q == m \div U
<1>1. U \in Nat \ {0} /\ m \in Nat
  BY BillingAssumption
<1>2. m = n + U - 1
  OBVIOUS
<1> HIDE DEF m, U
<1>3. q \in Nat
  BY <1>1
<1>4. m = U * q + (m % U) /\ m % U \in 0 .. U - 1
  BY <1>1
<1> HIDE DEF q
<1>5. U * q \in Int /\ (q - 1) * U = U * q - U /\ q * U = U * q /\ m % U \in Int
  BY <1>1, <1>3, <1>4
<1>6. n \in (q - 1) * U + 1 .. q * U
  BY <1>1, <1>2, <1>3, <1>4, <1>5
<1>7. q = 0 => n = 0
  BY <1>1, <1>2, <1>4, <1>5
<1>8. Units(n) = q
  BY DEF Units, q, m, U
<1> QED
  BY <1>3, <1>6, <1>7, <1>8 DEF U

LEMMA NoUnits == Units(0) = 0
<1> DEFINE U == UnitSize
<1>1. U \in Nat \ {0}
  BY BillingAssumption
<1>2. Units(0) = (U - 1) \div U
  BY <1>1 DEF Units
<1> HIDE DEF U
<1> QED
  BY <1>1, <1>2

LEMMA UsedIsRange ==
  ASSUME NEW u, UsageOK(u), NEW i, NEW from \in Int, NEW to \in Int
  PROVE  Used(u, i, from, to) = AccountUsageInRange(u, i, from, to)
<1> DEFINE S == {k \in DOMAIN u : k[1] = i /\ k[2] \in from .. to - 1}
<1>1. \A k \in DOMAIN u : k[2] \in Nat
  BY DEF UsageOK
<1>2. S = Days(u, i, from, to)
  BY <1>1 DEF Days
<1>3. Used(u, i, from, to) = SumOver(u, S)
  BY DEF Used
<1> QED
  BY <1>2, <1>3 DEF AccountUsageInRange

LEMMA GrowsOn ==
  ASSUME NEW u, NEW v, NEW w, UsageOK(u), UsageOK(v), UsageOK(w), UsageGrows(u, v), UsageGrows(v, w)
  PROVE  UsageGrows(u, w)
<1>1. ASSUME NEW k \in DOMAIN u PROVE k \in DOMAIN w /\ u[k] <= w[k]
  <2>1. k \in DOMAIN v /\ u[k] <= v[k] /\ k \in DOMAIN w /\ v[k] <= w[k]
    BY DEF UsageGrows
  <2>2. u[k] \in Nat /\ v[k] \in Nat /\ w[k] \in Nat
    BY <2>1 DEF UsageOK
  <2> QED
    BY <2>1, <2>2
<1> QED
  BY <1>1 DEF UsageGrows

LEMMA TotalStays ==
  ASSUME NEW x, NEW u, NEW v, UsageOK(u), UsageOK(v), UsageGrows(u, v), TotalOK(x, u)
  PROVE  TotalOK(x, v)
<1> DEFINE m == AccountUsageInRange(u, x.account, x.from, x.to)
           n == AccountUsageInRange(v, x.account, x.from, x.to)
<1>1. m <= n /\ m \in Nat /\ n \in Nat
  BY RangeGrows, RangeIsNat
<1>2. UsageGrows(x.before, v)
  BY GrowsOn DEF TotalOK
<1>3. x.total \in Int /\ x.total <= m
  BY DEF TotalOK
<1> HIDE DEF m, n
<1>4. x.total <= n
  BY <1>1, <1>3
<1> QED
  BY <1>2, <1>4 DEF TotalOK, n

LEMMA MarkStays ==
  ASSUME NEW m, NEW u, NEW v, NEW t, NEW s, NEW c, NEW d, MarkOK(m, u, t, c),
         UsageOK(u), UsageOK(v), UsageGrows(u, v), PlansStay(t, s), c \subseteq d
  PROVE  MarkOK(m, v, s, d)
<1>1. TotalOK(m, v)
  BY TotalStays DEF MarkOK
<1>2. m.account \in DOMAIN s /\ Over(m, s) = Over(m, t)
  BY DEF MarkOK, PlansStay, Over
<1> QED
  BY <1>1, <1>2 DEF MarkOK

LEMMA ChargeStays ==
  ASSUME NEW x, NEW u, NEW v, NEW t, NEW s, NEW n \in Int, NEW k \in Int, ChargeOK(x, u, t, n),
         UsageOK(u), UsageOK(v), UsageGrows(u, v), PlansStay(t, s), n <= k
  PROVE  ChargeOK(x, v, s, k)
<1>1. TotalOK(x, v)
  BY TotalStays DEF ChargeOK
<1>2. x.account \in DOMAIN s /\ Over(x, s) = Over(x, t)
  BY DEF ChargeOK, PlansStay, Over
<1>3. x.at <= k
  BY DEF ChargeOK
<1> QED
  BY <1>1, <1>2, <1>3 DEF ChargeOK

LEMMA CallStays ==
  ASSUME NEW b, NEW r, BillOK(r), NEW u, NEW v, NEW t, NEW s, NEW c, NEW d, CallOK(b, r, u, t, c),
         UsageOK(u), UsageOK(v), UsageGrows(u, v), PlansStay(t, s), c \subseteq d,
         \A x \in d : x \in c \/ x.by # b
  PROVE  CallOK(b, r, v, s, d)
<1> DEFINE m == MarkOf(b, r)
<1>1. UsageGrows(r.before, v)
  BY GrowsOn DEF CallOK, BillOK
<1>2. \A i \in DOMAIN r.list : i \in DOMAIN s /\ s[i].plan = r.list[i].plan
  BY DEF CallOK, PlansStay
<1>3. m.account = r.next
  BY DEF MarkOf
<1> HIDE DEF m
<1>4. r.status \in {"post", "mark"} => TotalOK(m, v)
  BY TotalStays DEF CallOK, m
<1>5. r.status = "mark" => MarkOK(m, v, s, d)
  BY MarkStays DEF CallOK, m
<1>6. r.status = "post" => Over(m, s) = Over(m, t)
  <2>1. r.status = "post" => r.next \in DOMAIN r.list
    BY AccountFacts DEF BillOK
  <2>2. r.status = "post" => r.next \in DOMAIN t
    BY <2>1 DEF CallOK
  <2> QED
    BY <1>3, <2>2 DEF PlansStay, Over
<1> QED
  BY <1>1, <1>2, <1>4, <1>5, <1>6 DEF CallOK, m

(* What is left of a call's promise when it goes on to the next account    *)
LEMMA NextCallOK ==
  ASSUME NEW b, NEW r, BillOK(r), NEW u, NEW t, NEW c,
         UsageGrows(r.before, u),
         \A i \in DOMAIN r.list : i \in DOMAIN t /\ t[i].plan = r.list[i].plan,
         \A x \in c : x.account \in Nat,
         \A x \in c : x.by = b => x.account <= r.next
  PROVE  CallOK(b, Next1(r), u, t, c)
<1> DEFINE q == Next1(r)
<1>1. /\ q.before = r.before /\ q.list = r.list
      /\ \/ q.status = "200" /\ q.next = r.next
         \/ q.status = "read" /\ q.next = r.next + 1
  BY DEF Next1, BillOK, BillColumns
<1> HIDE DEF q
<1>2. r.next \in Nat
  BY AccountFacts DEF BillOK
<1>3. ASSUME NEW x \in c, x.by = b
      PROVE  /\ q.status # "idle" /\ x.account <= q.next
             /\ q.status \in {"read", "post"} => x.account # q.next
  <2>1. x.account \in Nat /\ x.account <= r.next
    BY <1>3
  <2> QED
    BY <1>1, <1>2, <2>1
<1> QED
  BY <1>1, <1>3 DEF CallOK, q

(* An account that is there stays billed as it is, and a new one never was.*)
BilledStay ==
  \A i \in DOMAIN accounts' :
    \/ i \in DOMAIN accounts /\ accounts'[i].billed = accounts[i].billed
    \/ accounts'[i].billed = NeverBilled

LEMMA OthersKeepBilled ==
  ASSUME TablesInv, Others \/ Serving
  PROVE  BilledStay
<1>1. ASSUME UNCHANGED accounts PROVE BilledStay
  BY <1>1 DEF BilledStay
<1>2. CASE Others
  BY <1>1, <1>2, OthersFrame
<1>3. ASSUME NEW s \in Signups, MakeAccount(s)
      PROVE  BilledStay
  <2> DEFINE x == NewAccount(EmailOf[s], "team", s)
  <2>1. CASE AccountsOf(accounts, EmailOf[s]) # {}
    BY <1>1, <1>3, <2>1 DEF MakeAccount, Created, CreateAccount
  <2>2. CASE AccountsOf(accounts, EmailOf[s]) = {}
    <3>1. accounts' = Append(accounts, x)
      BY <1>3, <2>2 DEF MakeAccount, Created, CreateAccount
    <3>2. AccountsOK(accounts) /\ "team" \in Plans
      BY DEF TablesInv, Plans
    <3>3. /\ \A i \in DOMAIN accounts : accounts'[i] = accounts[i]
          /\ \A i \in DOMAIN accounts' : i \in DOMAIN accounts \/ i = Len(accounts) + 1
          /\ accounts'[Len(accounts) + 1] = x
      BY <2>2, <3>1, <3>2, NewAccountKeeps
    <3>4. x.billed = NeverBilled
      BY DEF NewAccount
    <3> QED
      BY <3>3, <3>4 DEF BilledStay
  <2> QED
    BY <2>1, <2>2
<1>4. ASSUME NEW s \in Signups, Begin(s) \/ FindEmail(s) \/ MakeFirstKey(s) \/ SignupFails(s)
      PROVE  BilledStay
  BY <1>1, <1>4 DEF Begin, FindEmail, MakeFirstKey, SignupFails, tables
<1>5. ASSUME NEW v \in Callers,
             \/ Present(v) \/ ListHashes(v) \/ Refetch(v)
             \/ MakeKey(v) \/ RevokeKey(v) \/ ReadAccount(v) \/ CallFails(v)
      PROVE  BilledStay
  BY <1>1, <1>5 DEF Present, ListHashes, Refetch, MakeKey, RevokeKey, ReadAccount, CallFails, tables
<1> QED
  BY <1>2, <1>3, <1>4, <1>5 DEF Serving, AccountsNext

LEMMA HooksKeepBilled ==
  ASSUME TablesInv, NEW e \in Events,
         \/ Deliver(e) \/ Upsert(e) \/ SetIds(e) \/ IssueKey(e)
         \/ FindCustomer(e) \/ Sync(e) \/ HookFails(e)
  PROVE  BilledStay /\ UNCHANGED <<bill, charges, marked>>
<1>1. UNCHANGED <<bill, charges, marked>>
  BY DEF Deliver, Upsert, SetIds, IssueKey, FindCustomer, Sync, HookFails, Refuse, Route,
         Acknowledge, Hook
<1>2. CASE UNCHANGED accounts
  BY <1>1, <1>2 DEF BilledStay
<1>3. CASE Upsert(e)
  <2> DEFINE c == UpsertAccountByEmail(accounts, Payload[e].email, "team")
             u == c.accounts
  <2>1. accounts' = u
    BY <1>3 DEF Upsert
  <2>2. AccountsOK(accounts) /\ "team" \in Plans
    BY DEF TablesInv, Plans
  <2>3. /\ \A i \in DOMAIN accounts : u[i] = accounts[i]
        /\ \A i \in DOMAIN u : \/ i \in DOMAIN accounts
                               \/ u[i] = NewAccount(Payload[e].email, "team", None)
    BY <2>2, UpsertAccountKeeps
  <2> HIDE DEF u
  <2>4. BilledStay
    BY <2>1, <2>3 DEF BilledStay, NewAccount
  <2> QED
    BY <1>1, <2>4
<1>4. CASE SetIds(e) \/ Sync(e)
  <2>1. \E a, c, sub : accounts' = SetAccountStripeIds(accounts, a, c, sub)
    BY <1>4 DEF SetIds, Sync, Linked
  <2>2. BilledStay
    BY <2>1, SetStripeIdsKeeps DEF BilledStay, TablesInv
  <2> QED
    BY <1>1, <2>2
<1> QED
  BY <1>2, <1>3, <1>4 DEF Deliver, IssueKey, FindCustomer, HookFails, tables

(* Usage only grows, and plans stay.                                       *)
LEMMA CloudGrows ==
  ASSUME TablesInv, TablesInv', [CloudNext]_cloudVars
  PROVE  /\ UsageGrows(usage, usage') /\ PlansStay(accounts, accounts')
         /\ now \in Int /\ now' \in Int /\ now <= now'
<1>1. UsageOK(usage) /\ UsageOK(usage') /\ now \in Nat /\ now' \in Nat
  BY DEF TablesInv, DataOK
<1>2. PlansStay(accounts, accounts')
  BY EachStepGrows DEF TablesGrow, SameAccounts, PlansStay
<1>3. ASSUME UNCHANGED usage PROVE UsageGrows(usage, usage')
  BY <1>1, <1>3 DEF UsageGrows, UsageOK
<1>4. CASE Ingesting
  <2>1. IngestNext /\ now' = now
    BY <1>4, IngestingFrame DEF Ingesting
  <2>2. ASSUME NEW k \in Clients, Emit(k) \/ Return(k) \/ Rejected(k) \/ TryAgain(k) \/ GiveUp(k)
        PROVE  UNCHANGED usage
    BY <2>2 DEF Emit, Return, Rejected, TryAgain, GiveUp, Send, Settle, tables
  <2>3. ASSUME NEW r \in Posted,
               \/ TryExists(r) \/ Create(r) \/ Write(r) \/ Rename(r) \/ RenameFails(r)
               \/ Insert(r) \/ Select(r) \/ Fail(r)
        PROVE  UNCHANGED usage
    BY <2>3 DEF TryExists, Create, Write, Rename, RenameFails, Insert, Select, Fail, tables
  <2>4. ASSUME NEW r \in Posted, Meter(r)
        PROVE  UsageGrows(usage, usage')
    <3>1. usage' = RecordUsage(usage, Account(r), at[r])
      BY <2>4 DEF Meter, ReceivedAt
    <3>2. Account(r) \in Nat /\ at[r] \in Nat
      BY PostedFacts DEF TablesInv, DataOK
    <3> QED
      BY <1>1, <3>1, <3>2, RecordUsageCounts
  <2> QED
    BY <1>1, <1>3, <2>1, <2>2, <2>3, <2>4, <1>2 DEF IngestNext
<1>5. CASE ~Ingesting
  <2>1. UNCHANGED usage /\ (now' = now \/ now' = now + 1)
    BY <1>5, SweepingFrame, ReadingFrame, ServingFrame, ChargingFrame, TickingFrame
       DEF CloudNext, cloudVars, tables
  <2> QED
    BY <1>1, <1>2, <1>3, <2>1
<1> QED
  BY <1>4, <1>5

(* A step that makes no charge and marks no account                        *)
LEMMA SettledSteps ==
  ASSUME TablesInv, TablesInv', [CloudNext]_cloudVars, ChargeInv, BilledStay,
         UNCHANGED <<bill, charges, marked>>
  PROVE  ChargeInv'
<1>1. /\ UsageOK(usage) /\ UsageOK(usage') /\ \A b \in Bills : BillOK(bill[b])
      /\ UsageGrows(usage, usage') /\ PlansStay(accounts, accounts')
      /\ now \in Int /\ now' \in Int /\ now <= now'
  BY CloudGrows DEF TablesInv, DataOK, BillsOK
<1>2. \A i \in DOMAIN accounts' :
        accounts'[i].billed = NeverBilled
          \/ \E m \in marked' : m.account = i /\ m.to = accounts'[i].billed
  BY DEF ChargeInv, BilledStay
<1>3. \A b \in Bills : CallOK(b, bill'[b], usage', accounts', charges')
  BY <1>1, CallStays DEF ChargeInv
<1>4. \A m \in marked' : MarkOK(m, usage', accounts', charges')
  BY <1>1, MarkStays DEF ChargeInv
<1>5. \A x \in charges' : ChargeOK(x, usage', accounts', now')
  BY <1>1, ChargeStays DEF ChargeInv
<1>6. \A x, y \in charges' : x # y /\ x.account = y.account /\ x.to = y.to => DayApart(x, y)
  BY DEF ChargeInv
<1> QED
  BY <1>2, <1>3, <1>4, <1>5, <1>6 DEF ChargeInv, DayApart

(* A step of one call that makes no charge and marks no account            *)
LEMMA OneCallOK ==
  ASSUME TablesInv, ChargeInv, NEW b \in Bills, NEW q, Bill(b, q),
         UNCHANGED <<usage, accounts, charges, marked, now>>,
         CallOK(b, q, usage, accounts, charges)
  PROVE  ChargeInv'
<1>1. bill'[b] = q /\ \A c \in Bills : c # b => bill'[c] = bill[c]
  BY DEF Bill, TablesInv, BillsOK
<1>2. \A c \in Bills : CallOK(c, bill'[c], usage', accounts', charges')
  BY <1>1 DEF ChargeInv
<1> QED
  BY <1>2 DEF ChargeInv, DayApart

LEMMA StartKeeps ==
  ASSUME TablesInv, ChargeInv, UNCHANGED <<usage, now>>, NEW b \in Bills, StartBill(b)
  PROVE  ChargeInv'
<1>1. UNCHANGED <<accounts, charges, marked>> /\ bill[b].status = "idle"
  BY DEF StartBill, tables
<1>2. /\ UsageOK(usage) /\ AccountsOK(accounts) /\ now \in Nat
      /\ \A x \in charges : x.account \in Nat /\ x.by # b
  <2>1. \A x \in charges : x.account \in DOMAIN accounts
    BY DEF ChargeInv, ChargeOK
  <2>2. \A x \in charges : x.by # b
    BY <1>1 DEF ChargeInv, CallOK
  <2> QED
    BY <2>1, <2>2, AccountFacts DEF TablesInv, DataOK
<1>3. PICK p \in Periods :
        Bill(b, IF Invalid(p) THEN [Unasked EXCEPT !.status = "400"]
                ELSE Next1([Unasked EXCEPT !.list = accounts, !.from = ResolvePeriod(p)[1],
                                           !.to = ResolvePeriod(p)[2], !.before = usage]))
  BY DEF StartBill
<1>4. CASE Invalid(p)
  <2> DEFINE q == [Unasked EXCEPT !.status = "400"]
  <2>1. q.status = "400" /\ q.list = <<>> /\ q.before = <<>>
    BY DEF Unasked
  <2>2. Bill(b, q)
    BY <1>3, <1>4
  <2> HIDE DEF q
  <2>3. DOMAIN <<>> = {}
    OBVIOUS
  <2>4. CallOK(b, q, usage, accounts, charges)
    BY <1>2, <2>1, <2>3 DEF CallOK, UsageGrows
  <2> QED
    BY <1>1, <2>2, <2>4, OneCallOK
<1>5. CASE ~Invalid(p)
  <2> DEFINE f == ResolvePeriod(p)[1]
             u == ResolvePeriod(p)[2]
             r == [Unasked EXCEPT !.list = accounts, !.from = f, !.to = u, !.before = usage]
  <2>1. f \in Int /\ u \in Int
    BY <1>2, <1>5, PeriodIsDays
  <2>2. Bill(b, Next1(r))
    BY <1>3, <1>5
  <2> HIDE DEF f, u
  <2>3. BillOK(r)
    BY <1>2, <2>1, AccountFacts DEF BillOK, BillColumns, Unasked
  <2>4. r.before = usage /\ r.list = accounts
    BY DEF Unasked
  <2> HIDE DEF r
  <2>5. UsageGrows(r.before, usage)
    BY <1>2, <2>4 DEF UsageGrows, UsageOK
  <2>6. CallOK(b, Next1(r), usage, accounts, charges)
    BY <1>2, <2>3, <2>4, <2>5, NextCallOK
  <2> HIDE DEF Next1
  <2> QED
    BY <1>1, <2>2, <2>6, OneCallOK
<1> QED
  BY <1>4, <1>5

LEMMA ReadKeeps ==
  ASSUME TablesInv, ChargeInv, UNCHANGED <<usage, now>>, NEW b \in Bills, ReadUsage(b)
  PROVE  ChargeInv'
<1> DEFINE r == bill[b]
           a == r.list[r.next]
           total == AccountUsageInRange(usage, r.next, r.from, r.to)
           over == Overage(total, a.plan)
           units == Units(over)
           q == [r EXCEPT !.status = IF units = 0 THEN "mark" ELSE "post",
                          !.total = total, !.units = units]
           m == MarkOf(b, q)
<1>1. /\ UNCHANGED <<accounts, charges, marked>> /\ r.status = "read"
      /\ Bill(b, Next1(r)) \/ Bill(b, q)
  BY DEF ReadUsage, tables
<1>2. /\ BillOK(r) /\ UsageOK(usage) /\ CallOK(b, r, usage, accounts, charges)
      /\ \A x \in charges : x.account \in Nat
  <2>1. \A x \in charges : x.account \in DOMAIN accounts
    BY DEF ChargeInv, ChargeOK
  <2> QED
    BY <2>1, AccountFacts DEF TablesInv, DataOK, BillsOK, ChargeInv
<1>3. r.next \in DOMAIN r.list /\ a.plan \in Plans
  BY <1>1, <1>2, AccountFacts DEF BillOK, AccountsOK
<1>4. total \in Nat /\ Included[a.plan] \in Nat
  BY <1>2, <1>3, RangeIsNat, CloudTypesAssumption
<1>5. r.next \in DOMAIN accounts /\ accounts[r.next].plan = a.plan
  BY <1>2, <1>3 DEF CallOK
<1>6. CASE Bill(b, Next1(r))
  <2>1. CallOK(b, Next1(r), usage, accounts, charges)
    <3> HIDE DEF r
    <3> QED
      BY <1>2, NextCallOK DEF CallOK
  <2> QED
    BY <1>1, <1>6, <2>1, OneCallOK
<1>7. CASE Bill(b, q)
  <2>1. over \in Nat /\ over = IF total > Included[a.plan] THEN total - Included[a.plan] ELSE 0
    BY <1>4 DEF Overage
  <2> HIDE DEF over
  <2>2. /\ units \in Nat /\ (units = 0 => over = 0)
        /\ over \in (units - 1) * UnitSize + 1 .. units * UnitSize
    BY <2>1, UnitsCover
  <2>3. AccountUsageInRange(r.before, r.next, r.from, r.to) <= total
    BY <1>2, RangeGrows DEF CallOK, BillOK
  <2> HIDE DEF units, total, a, r
  <2>4. /\ q.status = IF units = 0 THEN "mark" ELSE "post"
        /\ q.total = total /\ q.units = units /\ q.list = r.list /\ q.next = r.next
        /\ q.from = r.from /\ q.to = r.to /\ q.before = r.before
    BY <1>2 DEF BillOK, BillColumns
  <2> HIDE DEF q
  <2>5. /\ m.account = r.next /\ m.from = r.from /\ m.to = r.to
        /\ m.before = r.before /\ m.total = total
    BY <2>4 DEF MarkOf
  <2> HIDE DEF m
  <2>6. total <= AccountUsageInRange(usage, r.next, r.from, r.to)
    BY <1>4 DEF total, r
  <2>7. TotalOK(m, usage)
    BY <1>2, <1>4, <2>3, <2>5, <2>6 DEF TotalOK, BillOK, CallOK
  <2>8. Over(m, accounts) = total - Included[a.plan]
    BY <1>5, <2>5 DEF Over
  <2>9. units # 0 => Covers(units, Over(m, accounts))
    <3>1. CASE total > Included[a.plan]
      BY <1>4, <2>1, <2>2, <2>8, <3>1 DEF Covers
    <3>2. CASE ~(total > Included[a.plan])
      <4>1. over = 0
        BY <2>1, <3>2
      <4>2. units = 0
        BY <4>1, NoUnits DEF units
      <4> QED
        BY <4>2
    <3> QED
      BY <3>1, <3>2
  <2>10. units = 0 => MarkOK(m, usage, accounts, charges)
    <3>1. units = 0 => ~(Over(m, accounts) > 0)
      BY <1>4, <2>1, <2>2, <2>8
    <3> QED
      BY <1>5, <2>5, <2>7, <3>1 DEF MarkOK
  <2>11. \A x \in charges : x.by = b => x.account <= q.next /\ x.account # q.next
    BY <1>1, <1>2, <2>4 DEF CallOK
  <2>12. CallOK(b, q, usage, accounts, charges)
    BY <1>2, <2>4, <2>7, <2>9, <2>10, <2>11 DEF CallOK, m
  <2> QED
    BY <1>1, <1>7, <2>12, OneCallOK
<1> QED
  BY <1>1, <1>6, <1>7

LEMMA BillFailsKeeps ==
  ASSUME TablesInv, ChargeInv, UNCHANGED <<usage, now>>, NEW b \in Bills, BillFails(b)
  PROVE  ChargeInv'
<1> DEFINE r == bill[b]
           q == [r EXCEPT !.status = "500"]
<1>1. UNCHANGED <<accounts, charges, marked>> /\ Bill(b, q)
  BY DEF BillFails, tables
<1>2. BillOK(r) /\ CallOK(b, r, usage, accounts, charges)
  BY DEF TablesInv, BillsOK, ChargeInv
<1>3. q.status = "500" /\ q.before = r.before /\ q.list = r.list /\ q.next = r.next
  BY <1>2 DEF BillOK, BillColumns
<1> HIDE DEF q, r
<1>4. CallOK(b, q, usage, accounts, charges)
  BY <1>2, <1>3 DEF CallOK
<1> QED
  BY <1>1, <1>4, OneCallOK

(* The account is billed through the end of the call's period, and the     *)
(* call's mark says so.                                                    *)
LEMMA MarkKeeps ==
  ASSUME TablesInv, TablesInv', [CloudNext]_cloudVars, ChargeInv, UNCHANGED <<usage, now>>,
         NEW b \in Bills, MarkBilled(b)
  PROVE  ChargeInv'
<1> DEFINE r == bill[b]
           m == MarkOf(b, r)
<1>1. /\ r.status = "mark" /\ accounts' = SetBilledThrough(accounts, r.next, r.to)
      /\ Bill(b, Next1(r)) /\ charges' = charges
  BY DEF MarkBilled
<1>2. marked' = marked \cup {m}
  BY DEF MarkBilled, Marking, MarkOf
<1>3. BillOK(r) /\ AccountsOK(accounts) /\ r.to \in Int /\ UsageOK(usage) /\ UsageOK(usage')
  BY DEF TablesInv, BillsOK, BillOK, DataOK
<1>4. DOMAIN accounts' = DOMAIN accounts
      /\ \A i \in DOMAIN accounts : accounts'[i].billed = IF i = r.next THEN r.to ELSE accounts[i].billed
  BY <1>1, <1>3, SetBilledKeeps
<1>5. /\ UsageGrows(usage, usage') /\ PlansStay(accounts, accounts')
      /\ now \in Int /\ now' \in Int /\ now <= now'
  BY CloudGrows
<1>6. m.account = r.next /\ m.to = r.to
  BY DEF MarkOf
<1>7. CallOK(b, r, usage, accounts, charges)
  BY DEF ChargeInv
<1>8. MarkOK(m, usage, accounts, charges)
  BY <1>1, <1>7 DEF CallOK
<1>9. bill'[b] = Next1(r) /\ \A c \in Bills : c # b => bill'[c] = bill[c]
  BY <1>1 DEF Bill, TablesInv, BillsOK
<1>10. \A x \in charges : x.account \in Nat
  <2>1. \A x \in charges : x.account \in DOMAIN accounts
    BY DEF ChargeInv, ChargeOK
  <2> QED
    BY <1>3, <2>1, AccountFacts
<1>11. CallOK(b, Next1(r), usage', accounts', charges')
  <2>1. \A i \in DOMAIN r.list : i \in DOMAIN accounts' /\ accounts'[i].plan = r.list[i].plan
    BY <1>5, <1>7 DEF CallOK, PlansStay
  <2>2. UsageGrows(r.before, usage')
    BY <1>7 DEF CallOK
  <2>3. \A x \in charges : x.by = b => x.account <= r.next
    BY <1>7 DEF CallOK
  <2> HIDE DEF r
  <2>4. CallOK(b, Next1(r), usage', accounts', charges)
    BY <1>3, <1>10, <2>1, <2>2, <2>3, NextCallOK
  <2> QED
    BY <1>1, <2>4
<1> HIDE DEF m, r, Next1
<1>12. \A i \in DOMAIN accounts' :
         accounts'[i].billed = NeverBilled
           \/ \E n \in marked' : n.account = i /\ n.to = accounts'[i].billed
  BY <1>2, <1>4, <1>6 DEF ChargeInv
<1>13. ASSUME NEW c \in Bills PROVE CallOK(c, bill'[c], usage', accounts', charges')
  <2>1. CASE c = b
    BY <1>9, <1>11, <2>1
  <2>2. CASE c # b
    <3>1. bill'[c] = bill[c] /\ BillOK(bill[c])
      BY <1>9, <2>2 DEF TablesInv, BillsOK
    <3> QED
      BY <1>1, <1>3, <1>5, <3>1, CallStays DEF ChargeInv
  <2> QED
    BY <2>1, <2>2
<1>14. \A n \in marked' : MarkOK(n, usage', accounts', charges')
  BY <1>1, <1>2, <1>3, <1>5, <1>8, MarkStays DEF ChargeInv
<1>15. \A x \in charges' : ChargeOK(x, usage', accounts', now')
  BY <1>1, <1>3, <1>5, ChargeStays DEF ChargeInv
<1>16. \A x, y \in charges' : x # y /\ x.account = y.account /\ x.to = y.to => DayApart(x, y)
  BY <1>1 DEF ChargeInv
<1> QED
  BY <1>12, <1>13, <1>14, <1>15, <1>16 DEF ChargeInv, DayApart

(* Stripe remembers a charge of another call, or makes one of this call.   *)
LEMMA PostKeeps ==
  ASSUME TablesInv, ChargeInv, UNCHANGED <<usage, now>>, NEW b \in Bills, PostUsage(b)
  PROVE  ChargeInv'
<1> DEFINE r == bill[b]
           x == UsageRecord(b)
<1>1. /\ r.status = "post" /\ UNCHANGED <<marked, accounts>>
      /\ charges' = IF Remembered(IdempotencyKey(b)) THEN charges ELSE charges \cup {x}
  BY DEF PostUsage, tables
<1>2. PICK answer \in {"mark", "500"} : Bill(b, [r EXCEPT !.status = answer, !.posted = now])
  BY DEF PostUsage
<1> DEFINE q == [r EXCEPT !.status = answer, !.posted = now]
           m == MarkOf(b, q)
           n == MarkOf(b, r)
<1>3. BillOK(r) /\ CallOK(b, r, usage, accounts, charges) /\ now \in Nat /\ UsageOK(usage)
  BY DEF TablesInv, BillsOK, DataOK, ChargeInv
<1>4. bill'[b] = q /\ \A c \in Bills : c # b => bill'[c] = bill[c]
  BY <1>2 DEF Bill, TablesInv, BillsOK
<1>5. /\ x.key = <<x.account, x.to>> /\ x.account = r.next /\ x.to = r.to /\ x.from = r.from
      /\ x.by = b /\ x.before = r.before /\ x.total = r.total /\ x.units = r.units /\ x.at = now
      /\ IdempotencyKey(b) = <<r.next, r.to>>
  BY DEF UsageRecord, IdempotencyKey
<1>6. /\ n.account = r.next /\ n.from = r.from /\ n.to = r.to
      /\ n.before = r.before /\ n.total = r.total
  BY DEF MarkOf
<1> HIDE DEF x, n, r
<1>7. /\ q.status = answer /\ q.list = r.list /\ q.next = r.next /\ q.from = r.from
      /\ q.to = r.to /\ q.before = r.before /\ q.total = r.total /\ q.posted = now
  BY <1>3 DEF BillOK, BillColumns
<1> HIDE DEF q
<1>8. /\ m.account = r.next /\ m.from = r.from /\ m.to = r.to /\ m.by = b
      /\ m.before = r.before /\ m.total = r.total /\ m.posted = now
  BY <1>7 DEF MarkOf
<1> HIDE DEF m
<1>9. TotalOK(n, usage) /\ Covers(r.units, Over(n, accounts))
  BY <1>1, <1>3 DEF CallOK, n
<1>10. r.next \in DOMAIN accounts
  <2>1. r.next \in DOMAIN r.list
    BY <1>1, <1>3, AccountFacts DEF BillOK
  <2> QED
    BY <1>3, <2>1 DEF CallOK
<1>11. TotalOK(x, usage) /\ TotalOK(m, usage)
  BY <1>5, <1>6, <1>8, <1>9 DEF TotalOK
<1>12. Over(x, accounts) = Over(n, accounts)
  BY <1>5, <1>6 DEF Over
<1>13. ChargeOK(x, usage, accounts, now)
  BY <1>3, <1>5, <1>9, <1>10, <1>11, <1>12 DEF ChargeOK
<1>14. charges \subseteq charges' /\ \A y \in charges' : y \in charges \/ y = x
  BY <1>1
<1>15. \A y \in charges : ChargeOK(y, usage, accounts, now)
  BY DEF ChargeInv
<1>16. \A y \in charges : /\ y.key = <<y.account, y.to>> /\ y.at \in Nat /\ y.at <= now
                          /\ y.account \in Nat
  BY <1>15, AccountFacts DEF ChargeOK, TablesInv
<1>17. DayLength \in Nat \ {0}
  BY CloudTypesAssumption
<1>18. \A y \in charges : y.by = b => y.account <= r.next /\ y.account # r.next
  BY <1>1, <1>3 DEF CallOK
<1>19. \E y \in charges' : RestsOn(m, y)
  <2>1. CASE Remembered(IdempotencyKey(b))
    <3>1. PICK y \in charges : y.key = <<r.next, r.to>> /\ now - y.at < DayLength
      BY <1>5, <2>1 DEF Remembered
    <3>2. y.account = r.next /\ y.to = r.to /\ y.at <= now
      BY <1>16, <3>1
    <3>3. y.by # b
      BY <1>18, <3>2
    <3>4. RestsOn(m, y)
      BY <1>8, <3>1, <3>2, <3>3 DEF RestsOn
    <3> QED
      BY <1>14, <3>4
  <2>2. CASE ~Remembered(IdempotencyKey(b))
    <3>1. x \in charges'
      BY <1>1, <2>2
    <3>2. now <= now /\ now - now < DayLength
      BY <1>3, <1>17
    <3>3. RestsOn(m, x)
      BY <1>5, <1>8, <3>2 DEF RestsOn
    <3> QED
      BY <3>1, <3>3
  <2> QED
    BY <2>1, <2>2
<1>20. MarkOK(m, usage, accounts, charges')
  BY <1>8, <1>10, <1>11, <1>19 DEF MarkOK
<1>21. CallOK(b, q, usage, accounts, charges')
  <2>1. r.next \in Nat
    BY <1>10, AccountFacts DEF TablesInv
  <2>2. \A y \in charges' : y.by = b =>
          /\ q.status # "idle" /\ y.account <= q.next
          /\ q.status \in {"read", "post"} => y.account # q.next
    BY <1>5, <1>7, <1>14, <1>18, <2>1
  <2> QED
    BY <1>3, <1>7, <1>11, <1>20, <2>2 DEF CallOK, m
<1>22. /\ UsageGrows(usage, usage) /\ PlansStay(accounts, accounts)
  BY <1>3 DEF UsageGrows, UsageOK, PlansStay
<1>23. ASSUME NEW c \in Bills PROVE CallOK(c, bill'[c], usage, accounts, charges')
  <2>1. CASE c = b
    BY <1>4, <1>21, <2>1
  <2>2. CASE c # b
    <3>1. bill'[c] = bill[c] /\ BillOK(bill[c]) /\ CallOK(c, bill[c], usage, accounts, charges)
      BY <1>4, <2>2 DEF TablesInv, BillsOK, ChargeInv
    <3>2. \A y \in charges' : y \in charges \/ y.by # c
      BY <1>5, <1>14, <2>2
    <3> QED
      BY <1>3, <1>14, <1>22, <3>1, <3>2, CallStays
  <2> QED
    BY <2>1, <2>2
<1>24. \A k \in marked : MarkOK(k, usage, accounts, charges')
  BY <1>3, <1>14, <1>22, MarkStays DEF ChargeInv
<1>25. \A y \in charges' : ChargeOK(y, usage, accounts, now)
  BY <1>13, <1>14, <1>15
<1>26. ASSUME NEW y \in charges', NEW z \in charges', y # z, y.account = z.account, y.to = z.to
       PROVE  DayApart(y, z)
  <2>1. CASE y \in charges /\ z \in charges
    BY <1>26, <2>1 DEF ChargeInv
  <2>2. ASSUME NEW w \in charges, w # x, w.account = x.account, w.to = x.to, x \in charges' \ charges
        PROVE  now - w.at >= DayLength
    <3>1. ~Remembered(<<r.next, r.to>>) /\ w.key = <<r.next, r.to>>
      BY <1>1, <1>5, <1>16, <2>2
    <3>2. w.at \in Nat
      BY <1>16
    <3> QED
      BY <1>3, <1>17, <3>1, <3>2 DEF Remembered
  <2> QED
    BY <1>5, <1>14, <1>26, <2>1, <2>2 DEF DayApart
<1> QED
  BY <1>1, <1>23, <1>24, <1>25, <1>26 DEF ChargeInv, DayApart

LEMMA BillsCharge ==
  ASSUME TablesInv, TablesInv', [CloudNext]_cloudVars, ChargeInv, UNCHANGED <<usage, now>>,
         NEW b \in Bills,
         StartBill(b) \/ ReadUsage(b) \/ PostUsage(b) \/ MarkBilled(b) \/ BillFails(b)
  PROVE  ChargeInv'
BY StartKeeps, ReadKeeps, PostKeeps, MarkKeeps, BillFailsKeeps

LEMMA ChargeInvHolds == CloudSpec => []ChargeInv
<1>1. CloudInit => ChargeInv
  <2> SUFFICES ASSUME CloudInit PROVE ChargeInv
    OBVIOUS
  <2> DEFINE Was(i) == [account |-> i, from |-> 0, to |-> accounts[i].billed, by |-> None,
                        before |-> <<>>, total |-> 0, posted |-> 0]
  <2>1. /\ bill = [b \in Bills |-> Unasked] /\ charges = {}
        /\ marked = {Was(i) : i \in DOMAIN accounts}
    BY DEF CloudInit, BillingInit
  <2>2. PICK scene \in Scenes : TablesInit(scene)
    BY DEF CloudInit
  <2>3. AccountsOK(accounts) /\ UsageOK(usage)
    BY <2>2, ScenesAssumption DEF TablesInit
  <2>4. /\ UsageOK(<<>>) /\ UsageGrows(<<>>, usage)
        /\ \A i, f, t : AccountUsageInRange(<<>>, i, f, t) = 0
    <3>1. UsageOK(<<>>) /\ UsageGrows(<<>>, usage)
      BY FS_EmptySet DEF UsageOK, UsageGrows
    <3>2. ASSUME NEW i, NEW f, NEW t PROVE AccountUsageInRange(<<>>, i, f, t) = 0
      <4>1. Days(<<>>, i, f, t) = {}
        BY DEF Days
      <4>2. UnitsOf(<<>>, {}) = {}
        BY DEF UnitsOf
      <4>3. SumOver(<<>>, {}) = Cardinality(UnitsOf(<<>>, {}))
        BY FS_EmptySet, SumIsUnits
      <4> QED
        BY <4>1, <4>2, <4>3, FS_EmptySet DEF AccountUsageInRange
    <3> QED
      BY <3>1, <3>2
  <2>5. ASSUME NEW i \in DOMAIN accounts PROVE MarkOK(Was(i), usage, accounts, charges)
    <3> DEFINE m == Was(i)
    <3>1. m.account = i /\ m.from = 0 /\ m.to = accounts[i].billed /\ m.before = <<>> /\ m.total = 0
      OBVIOUS
    <3> HIDE DEF m
    <3>2. accounts[i].billed \in Int /\ accounts[i].plan \in Plans
      BY <2>3 DEF AccountsOK
    <3>3. Included[accounts[i].plan] \in Nat
      BY <3>2, CloudTypesAssumption
    <3>4. AccountUsageInRange(usage, m.account, m.from, m.to) \in Nat
      BY <2>3, RangeIsNat
    <3>5. TotalOK(m, usage)
      BY <2>4, <3>1, <3>2, <3>4 DEF TotalOK
    <3>6. ~(Over(m, accounts) > 0)
      BY <3>1, <3>3 DEF Over
    <3> QED
      BY <3>1, <3>5, <3>6 DEF MarkOK, m
  <2>6. ASSUME NEW i \in DOMAIN accounts
        PROVE  \E m \in marked : m.account = i /\ m.to = accounts[i].billed
    <3>1. Was(i) \in marked /\ Was(i).account = i /\ Was(i).to = accounts[i].billed
      BY <2>1
    <3> QED
      BY <3>1
  <2>7. \A m \in marked : MarkOK(m, usage, accounts, charges)
    BY <2>1, <2>5
  <2>8. ASSUME NEW b \in Bills PROVE CallOK(b, bill[b], usage, accounts, charges)
    <3>1. bill[b].status = "idle" /\ bill[b].before = <<>> /\ bill[b].list = <<>>
      BY <2>1 DEF Unasked
    <3>2. DOMAIN <<>> = {}
      OBVIOUS
    <3> QED
      BY <2>1, <2>4, <3>1, <3>2 DEF CallOK
  <2> QED
    BY <2>1, <2>6, <2>7, <2>8 DEF ChargeInv
<1>2. TablesInv /\ TablesInv' /\ ChargeInv /\ [CloudNext]_cloudVars => ChargeInv'
  <2> SUFFICES ASSUME TablesInv, TablesInv', ChargeInv, [CloudNext]_cloudVars PROVE ChargeInv'
    OBVIOUS
  <2>1. CASE Others \/ Serving
    <3>1. UNCHANGED <<bill, charges, marked>>
      BY <2>1, OthersFrame, ServingFrame DEF billingVars
    <3> QED
      BY <2>1, <3>1, OthersKeepBilled, SettledSteps
  <2>2. CASE Charging
    <3>1. UNCHANGED <<usage, now>>
      BY <2>2, ChargingFrame
    <3>2. ASSUME NEW e \in Events,
                 \/ Deliver(e) \/ Upsert(e) \/ SetIds(e) \/ IssueKey(e)
                 \/ FindCustomer(e) \/ Sync(e) \/ HookFails(e)
          PROVE  ChargeInv'
      BY <3>2, HooksKeepBilled, SettledSteps
    <3>3. ASSUME NEW b \in Bills,
                 StartBill(b) \/ ReadUsage(b) \/ PostUsage(b) \/ MarkBilled(b) \/ BillFails(b)
          PROVE  ChargeInv'
      BY <3>1, <3>3, BillsCharge
    <3> QED
      BY <2>2, <3>2, <3>3 DEF Charging, BillingNext
  <2> QED
    BY <2>1, <2>2 DEF CloudNext, Others
<1> QED
  BY <1>1, <1>2, TablesInvHolds, PTL DEF CloudSpec

(* However calls of bill_period overlap, fail and are repeated, and        *)
(* whatever is metered meanwhile: an account is marked as billed through a *)
(* day by a call whose total is what the account had used in the call's    *)
(* period; if that was more than the plan includes, the mark rests on the  *)
(* call's own charge or on one up to the same day that Stripe, which       *)
(* forgets an idempotency key after a day, still remembered; a charge is   *)
(* of the units, begun ones included, that its own call read beyond the    *)
(* plan; and two charges up to one day are at least a day apart.           *)
THEOREM OverageIsCharged == CloudSpec => []OverageCharged
<1>1. TablesInv /\ ChargeInv => OverageCharged
  <2> SUFFICES ASSUME TablesInv, ChargeInv PROVE OverageCharged
    OBVIOUS
  <2>1. ASSUME NEW x, TotalOK(x, usage) PROVE Reckoned(x)
    BY <2>1, UsedIsRange DEF TotalOK, Reckoned, TablesInv, DataOK
  <2>2. \A m \in marked :
          Reckoned(m) /\ (BeyondPlan(m) > 0 => \E x \in charges : RestsOn(m, x))
    BY <2>1 DEF ChargeInv, MarkOK, Over, BeyondPlan
  <2>3. \A x \in charges :
          /\ Reckoned(x)
          /\ BeyondPlan(x) > 0
          /\ BeyondPlan(x) \in (x.units - 1) * UnitSize + 1 .. x.units * UnitSize
    BY <2>1 DEF ChargeInv, ChargeOK, Covers, Over, BeyondPlan
  <2> QED
    BY <2>2, <2>3 DEF ChargeInv, OverageCharged, DayApart
<1> QED
  BY <1>1, TablesInvHolds, ChargeInvHolds, PTL
=============================================================================
