------------------------------- MODULE Stores -------------------------------
(***************************************************************************)
(* The two implementations of the trait Db (store/mod.rs) side by side:    *)
(* every call is made to both.  memory.rs says that they "must agree on    *)
(* observable behaviour": the tests of the service run on MemDb, the       *)
(* service runs on PgDb.                                                   *)
(*                                                                         *)
(* Calls are made one at a time, as one client of the service makes them,  *)
(* each with the ids its own store gave it.  They are any calls of the     *)
(* trait, those the stores answer differently included.  A behaviour       *)
(* writes to one table, fixed from the start: no operation but the join of *)
(* find_account_by_hashed_key reads two.                                   *)
(***************************************************************************)
EXTENDS PgDb

CONSTANTS
  Emails, Customers, Subscriptions,   \* of the accounts table
  BilledDays,
  Hashes, Installs, Counts, Sinks,    \* of the other tables
  Times,                              \* when a row may be received
  Windows,                            \* the ranges of time of the searches
  DefaultWindowDays, MaxWindowDays,   \* of the dashboard of conversion_ready
  DefaultThreshold, DefaultLimit, MaxLimit,
  Owners,                             \* emails of the accounts that own other rows
  MaxRows,                            \* bound: rows of each table
  MaxCount                            \* bound: usage of a day

VARIABLES
  table,   \* the table this behaviour writes to
  pg,      \* the tables of PgDb
  mem,     \* the tables of MemDb
  twin,    \* history: for each account of PgDb, the one of MemDb that the
           \* same call created
  said     \* what the last call answered: PgDb's answer, MemDb's, and
           \* whether it repeated a creation or a revocation

storesVars == <<table, pg, mem, twin, said>>

Tables == {"accounts", "keys", "attestations", "usage", "links", "telemetry"}

ASSUME StoresAssumption ==
  /\ None \notin Nat
  /\ Owners \in Seq(ToSet(Owners))
  /\ Times \subseteq Nat /\ Installs \subseteq Int /\ Counts \subseteq Int
  /\ DefaultLimit \in Int /\ MaxLimit \in Nat \ {0}
  /\ MaxRows \in [Tables -> Nat]

Mem == INSTANCE MemDb

Empty(owners) == [accounts |-> owners, keys |-> <<>>, attestations |-> <<>>,
                  usage |-> <<>>, links |-> <<>>, telemetry |-> <<>>]

StoresInit ==
  /\ table \in Tables
  /\ mem = Empty(IF table = "accounts" THEN <<>>
                 ELSE [i \in DOMAIN Owners |-> NewAccount(Owners[i], "team", None)])
  /\ pg = [mem EXCEPT !.attestations = {}]
  /\ twin = [i \in DOMAIN mem.accounts |-> i]
  /\ said = <<0, 0, FALSE>>

Room(t) == Cardinality(DOMAIN mem[t]) < MaxRows[t]
Accounts == DOMAIN pg.accounts
Dates == {DateNaive(t) : t \in Times} \cup {1 + DateNaive(t) : t \in Times}

Update(t, p, m) ==
  /\ table = t
  /\ pg' = [pg EXCEPT ![t] = p]
  /\ mem' = [mem EXCEPT ![t] = m]
  /\ UNCHANGED table

Say(p, m, repeated) == said' = <<p, m, repeated>>

(* The ids of one account in the two stores; 0 is no account's.            *)
Twin(i) == IF i \in DOMAIN twin THEN twin[i] ELSE 0
PgId(a) ==
  LET same == {i \in DOMAIN twin : twin[i] = a}
  IN IF same = {} THEN 0 ELSE CHOOSE i \in same : TRUE

(* Accounts that only MemDb holds: their email was taken.                  *)
Repeats == DOMAIN mem.accounts \ ToSet(twin)

----------------------------------------------------------------------------
(* A sign-up that lost the race for its email creates it all the same.     *)
DoCreateAccount ==
  \E e \in Emails, plan \in Plans, pw \in {None, "hash"} :
    LET p == CreateAccount(pg.accounts, e, plan, pw)
        m == Mem!CreateAccount(mem.accounts, e, plan, pw) IN
    /\ Room("accounts")
    /\ Update("accounts", p.accounts, m)
    /\ twin' = IF p.ok THEN Append(twin, Len(m)) ELSE twin
    /\ Say(p.ok, TRUE, Mem!FindAccountByEmail(mem.accounts, e) # 0)

DoUpsertAccount ==
  \E e \in Emails, plan \in Plans :
    LET p == UpsertAccountByEmail(pg.accounts, e, plan)
        m == Mem!UpsertAccountByEmail(mem.accounts, e, plan)
        w == IF p.inserted THEN Append(twin, Len(m.accounts)) ELSE twin IN
    /\ Room("accounts")
    /\ Update("accounts", p.accounts, m.accounts)
    /\ twin' = w
    /\ Say(<<w[p.id], p.inserted>>, <<m.id, m.inserted>>, FALSE)

DoSetAccount ==
  /\ \E a \in DOMAIN mem.accounts \cup {0} :
       \/ \E c \in Customers, s \in Subscriptions \cup {None} :
            Update("accounts", SetAccountStripeIds(pg.accounts, PgId(a), c, s),
                               Mem!SetAccountStripeIds(mem.accounts, a, c, s))
       \/ \E plan \in Plans :
            Update("accounts", SetAccountPlan(pg.accounts, PgId(a), plan),
                               Mem!SetAccountPlan(mem.accounts, a, plan))
       \/ \E d \in BilledDays :
            Update("accounts", SetBilledThrough(pg.accounts, PgId(a), d),
                               Mem!SetBilledThrough(mem.accounts, a, d))
  /\ Say(0, 0, FALSE)
  /\ UNCHANGED twin

DoCreateApiKey ==
  /\ Room("keys")
  /\ \E a \in Accounts, h \in Hashes :
       Update("keys", CreateApiKey(pg.keys, a, h), Mem!CreateApiKey(mem.keys, a, h))
  /\ Say(0, 0, FALSE)
  /\ UNCHANGED twin

DoRevokeApiKey ==
  \E a \in Accounts, k \in 1 .. MaxRows["keys"] :
    LET p == RevokeApiKey(pg.keys, a, k)
        m == Mem!RevokeApiKey(mem.keys, a, k) IN
    /\ Update("keys", p.keys, m.keys)
    /\ Say(p.updated, m.updated, FALSE)
    /\ UNCHANGED twin

DoInsertAttestation ==
  \E c \in Contents, a \in Accounts, t \in Times :
    LET p == InsertStatement(pg.attestations, NewRow(c, a, t))
        m == Mem!InsertAttestation(mem.attestations, NewRow(c, a, t)) IN
    /\ Room("attestations")
    /\ Update("attestations", p.rows, m.rows)
    /\ Say(p.inserted, m.inserted, FALSE)
    /\ UNCHANGED twin

DoDeleteAttestations ==
  /\ \E a \in Accounts, t \in Times :
       Update("attestations", DeleteAttestationsOlderThan(pg.attestations, a, t),
                              Mem!DeleteAttestationsOlderThan(mem.attestations, a, t))
  /\ Say(Cardinality(pg.attestations \ pg'.attestations),
         Len(mem.attestations) - Len(mem'.attestations), FALSE)
  /\ UNCHANGED twin

DoRecordUsage ==
  /\ \A k \in DOMAIN pg.usage : pg.usage[k] < MaxCount
  /\ \E a \in Accounts, t \in Times :
       Update("usage", RecordUsage(pg.usage, a, t), Mem!RecordUsage(mem.usage, a, t))
  /\ Say(0, 0, FALSE)
  /\ UNCHANGED twin

DoCreateShareLink ==
  /\ Room("links")
  /\ \E a \in Accounts, ids \in SUBSET {IdOf[c] : c \in Contents}, t \in Times :
       LET link == NewLink(a, ids, t) IN
       Update("links", CreateShareLink(pg.links, link), Mem!CreateShareLink(mem.links, link))
  /\ Say(0, 0, FALSE)
  /\ UNCHANGED twin

DoRevokeShareLink ==
  \E a \in Accounts, l \in 1 .. MaxRows["links"] :
    LET p == RevokeShareLink(pg.links, a, l)
        m == Mem!RevokeShareLink(mem.links, a, l) IN
    /\ Update("links", p.links, m.links)
    /\ Say(p.updated, m.updated,
           l \in DOMAIN mem.links /\ mem.links[l].account = a /\ mem.links[l].revoked)
    /\ UNCHANGED twin

DoUpsertTelemetry ==
  /\ Room("telemetry")
  /\ \E i \in Installs, d \in Dates, n \in Counts, s \in Sinks :
       LET e == [install |-> i, day |-> d, count |-> n, sink |-> s] IN
       Update("telemetry", UpsertTelemetryEvent(pg.telemetry, e),
                           Mem!UpsertTelemetryEvent(mem.telemetry, e))
  /\ Say(0, 0, FALSE)
  /\ UNCHANGED twin

StoresNext ==
  \/ DoCreateAccount \/ DoUpsertAccount \/ DoSetAccount
  \/ DoCreateApiKey \/ DoRevokeApiKey
  \/ DoInsertAttestation \/ DoDeleteAttestations
  \/ DoRecordUsage
  \/ DoCreateShareLink \/ DoRevokeShareLink
  \/ DoUpsertTelemetry

StoresSpec == StoresInit /\ [][StoresNext]_storesVars

----------------------------------------------------------------------------
(* PgDb knows the accounts that MemDb knows, but for the repeats.  Of two  *)
(* with one customer either may be found.                                  *)
TheSameAccounts ==
  /\ pg.accounts = [i \in DOMAIN twin |-> mem.accounts[twin[i]]]
  /\ \A k \in Repeats : \E i \in DOMAIN twin :
       twin[i] < k /\ mem.accounts[k].email = pg.accounts[i].email
  /\ table = "accounts" => \A e \in Emails :
       {Twin(i) : i \in FindAccountByEmail(pg.accounts, e)}
         = {Mem!FindAccountByEmail(mem.accounts, e)}
  /\ \A c \in Customers :
       Mem!FindAccountByStripeCustomer(mem.accounts, c)
         \in Repeats \cup {Twin(i) : i \in FindAccountByStripeCustomer(pg.accounts, c)}
  /\ \A i \in 0 .. MaxRows[table] :
       {Twin(j) : j \in FetchAccount(pg.accounts, i)} = {Mem!FetchAccount(mem.accounts, Twin(i))}
  /\ LET p == ListAccounts(pg.accounts)
         m == Mem!ListAccounts(mem.accounts)
     IN /\ {Twin(p[i]) : i \in DOMAIN p} = ToSet(m) \ Repeats
        /\ \A i, j \in DOMAIN p : i < j => \E k, l \in DOMAIN m :
             k < l /\ m[k] = Twin(p[i]) /\ m[l] = Twin(p[j])

TheSameUsage ==
  \A a \in Accounts :
    /\ AccountUsageTotal(pg.usage, a) = Mem!AccountUsageTotal(mem.usage, a)
    /\ \A d, e \in Dates :
         /\ AccountUsageInRange(pg.usage, a, d, e) = Mem!AccountUsageInRange(mem.usage, a, d, e)
         /\ UsageForPeriod(pg.usage, a, d, e) = Mem!UsageForPeriod(mem.usage, a, d, e)

(* PgDb lists the newest key first, MemDb the oldest.                      *)
TheSameKeys ==
  /\ \A a \in Accounts :
       ToSet(ListActiveApiKeys(pg.keys, a)) = ToSet(Mem!ListActiveApiKeys(mem.keys, a))
  /\ ListActiveHashedKeys(pg.keys) = Mem!ListActiveHashedKeys(mem.keys)
  /\ \A h \in Hashes :
       Mem!FindAccountByHashedKey(mem.keys, h) \in FindAccountByHashedKey(pg.keys, h)

SearchFilters ==
  UNION {Filters({AgentOf[c] : c \in Contents} \cup {None},
                 {CustomerOf[c] : c \in Contents} \cup {None}, {w[1]}, {w[2]}) : w \in Windows}

(* The rows PgDb counts as earlier pages' when it is given a cursor.       *)
Passed(a, f, cursor) ==
  Cardinality({r \in pg.attestations : Matches(r, a, f) /\ ~Beyond(r, cursor)})

(* One more page of a search: cursor is the row PgDb's client was left     *)
(* with, n the count MemDb's was, and the table may have changed since.    *)
(* The pages are the same when n still is how many rows the cursor has     *)
(* passed, and only then: otherwise MemDb repeats or omits rows, or        *)
(* panics.  After such a page each is left with a cursor for the same next *)
(* one.                                                                    *)
TheSamePages(a, f, limit) ==
  LET memPages == {<<n, Mem!SearchAttestations(mem.attestations, a, f, limit, n)>> :
                     n \in 0 .. MaxRows[table]}
  IN \A cursor \in {None} \cup {NewRow(c, a, t) : c \in Contents, t \in Times} :
       LET p == SearchAttestations(pg.attestations, a, f, limit, cursor)
           passed == Passed(a, f, cursor)
       IN \A page \in memPages :
            LET n == page[1]
                m == page[2] IN
            /\ (p.rows = m.rows /\ ~m.panicked) <=> n = passed
            /\ n = passed =>
                 /\ p.next = None <=> m.next = None
                 /\ p.next # None => m.next = Passed(a, f, p.next)

(* Rows of one instant may be listed in another order.                     *)
TheSameAttestations ==
  \A a \in Accounts :
    /\ \A c \in Contents :
         FetchAttestation(pg.attestations, a, IdOf[c])
           = Mem!FetchAttestation(mem.attestations, a, IdOf[c])
    /\ LET p == ListAllAttestations(pg.attestations, a)
           m == Mem!ListAllAttestations(mem.attestations, a)
       IN /\ ToSet(p) = ToSet(m)
          /\ Len(p) = Len(m)
          /\ \A i \in DOMAIN p : p[i].at = m[i].at
    /\ \A f \in SearchFilters, limit \in 1 .. 2 : TheSamePages(a, f, limit)

TheSameLinks ==
  \A l \in 1 .. MaxRows["links"] : FetchShareLink(pg.links, l) = {Mem!FetchShareLink(mem.links, l)}

(* What the dashboard of conversion_ready asks of a store: whatever its    *)
(* query names, or leaves out, is brought into its range.                  *)
OrElse(value, default) == IF value = None THEN default ELSE value
Clamp(n, low, high) == IF n < low THEN low ELSE IF n > high THEN high ELSE n

ConversionReady(q, today) ==
  [from  |-> today - Clamp(OrElse(q.days, DefaultWindowDays), 1, MaxWindowDays),
   min   |-> LET n == OrElse(q.min, DefaultThreshold) IN IF n < 0 THEN 0 ELSE n,
   limit |-> Clamp(OrElse(q.limit, DefaultLimit), 1, MaxLimit)]

Queries ==
  [days : {None, 0, 2, MaxWindowDays + 1}, min : {None, -1} \cup Counts,
   limit : {None, 0, MaxLimit + 1}]

TheSameTelemetry ==
  \A q \in Queries, today \in Dates :
    LET ask == ConversionReady(q, today) IN
    Mem!TopTelemetryVolumes(mem.telemetry, ask.from, ask.min, ask.limit)
      \in TopTelemetryVolumes(pg.telemetry, ask.from, ask.min, ask.limit)

(* memory.rs, revoke_share_link: MemDb says TRUE of a link that is revoked *)
(* already, PgDb FALSE.  The other call with two answers creates an email  *)
(* that is taken.                                                          *)
AnswersAgree ==
  IF said[3] THEN ~said[1] /\ said[2] ELSE said[1] = said[2]

(* memory.rs: the two "must agree on observable behaviour".  Whatever the  *)
(* stores have been asked, they hold the same tables and answered the last *)
(* call alike, and they answer every lookup and every page of a search     *)
(* alike, with these exceptions, and no other: a revocation or a creation  *)
(* that is repeated (AnswersAgree), the accounts MemDb holds twice after   *)
(* the latter (Repeats), a search continued when the rows before its       *)
(* cursor have changed (TheSamePages), and the two orders named above.     *)
StoresAgree ==
  /\ \A t \in Tables \ {"accounts", "attestations"} : pg[t] = mem[t]
  /\ pg.attestations = ToSet(mem.attestations)
  /\ AnswersAgree
  /\ TheSameAccounts
  /\ table = "usage" => TheSameUsage
  /\ table = "keys" => TheSameKeys
  /\ table = "attestations" => TheSameAttestations
  /\ table = "links" => TheSameLinks
  /\ table = "telemetry" => TheSameTelemetry
=============================================================================
