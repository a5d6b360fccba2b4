-------------------------- MODULE CloudTableProofs --------------------------
(***************************************************************************)
(* What the statements of PgDb do, for any tables: sums, orders, and each  *)
(* statement that inserts or updates.  Induction is by a least             *)
(* counterexample, as the theorems of induction take an operator.          *)
(***************************************************************************)
EXTENDS PgDb, FiniteSetTheorems, SequenceTheorems, TLAPS

----------------------------------------------------------------------------
(* Sums: SUM(count) is how many units there are under the rows.            *)
Units1(u, k) == {k} \X (1 .. u[k])
UnitsOf(u, S) == UNION {Units1(u, k) : k \in S}

LEMMA FiniteUnits ==
  ASSUME NEW u, NEW S, IsFiniteSet(S), \A k \in S : u[k] \in Nat
  PROVE  IsFiniteSet(UnitsOf(u, S))
<1> DEFINE T == {Units1(u, k) : k \in S}
           f == [k \in S |-> Units1(u, k)]
<1>1. f \in Surjection(S, T)
  BY DEF Surjection
<1>2. IsFiniteSet(T)
  BY <1>1, FS_Surjection
<1>3. \A t \in T : IsFiniteSet(t)
  <2> SUFFICES ASSUME NEW k \in S PROVE IsFiniteSet({k} \X (1 .. u[k]))
    BY DEF Units1
  <2> DEFINE A == {k}
             B == 1 .. u[k]
  <2>1. IsFiniteSet(A)
    BY FS_Singleton
  <2>2. 1 \in Int /\ u[k] \in Int
    OBVIOUS
  <2>3. IsFiniteSet(B)
    BY <2>2, FS_Interval
  <2> HIDE DEF A, B
  <2>4. IsFiniteSet(A \X B)
    BY <2>1, <2>3, FS_Product
  <2> QED
    BY <2>4 DEF A, B
<1>4. UnitsOf(u, S) = UNION T
  BY DEF UnitsOf
<1> HIDE DEF T
<1> QED
  BY <1>2, <1>3, <1>4, FS_UNION

LEMMA OneMoreRow ==
  ASSUME NEW u, NEW S, IsFiniteSet(S), NEW x \in S, \A k \in S : u[k] \in Nat
  PROVE  Cardinality(UnitsOf(u, S)) = u[x] + Cardinality(UnitsOf(u, S \ {x}))
<1> DEFINE A == Units1(u, x)
           B == UnitsOf(u, S \ {x})
<1>1. IsFiniteSet(S \ {x})
  BY FS_RemoveElement
<1>2. IsFiniteSet(A) /\ Cardinality(A) = u[x]
  <2>1. IsFiniteSet({x}) /\ Cardinality({x}) = 1
    BY FS_Singleton
  <2>2. IsFiniteSet(1 .. u[x]) /\ Cardinality(1 .. u[x]) = u[x]
    BY FS_Interval
  <2>3. IsFiniteSet(A) /\ Cardinality(A) = 1 * u[x]
    BY <2>1, <2>2, FS_Product DEF Units1
  <2> QED
    BY <2>3
<1>3. IsFiniteSet(B) /\ Cardinality(B) \in Nat
  BY <1>1, FiniteUnits, FS_CardinalityType
<1>4. UnitsOf(u, S) = A \cup B
  BY DEF UnitsOf
<1>5. A \cap B = {}
  BY DEF UnitsOf, Units1
<1>6. Cardinality(A \cup B) = u[x] + Cardinality(B) - Cardinality(A \cap B)
  <2> HIDE DEF A, B
  <2> QED
    BY <1>2, <1>3, FS_Union
<1>7. u[x] \in Nat /\ Cardinality(A \cap B) = 0
  BY <1>5, FS_EmptySet
<1> HIDE DEF A, B
<1>8. Cardinality(A \cup B) = u[x] + Cardinality(B)
  BY <1>3, <1>6, <1>7
<1> QED
  BY <1>4, <1>8 DEF B

(* The fold of the definition is unique: where another would differ first, *)
(* it cannot.                                                              *)
LEMMA SumIsUnits ==
  ASSUME NEW u, NEW S, IsFiniteSet(S), \A k \in S : u[k] \in Nat
  PROVE  SumOver(u, S) = Cardinality(UnitsOf(u, S))
<1> DEFINE Pick(s) == CHOOSE x \in s : TRUE
           Unfolds(g) == g = [s \in SUBSET S |->
                                IF s = {} THEN 0 ELSE u[Pick(s)] + g[s \ {Pick(s)}]]
           n == [s \in SUBSET S |-> Cardinality(UnitsOf(u, s))]
           iter == CHOOSE g : Unfolds(g)
<1>1. \A s \in SUBSET S : IsFiniteSet(s) /\ \A k \in s : u[k] \in Nat
  BY FS_Subset
<1>2. \A s \in SUBSET S : s # {} => Pick(s) \in s
  OBVIOUS
<1>3. ASSUME NEW s \in SUBSET S
      PROVE  n[s] = IF s = {} THEN 0 ELSE u[Pick(s)] + n[s \ {Pick(s)}]
  <2>1. CASE s = {}
    BY <2>1, FS_EmptySet DEF UnitsOf
  <2>2. CASE s # {}
    <3> DEFINE x == Pick(s)
    <3>1. x \in s
      BY <2>2, <1>2
    <3> HIDE DEF x
    <3>2. Cardinality(UnitsOf(u, s)) = u[x] + Cardinality(UnitsOf(u, s \ {x}))
      BY <1>1, <3>1, OneMoreRow
    <3> QED
      BY <2>2, <3>2 DEF x
  <2> QED
    BY <2>1, <2>2
<1>4. Unfolds(n)
  BY <1>3
<1>5. Unfolds(iter)
  BY <1>4
<1> HIDE DEF iter, n
<1>6. ASSUME NEW s \in SUBSET S PROVE iter[s] = n[s]
  <2> DEFINE T == {t \in SUBSET S : iter[t] # n[t]}
             R == StrictSubsetOrdering(S)
  <2>1. SUFFICES ASSUME T # {} PROVE FALSE
    OBVIOUS
  <2>2. IsWellFoundedOn(R, SUBSET S)
    BY FS_StrictSubsetOrderingWellFounded, FS_FiniteSubsetsOfFinite
  <2>3. PICK t \in T : \A v \in T : ~ <<v, t>> \in R
    BY <2>1, <2>2, WFMin
  <2> DEFINE x == Pick(t)
             v == t \ {x}
  <2>4. CASE t = {}
    BY <1>4, <1>5, <2>3, <2>4
  <2>5. CASE t # {}
    <3>1. x \in t
      BY <2>5, <1>2
    <3> HIDE DEF x
    <3>2. v \in SUBSET S /\ <<v, t>> \in R
      BY <2>3, <3>1 DEF StrictSubsetOrdering
    <3>3. iter[v] = n[v]
      BY <2>3, <3>2
    <3>4. iter[t] = u[x] + iter[v]
      BY <1>5, <2>3, <2>5 DEF x
    <3>5. n[t] = u[x] + n[v]
      BY <1>4, <2>3, <2>5 DEF x
    <3> QED
      BY <2>3, <3>3, <3>4, <3>5
  <2> QED
    BY <2>4, <2>5
<1>7. SumOver(u, S) = iter[S]
  BY DEF SumOver, MapThenSumSet, MapThenFoldSet, iter
<1> QED
  BY <1>6, <1>7 DEF n
----------------------------------------------------------------------------
(* Orders: the row that i - 1 come before is one, and every row is one.    *)
Below(R, S, x) == {y \in S : <<y, x>> \in R}
StrictOrder(R, S) ==
  /\ \A x \in S : <<x, x>> \notin R
  /\ \A x, y, z \in S : <<x, y>> \in R /\ <<y, z>> \in R => <<x, z>> \in R
  /\ \A x, y \in S : x = y \/ <<x, y>> \in R \/ <<y, x>> \in R
(* What a definition by CHOOSE, as OrderBy is, says of f                   *)
Sorts(f, R, S) ==
  /\ f = [i \in 1 .. Cardinality(S) |-> f[i]]
  /\ \A i \in 1 .. Cardinality(S) :
       (\E r \in S : Cardinality(Below(R, S, r)) = i - 1) =>
         f[i] \in S /\ Cardinality(Below(R, S, f[i])) = i - 1

LEMMA Ranks ==
  ASSUME NEW S, IsFiniteSet(S), NEW R, StrictOrder(R, S)
  PROVE  /\ \A x \in S : Cardinality(Below(R, S, x)) \in 0 .. Cardinality(S) - 1
         /\ \A x, y \in S : <<x, y>> \in R =>
              Cardinality(Below(R, S, x)) < Cardinality(Below(R, S, y))
<1> DEFINE B(x) == Below(R, S, x)
<1>1. \A x \in S : B(x) \in SUBSET S /\ IsFiniteSet(B(x)) /\ Cardinality(B(x)) \in Nat
  BY FS_Subset, FS_CardinalityType DEF Below
<1>2. Cardinality(S) \in Nat
  BY FS_CardinalityType
<1>3. ASSUME NEW x \in S PROVE Cardinality(B(x)) \in 0 .. Cardinality(S) - 1
  <2>1. B(x) # S
    BY DEF Below, StrictOrder
  <2>2. Cardinality(B(x)) <= Cardinality(S) /\ Cardinality(B(x)) # Cardinality(S)
    BY <1>1, <2>1, FS_Subset
  <2> QED
    BY <1>1, <1>2, <2>2
<1>4. ASSUME NEW x \in S, NEW y \in S, <<x, y>> \in R
      PROVE  Cardinality(B(x)) < Cardinality(B(y))
  <2>1. B(x) \in SUBSET B(y) /\ x \in B(y) /\ x \notin B(x)
    BY <1>4 DEF Below, StrictOrder
  <2>2. B(x) # B(y)
    BY <2>1
  <2>3. Cardinality(B(x)) <= Cardinality(B(y)) /\ Cardinality(B(x)) # Cardinality(B(y))
    <3> HIDE DEF B
    <3> QED
      BY <1>1, <2>1, <2>2, FS_Subset
  <2> QED
    BY <1>1, <2>3
<1> QED
  BY <1>3, <1>4

LEMMA SortedFacts ==
  ASSUME NEW S, IsFiniteSet(S), NEW R, StrictOrder(R, S), NEW f, Sorts(f, R, S)
  PROVE  /\ f \in Seq(S) /\ Len(f) = Cardinality(S)
         /\ \A x \in S : \E i \in DOMAIN f : f[i] = x
         /\ \A i, j \in DOMAIN f : i < j => <<f[i], f[j]>> \in R
<1> DEFINE n == Cardinality(S)
           rank == [x \in S |-> Cardinality(Below(R, S, x))]
<1>1. n \in Nat
  BY FS_CardinalityType
<1>2. \A x \in S : rank[x] \in 0 .. n - 1
  BY Ranks
<1>3. \A x, y \in S : <<x, y>> \in R => rank[x] < rank[y]
  BY Ranks
<1>4. /\ f = [i \in 1 .. n |-> f[i]]
      /\ \A i \in 1 .. n : (\E r \in S : rank[r] = i - 1) => f[i] \in S /\ rank[f[i]] = i - 1
  BY DEF Sorts
<1> HIDE DEF n
<1>5. rank \in [S -> 0 .. n - 1]
  BY <1>2
<1> HIDE DEF rank
<1>6. rank \in Injection(S, 0 .. n - 1)
  <2>1. \A x, y \in S : rank[x] = rank[y] => x = y
    <3> SUFFICES ASSUME NEW x \in S, NEW y \in S, rank[x] = rank[y], x # y PROVE FALSE
      OBVIOUS
    <3>1. rank[x] < rank[y] \/ rank[y] < rank[x]
      BY <1>3 DEF StrictOrder
    <3>2. rank[x] \in 0 .. n - 1
      BY <1>2
    <3> QED
      BY <1>1, <3>1, <3>2
  <2> QED
    BY <1>5, <2>1 DEF Injection, IsInjective
<1>7. rank \in Surjection(S, 0 .. n - 1)
  <2>1. IsFiniteSet(0 .. n - 1) /\ Cardinality(0 .. n - 1) = n
    BY <1>1, FS_Interval
  <2> QED
    BY <1>6, <2>1, FS_Injection DEF n
<1>8. ASSUME NEW i \in 1 .. n PROVE f[i] \in S /\ rank[f[i]] = i - 1
  <2>1. i - 1 \in 0 .. n - 1
    BY <1>1
  <2>2. \E r \in S : rank[r] = i - 1
    BY <1>7, <2>1 DEF Surjection
  <2> QED
    BY <1>4, <2>2
<1>9. DOMAIN f = 1 .. n
  BY <1>4
<1>10. f \in Seq(S) /\ Len(f) = n
  BY <1>1, <1>4, <1>8
<1>11. ASSUME NEW x \in S PROVE \E i \in DOMAIN f : f[i] = x
  <2>1. rank[x] + 1 \in 1 .. n
    BY <1>1, <1>2
  <2>2. rank[f[rank[x] + 1]] = (rank[x] + 1) - 1 /\ f[rank[x] + 1] \in S
    BY <1>8, <2>1
  <2>3. rank[f[rank[x] + 1]] = rank[x]
    BY <1>1, <1>2, <2>2
  <2>4. f[rank[x] + 1] = x
    BY <1>6, <2>2, <2>3 DEF Injection, IsInjective
  <2> QED
    BY <1>9, <2>1, <2>4
<1>12. ASSUME NEW i \in 1 .. n, NEW j \in 1 .. n, i < j PROVE <<f[i], f[j]>> \in R
  <2>1. /\ f[i] \in S /\ rank[f[i]] = i - 1
        /\ f[j] \in S /\ rank[f[j]] = j - 1
    BY <1>8
  <2>2. f[i] # f[j] /\ ~ <<f[j], f[i]>> \in R
    BY <1>1, <1>3, <1>12, <2>1
  <2> QED
    BY <2>1, <2>2 DEF StrictOrder
<1> QED
  BY <1>9, <1>10, <1>11, <1>12 DEF n
----------------------------------------------------------------------------
(* Tables: what is appended to one, or updated in one, leaves it a table.  *)
LEMMA TableFacts ==
  ASSUME NEW t, NEW C, IsTable(t, C)
  PROVE  /\ Len(t) \in Nat /\ DOMAIN t = 1 .. Len(t) /\ 0 \notin DOMAIN t
         /\ \E S : t \in Seq(S)
<1>1. t \in Seq(ToSet(t))
  BY DEF IsTable
<1> QED
  BY <1>1

LEMMA SeqIsTable ==
  ASSUME NEW S, NEW t \in Seq(S), NEW C, \A i \in DOMAIN t : C \subseteq DOMAIN t[i]
  PROVE  IsTable(t, C)
<1>1. ToSet(t) = {t[i] : i \in DOMAIN t}
  BY DEF ToSet
<1>2. DOMAIN t = 1 .. Len(t) /\ Len(t) \in Nat
  OBVIOUS
<1>3. \A i \in 1 .. Len(t) : t[i] \in ToSet(t)
  BY <1>1, <1>2
<1>4. t \in Seq(ToSet(t))
  BY <1>2, <1>3
<1> QED
  BY <1>4 DEF IsTable

LEMMA AppendIsTable ==
  ASSUME NEW t, NEW C, IsTable(t, C), NEW r, C \subseteq DOMAIN r
  PROVE  LET u == Append(t, r) IN
         /\ IsTable(u, C)
         /\ Len(u) = Len(t) + 1 /\ u[Len(t) + 1] = r
         /\ \A i \in DOMAIN t : i \in DOMAIN u /\ u[i] = t[i]
         /\ \A i \in DOMAIN u : i \in DOMAIN t \/ i = Len(t) + 1
         /\ Len(t) + 1 \in DOMAIN u /\ Len(t) + 1 \notin DOMAIN t
<1>1. PICK S : t \in Seq(S)
  BY TableFacts
<1> DEFINE T == S \cup {r}
<1>2. t \in Seq(T) /\ r \in T
  BY <1>1
<1> HIDE DEF T
<1> DEFINE u == Append(t, r)
<1>3. /\ u \in Seq(T) /\ Len(u) = Len(t) + 1 /\ u[Len(t) + 1] = r
      /\ \A i \in DOMAIN t : i \in DOMAIN u /\ u[i] = t[i]
  BY <1>2
<1>4. /\ \A i \in DOMAIN u : i \in DOMAIN t \/ i = Len(t) + 1
      /\ Len(t) + 1 \in DOMAIN u /\ Len(t) + 1 \notin DOMAIN t
  BY <1>2
<1> HIDE DEF u
<1>5. \A i \in DOMAIN u : C \subseteq DOMAIN u[i]
  BY <1>3, <1>4 DEF IsTable
<1>6. IsTable(u, C)
  BY <1>3, <1>5, SeqIsTable
<1> QED
  BY <1>3, <1>4, <1>6 DEF u

LEMMA UpdateIsTable ==
  ASSUME NEW t, NEW C, IsTable(t, C), NEW u, u = [i \in DOMAIN t |-> u[i]],
         \A i \in DOMAIN t : C \subseteq DOMAIN u[i]
  PROVE  IsTable(u, C) /\ DOMAIN u = DOMAIN t
<1>1. DOMAIN t = 1 .. Len(t) /\ Len(t) \in Nat
  BY TableFacts
<1>2. DOMAIN u = 1 .. Len(t)
  BY <1>1
<1>3. ToSet(u) = {u[i] : i \in DOMAIN u}
  BY DEF ToSet
<1>4. \A i \in 1 .. Len(t) : u[i] \in ToSet(u)
  BY <1>2, <1>3
<1>5. u \in Seq(ToSet(u))
  BY <1>1, <1>2, <1>4
<1> QED
  BY <1>1, <1>2, <1>5 DEF IsTable

----------------------------------------------------------------------------
(* accounts                                                                *)
AccountColumns == {"email", "plan", "retention", "customer", "subscription", "billed", "password"}

(* No statement of a handler changes these columns, or removes a row.      *)
SameAccounts(t, u) ==
  \A i \in DOMAIN t : /\ i \in DOMAIN u
                      /\ u[i].email = t[i].email /\ u[i].password = t[i].password
                      /\ u[i].plan = t[i].plan /\ u[i].retention = t[i].retention

LEMMA AccountFacts ==
  ASSUME NEW t, AccountsOK(t)
  PROVE  /\ IsTable(t, AccountColumns)
         /\ Len(t) \in Nat /\ DOMAIN t = 1 .. Len(t) /\ 0 \notin DOMAIN t
         /\ DOMAIN t \subseteq Nat
<1>1. IsTable(t, AccountColumns)
  BY DEF AccountsOK, AccountColumns
<1>2. Len(t) \in Nat /\ DOMAIN t = 1 .. Len(t)
  BY <1>1, TableFacts
<1> QED
  BY <1>1, <1>2

LEMMA NewAccountKeeps ==
  ASSUME NEW t, AccountsOK(t), NEW e, NEW plan \in Plans, NEW pw, AccountsOf(t, e) = {}
  PROVE  LET x == NewAccount(e, plan, pw)
             u == Append(t, x) IN
         /\ AccountsOK(u) /\ SameAccounts(t, u)
         /\ Len(u) = Len(t) + 1 /\ u[Len(t) + 1] = x
         /\ \A i \in DOMAIN t : i \in DOMAIN u /\ u[i] = t[i]
         /\ \A i \in DOMAIN u : i \in DOMAIN t \/ i = Len(t) + 1
         /\ Len(t) + 1 \in DOMAIN u /\ Len(t) + 1 \notin DOMAIN t
<1> DEFINE x == NewAccount(e, plan, pw)
           u == Append(t, x)
<1>1. /\ AccountColumns \subseteq DOMAIN x
      /\ x.email = e /\ x.plan = plan /\ x.retention \in Nat /\ x.billed \in Int
  BY CloudTypesAssumption DEF NewAccount, AccountColumns, NeverBilled, Plans
<1>2. IsTable(t, AccountColumns)
  BY AccountFacts
<1> HIDE DEF x
<1>3. /\ IsTable(u, AccountColumns)
      /\ Len(u) = Len(t) + 1 /\ u[Len(t) + 1] = x
      /\ \A i \in DOMAIN t : i \in DOMAIN u /\ u[i] = t[i]
      /\ \A i \in DOMAIN u : i \in DOMAIN t \/ i = Len(t) + 1
      /\ Len(t) + 1 \in DOMAIN u /\ Len(t) + 1 \notin DOMAIN t
  BY <1>1, <1>2, AppendIsTable
<1> HIDE DEF u
<1>4. \A i \in DOMAIN t : t[i].email # e
  BY DEF AccountsOf, Where
<1>5. \A i \in DOMAIN u : u[i].plan \in Plans /\ u[i].retention \in Nat /\ u[i].billed \in Int
  BY <1>1, <1>3 DEF AccountsOK
<1>6. \A i, j \in DOMAIN u : u[i].email = u[j].email => i = j
  BY <1>1, <1>3, <1>4 DEF AccountsOK
<1>7. AccountsOK(u)
  BY <1>3, <1>5, <1>6 DEF AccountsOK, AccountColumns
<1>8. SameAccounts(t, u)
  BY <1>3 DEF SameAccounts
<1> QED
  BY <1>3, <1>7, <1>8 DEF u, x

LEMMA SameAccountsRefl ==
  ASSUME NEW t
  PROVE  SameAccounts(t, t)
BY DEF SameAccounts

LEMMA CreateAccountKeeps ==
  ASSUME NEW t, AccountsOK(t), NEW e, NEW plan \in Plans, NEW pw
  PROVE  LET r == CreateAccount(t, e, plan, pw)
             u == r.accounts IN
         /\ AccountsOK(u) /\ SameAccounts(t, u)
         /\ \A i \in DOMAIN t : u[i] = t[i]
         /\ ~ r.ok => u = t
         /\ r.ok => /\ Len(u) = Len(t) + 1
                    /\ Len(u) \in DOMAIN u /\ u[Len(u)] = NewAccount(e, plan, pw)
                    /\ \A i \in DOMAIN u : i \in DOMAIN t \/ i = Len(u)
                    /\ Len(u) \notin DOMAIN t
         /\ \A i \in DOMAIN u : i \in DOMAIN t \/ (i = Len(t) + 1 /\ u[i] = NewAccount(e, plan, pw))
<1> DEFINE x == NewAccount(e, plan, pw)
           r == CreateAccount(t, e, plan, pw)
<1>1. CASE AccountsOf(t, e) # {}
  <2>1. r = [ok |-> FALSE, accounts |-> t]
    BY <1>1 DEF CreateAccount
  <2> HIDE DEF r
  <2> QED
    BY <2>1, SameAccountsRefl DEF r
<1>2. CASE AccountsOf(t, e) = {}
  <2> DEFINE u == Append(t, x)
  <2>1. r = [ok |-> TRUE, accounts |-> u]
    BY <1>2 DEF CreateAccount
  <2>2. /\ AccountsOK(u) /\ SameAccounts(t, u)
        /\ Len(u) = Len(t) + 1 /\ u[Len(t) + 1] = x
        /\ \A i \in DOMAIN t : i \in DOMAIN u /\ u[i] = t[i]
        /\ \A i \in DOMAIN u : i \in DOMAIN t \/ i = Len(t) + 1
        /\ Len(t) + 1 \in DOMAIN u /\ Len(t) + 1 \notin DOMAIN t
    BY <1>2, NewAccountKeeps
  <2> HIDE DEF u, r, x
  <2> QED
    BY <2>1, <2>2 DEF r, x
<1> QED
  BY <1>1, <1>2

LEMMA UpsertAccountKeeps ==
  ASSUME NEW t, AccountsOK(t), NEW e, NEW plan \in Plans
  PROVE  LET r == UpsertAccountByEmail(t, e, plan)
             u == r.accounts IN
         /\ AccountsOK(u) /\ SameAccounts(t, u)
         /\ \A i \in DOMAIN t : u[i] = t[i]
         /\ r.id \in DOMAIN u /\ u[r.id].email = e
         /\ r.inserted \in BOOLEAN
         /\ ~ r.inserted => u = t
         /\ r.inserted => /\ AccountsOf(t, e) = {} /\ r.id = Len(t) + 1
                          /\ u[r.id] = NewAccount(e, plan, None)
         /\ \A i \in DOMAIN u : i \in DOMAIN t \/ (i = r.id /\ r.inserted)
<1> DEFINE x == NewAccount(e, plan, None)
           r == UpsertAccountByEmail(t, e, plan)
<1>1. CASE AccountsOf(t, e) # {}
  <2> DEFINE c == CHOOSE i \in AccountsOf(t, e) : TRUE
  <2>1. r = [accounts |-> t, id |-> c, inserted |-> FALSE]
    BY <1>1 DEF UpsertAccountByEmail
  <2>2. c \in AccountsOf(t, e)
    BY <1>1
  <2>3. c \in DOMAIN t /\ t[c].email = e
    BY <2>2 DEF AccountsOf, Where
  <2> HIDE DEF r, c
  <2> QED
    BY <2>1, <2>3, SameAccountsRefl DEF r
<1>2. CASE AccountsOf(t, e) = {}
  <2> DEFINE u == Append(t, x)
  <2>1. r = [accounts |-> u, id |-> Len(t) + 1, inserted |-> TRUE]
    BY <1>2 DEF UpsertAccountByEmail
  <2>2. /\ AccountsOK(u) /\ SameAccounts(t, u)
        /\ Len(u) = Len(t) + 1 /\ u[Len(t) + 1] = x
        /\ \A i \in DOMAIN t : i \in DOMAIN u /\ u[i] = t[i]
        /\ \A i \in DOMAIN u : i \in DOMAIN t \/ i = Len(t) + 1
        /\ Len(t) + 1 \in DOMAIN u /\ Len(t) + 1 \notin DOMAIN t
    BY <1>2, NewAccountKeeps DEF Plans
  <2>3. x.email = e
    BY DEF NewAccount
  <2> HIDE DEF u, r, x
  <2> QED
    BY <1>2, <2>1, <2>2, <2>3 DEF r, x
<1> QED
  BY <1>1, <1>2

LEMMA UpdatedAccounts ==
  ASSUME NEW t, AccountsOK(t), NEW u, u = [i \in DOMAIN t |-> u[i]],
         \A i \in DOMAIN t :
           /\ DOMAIN t[i] \subseteq DOMAIN u[i]
           /\ u[i].email = t[i].email /\ u[i].password = t[i].password
           /\ u[i].plan = t[i].plan /\ u[i].retention = t[i].retention
           /\ u[i].billed \in Int
  PROVE  AccountsOK(u) /\ SameAccounts(t, u) /\ DOMAIN u = DOMAIN t
<1>1. IsTable(t, AccountColumns)
  BY AccountFacts
<1>2. \A i \in DOMAIN t : AccountColumns \subseteq DOMAIN u[i]
  BY <1>1 DEF IsTable
<1>3. IsTable(u, AccountColumns) /\ DOMAIN u = DOMAIN t
  BY <1>1, <1>2, UpdateIsTable
<1>4. SameAccounts(t, u)
  BY <1>3 DEF SameAccounts
<1>5. AccountsOK(u)
  BY <1>3 DEF AccountsOK, AccountColumns
<1> QED
  BY <1>3, <1>4, <1>5

LEMMA SetStripeIdsKeeps ==
  ASSUME NEW t, AccountsOK(t), NEW a, NEW c, NEW sub
  PROVE  LET u == SetAccountStripeIds(t, a, c, sub) IN
         /\ AccountsOK(u) /\ SameAccounts(t, u) /\ DOMAIN u = DOMAIN t
         /\ \A i \in DOMAIN t : /\ u[i].billed = t[i].billed
                                /\ u[i].customer = IF i = a THEN c ELSE t[i].customer
<1> DEFINE u == SetAccountStripeIds(t, a, c, sub)
<1>1. \A i \in DOMAIN t : AccountColumns \subseteq DOMAIN t[i] /\ t[i].billed \in Int
  BY AccountFacts DEF IsTable, AccountsOK
<1>2. u = [i \in DOMAIN t |-> u[i]]
  BY DEF SetAccountStripeIds
<1>3. ASSUME NEW i \in DOMAIN t
      PROVE  /\ DOMAIN t[i] \subseteq DOMAIN u[i]
             /\ u[i].email = t[i].email /\ u[i].password = t[i].password
             /\ u[i].plan = t[i].plan /\ u[i].retention = t[i].retention
             /\ u[i].billed = t[i].billed
             /\ u[i].customer = IF i = a THEN c ELSE t[i].customer
  BY <1>1 DEF SetAccountStripeIds, AccountColumns
<1> HIDE DEF u
<1>4. AccountsOK(u) /\ SameAccounts(t, u) /\ DOMAIN u = DOMAIN t
  BY <1>1, <1>2, <1>3, UpdatedAccounts
<1> QED
  BY <1>3, <1>4 DEF u

LEMMA SetBilledKeeps ==
  ASSUME NEW t, AccountsOK(t), NEW a, NEW d \in Int
  PROVE  LET u == SetBilledThrough(t, a, d) IN
         /\ AccountsOK(u) /\ SameAccounts(t, u) /\ DOMAIN u = DOMAIN t
         /\ \A i \in DOMAIN t : /\ u[i].customer = t[i].customer
                                /\ u[i].billed = IF i = a THEN d ELSE t[i].billed
<1> DEFINE u == SetBilledThrough(t, a, d)
<1>1. \A i \in DOMAIN t : AccountColumns \subseteq DOMAIN t[i] /\ t[i].billed \in Int
  BY AccountFacts DEF IsTable, AccountsOK
<1>2. u = [i \in DOMAIN t |-> u[i]]
  BY DEF SetBilledThrough
<1>3. ASSUME NEW i \in DOMAIN t
      PROVE  /\ DOMAIN t[i] \subseteq DOMAIN u[i]
             /\ u[i].email = t[i].email /\ u[i].password = t[i].password
             /\ u[i].plan = t[i].plan /\ u[i].retention = t[i].retention
             /\ u[i].customer = t[i].customer
             /\ u[i].billed = IF i = a THEN d ELSE t[i].billed
  BY <1>1 DEF SetBilledThrough, AccountColumns
<1> HIDE DEF u
<1>4. AccountsOK(u) /\ SameAccounts(t, u) /\ DOMAIN u = DOMAIN t
  BY <1>1, <1>2, <1>3, UpdatedAccounts
<1> QED
  BY <1>3, <1>4 DEF u

----------------------------------------------------------------------------
(* api_keys                                                                *)
KeyColumns == {"account", "hash", "revoked"}

(* Whose a key is never changes.                                           *)
SameOwners(t, u) ==
  \A i \in DOMAIN t : i \in DOMAIN u /\ u[i].account = t[i].account /\ u[i].hash = t[i].hash

LEMMA CreateKeyKeeps ==
  ASSUME NEW t, IsTable(t, KeyColumns), NEW a, NEW h
  PROVE  LET u == CreateApiKey(t, a, h) IN
         /\ IsTable(u, KeyColumns)
         /\ SameOwners(t, u)
         /\ \A i \in DOMAIN t : u[i] = t[i]
         /\ \E i \in DOMAIN u : u[i].account = a /\ u[i].hash = h
         /\ \A i \in DOMAIN u : i \in DOMAIN t \/ (i = Len(t) + 1 /\ u[i] = NewKey(a, h))
         /\ Len(t) + 1 \notin DOMAIN t
<1> DEFINE x == NewKey(a, h)
           u == Append(t, x)
<1>1. KeyColumns \subseteq DOMAIN x /\ x.account = a /\ x.hash = h
  BY DEF NewKey, KeyColumns
<1>2. u = CreateApiKey(t, a, h)
  BY DEF CreateApiKey
<1> HIDE DEF x
<1>3. /\ IsTable(u, KeyColumns)
      /\ Len(u) = Len(t) + 1 /\ u[Len(t) + 1] = x
      /\ \A i \in DOMAIN t : i \in DOMAIN u /\ u[i] = t[i]
      /\ \A i \in DOMAIN u : i \in DOMAIN t \/ i = Len(t) + 1
      /\ Len(t) + 1 \in DOMAIN u /\ Len(t) + 1 \notin DOMAIN t
  BY <1>1, AppendIsTable
<1> HIDE DEF u
<1>4. SameOwners(t, u)
  BY <1>3 DEF SameOwners
<1>5. \A i \in DOMAIN u : i \in DOMAIN t \/ (i = Len(t) + 1 /\ u[i] = NewKey(a, h))
  BY <1>3 DEF x
<1> QED
  BY <1>1, <1>2, <1>3, <1>4, <1>5

LEMMA RevokeKeyKeeps ==
  ASSUME NEW t, IsTable(t, KeyColumns), NEW a, NEW k \in DOMAIN t
  PROVE  LET u == RevokeApiKey(t, a, k).keys IN
         /\ IsTable(u, KeyColumns) /\ DOMAIN u = DOMAIN t
         /\ SameOwners(t, u)
         /\ \A i \in DOMAIN t : t[i].account # a => u[i] = t[i]
         /\ \A i \in DOMAIN t : t[i].revoked \in BOOLEAN => u[i].revoked \in BOOLEAN
<1> DEFINE v == [t EXCEPT ![k].revoked = TRUE]
           u == RevokeApiKey(t, a, k).keys
<1>1. \A i \in DOMAIN t : KeyColumns \subseteq DOMAIN t[i]
  BY DEF IsTable
<1>2. SameOwners(t, t)
  BY DEF SameOwners
<1>3. u = t \/ (u = v /\ t[k].account = a)
  BY DEF RevokeApiKey, Revocable, Where
<1>4. /\ v = [i \in DOMAIN t |-> v[i]]
      /\ \A i \in DOMAIN t \ {k} : v[i] = t[i]
      /\ v[k] = [t[k] EXCEPT !.revoked = TRUE]
  BY TableFacts
<1> HIDE DEF v
<1>5. \A i \in DOMAIN t : /\ KeyColumns \subseteq DOMAIN v[i]
                          /\ v[i].account = t[i].account /\ v[i].hash = t[i].hash
                          /\ v[i] = t[i] \/ i = k
  BY <1>1, <1>4 DEF KeyColumns
<1>6. \A i \in DOMAIN t : t[i].revoked \in BOOLEAN => v[i].revoked \in BOOLEAN
  <2>1. v[k].revoked = TRUE
    BY <1>1, <1>4 DEF KeyColumns
  <2>2. v[k].revoked \in BOOLEAN
    BY <2>1
  <2> QED
    BY <1>4, <2>2
<1>7. IsTable(v, KeyColumns) /\ DOMAIN v = DOMAIN t
  BY <1>4, <1>5, UpdateIsTable
<1>8. SameOwners(t, v)
  BY <1>5, <1>7 DEF SameOwners
<1> HIDE DEF u
<1>9. CASE u = t
  BY <1>2, <1>9 DEF u
<1>10. CASE u = v /\ t[k].account = a
  BY <1>5, <1>7, <1>8, <1>10, <1>6 DEF u
<1> QED
  BY <1>3, <1>9, <1>10
----------------------------------------------------------------------------
(* usage                                                                   *)
CountOn(u, k) == IF k \in DOMAIN u THEN u[k] ELSE 0

UsageGrows(u, v) == \A k \in DOMAIN u : k \in DOMAIN v /\ u[k] <= v[k]

LEMMA RangeIsNat ==
  ASSUME NEW u, UsageOK(u), NEW a, NEW from, NEW to
  PROVE  AccountUsageInRange(u, a, from, to) \in Nat
<1> DEFINE D == Days(u, a, from, to)
<1>1. IsFiniteSet(D) /\ \A k \in D : u[k] \in Nat
  BY FS_Subset DEF Days, UsageOK
<1> HIDE DEF D
<1>2. SumOver(u, D) = Cardinality(UnitsOf(u, D)) /\ IsFiniteSet(UnitsOf(u, D))
  BY <1>1, SumIsUnits, FiniteUnits
<1> QED
  BY <1>2, FS_CardinalityType DEF AccountUsageInRange, D

(* What is counted later adds to a range, and takes nothing off it.        *)
LEMMA RangeGrows ==
  ASSUME NEW u, UsageOK(u), NEW v, UsageOK(v), UsageGrows(u, v), NEW a, NEW from, NEW to
  PROVE  AccountUsageInRange(u, a, from, to) <= AccountUsageInRange(v, a, from, to)
<1> DEFINE D == Days(u, a, from, to)
           E == Days(v, a, from, to)
<1>1. D \subseteq E
  BY DEF Days, UsageGrows
<1>2. \A k \in D : u[k] <= v[k]
  BY DEF Days, UsageGrows
<1>3. /\ IsFiniteSet(D) /\ \A k \in D : u[k] \in Nat
      /\ IsFiniteSet(E) /\ \A k \in E : v[k] \in Nat
  BY FS_Subset DEF Days, UsageOK
<1> HIDE DEF D, E
<1>4. /\ SumOver(u, D) = Cardinality(UnitsOf(u, D))
      /\ SumOver(v, E) = Cardinality(UnitsOf(v, E)) /\ IsFiniteSet(UnitsOf(v, E))
  BY <1>3, SumIsUnits, FiniteUnits
<1>5. \A k \in D : 1 .. u[k] \subseteq 1 .. v[k]
  BY <1>1, <1>2, <1>3
<1>6. UnitsOf(u, D) \subseteq UnitsOf(v, E)
  BY <1>1, <1>5 DEF UnitsOf, Units1
<1>7. Cardinality(UnitsOf(u, D)) <= Cardinality(UnitsOf(v, E))
  BY <1>4, <1>6, FS_Subset
<1> QED
  BY <1>4, <1>7 DEF AccountUsageInRange, D, E

(* One more, for one account and day, on which there was a row or none.    *)
LEMMA RecordUsageCounts ==
  ASSUME NEW u, UsageOK(u), NEW a \in Nat, NEW t \in Nat
  PROVE  LET v == RecordUsage(u, a, t) IN
         /\ UsageOK(v) /\ UsageGrows(u, v)
         /\ \A k : CountOn(v, k) = CountOn(u, k) + (IF k = <<a, DateNaive(t)>> THEN 1 ELSE 0)
<1> DEFINE k == <<a, DateNaive(t)>>
           v == RecordUsage(u, a, t)
           old == IF k \in DOMAIN u THEN u[k] ELSE 0
<1>1. DateNaive(t) \in Nat
  BY CloudTypesAssumption DEF DateNaive
<1>2. k \in Nat \X Nat
  BY <1>1
<1>3. v = [j \in DOMAIN u \cup {k} |->
             (IF j \in DOMAIN u THEN u[j] ELSE 0) + (IF j = k THEN 1 ELSE 0)]
  BY DEF RecordUsage
<1> HIDE DEF k
<1>4. \A j \in DOMAIN u : u[j] \in Nat \ {0}
  BY DEF UsageOK
<1>5. old \in Nat
  BY <1>4
<1>6. /\ DOMAIN v = DOMAIN u \cup {k}
      /\ v[k] = old + 1
      /\ \A j \in DOMAIN u : j # k => v[j] = u[j]
  BY <1>3, <1>4
<1> HIDE DEF v
<1>7. IsFiniteSet(DOMAIN v)
  BY <1>6, FS_AddElement DEF UsageOK
<1>8. \A j \in DOMAIN v : j \in Nat \X Nat /\ v[j] \in Nat \ {0}
  BY <1>2, <1>4, <1>5, <1>6 DEF UsageOK
<1>9. UsageGrows(u, v)
  BY <1>4, <1>6 DEF UsageGrows, old
<1>10. ASSUME NEW j PROVE CountOn(v, j) = CountOn(u, j) + (IF j = k THEN 1 ELSE 0)
  <2>1. CASE j = k
    BY <1>5, <1>6, <2>1 DEF CountOn, old
  <2>2. CASE j # k
    BY <1>4, <1>6, <2>2 DEF CountOn
  <2> QED
    BY <2>1, <2>2
<1> QED
  BY <1>7, <1>8, <1>9, <1>10 DEF UsageOK, k, v

----------------------------------------------------------------------------
(* attestations                                                            *)
Older(S) == {p \in S \X S : Before(p[1], p[2])}
Newer(S) == {p \in S \X S : Before(p[2], p[1])}

LEMMA RowFacts ==
  ASSUME NEW S, RowsOK(S)
  PROVE  /\ \A x \in S : /\ x.content \in Contents /\ x.account \in Nat /\ x.at \in Nat
                         /\ IdOf[x.content] \in Nat
                         /\ x # None
         /\ \A T \in SUBSET S : RowsOK(T)
<1>1. \A T \in SUBSET S : IsFiniteSet(T)
  BY FS_Subset DEF RowsOK
<1>2. \A x \in S : x \in [content : Contents, account : Nat, at : Nat]
  BY DEF RowsOK
<1>3. \A x \in S : IdOf[x.content] \in Nat
  BY <1>2, CloudTypesAssumption
<1> QED
  BY <1>1, <1>2, <1>3, CloudTypesAssumption DEF RowsOK

LEMMA RowsAreOrdered ==
  ASSUME NEW S, RowsOK(S)
  PROVE  StrictOrder(Older(S), S) /\ StrictOrder(Newer(S), S)
<1>1. \A x \in S : x.at \in Nat /\ IdOf[x.content] \in Nat
  BY RowFacts
<1>2. \A x \in S : ~ Before(x, x)
  BY <1>1 DEF Before
<1>3. \A x, y, z \in S : Before(x, y) /\ Before(y, z) => Before(x, z)
  BY <1>1 DEF Before
<1>4. \A x, y \in S : x = y \/ Before(x, y) \/ Before(y, x)
  BY <1>1 DEF Before, RowsOK
<1> QED
  BY <1>2, <1>3, <1>4 DEF StrictOrder, Older, Newer

LEMMA NewestFirstFacts ==
  ASSUME NEW S, RowsOK(S)
  PROVE  LET f == NewestFirst(S) IN
         /\ f \in Seq(S) /\ Len(f) = Cardinality(S)
         /\ \A x \in S : \E i \in DOMAIN f : f[i] = x
         /\ \A i, j \in DOMAIN f : i < j => Before(f[j], f[i])
<1> DEFINE f == NewestFirst(S)
<1>1. \A r \in S : Below(Newer(S), S, r) = {s \in S : Before(r, s)}
  BY DEF Below, Newer
<1>2. Sorts(f, Newer(S), S)
  <2>1. f = [i \in 1 .. Cardinality(S) |->
               CHOOSE r \in S : Cardinality({s \in S : Before(r, s)}) = i - 1]
    BY DEF NewestFirst, OrderBy
  <2>2. ASSUME NEW i \in 1 .. Cardinality(S),
               NEW r \in S, Cardinality({s \in S : Before(r, s)}) = i - 1
        PROVE  f[i] \in S /\ Cardinality({s \in S : Before(f[i], s)}) = i - 1
    BY <2>1, <2>2
  <2>3. f = [i \in 1 .. Cardinality(S) |-> f[i]]
    BY <2>1
  <2> HIDE DEF f
  <2>4. ASSUME NEW i \in 1 .. Cardinality(S),
               NEW r \in S, Cardinality(Below(Newer(S), S, r)) = i - 1
        PROVE  f[i] \in S /\ Cardinality(Below(Newer(S), S, f[i])) = i - 1
    <3>1. Cardinality({s \in S : Before(r, s)}) = i - 1
      BY <1>1, <2>4
    <3>2. f[i] \in S /\ Cardinality({s \in S : Before(f[i], s)}) = i - 1
      BY <2>2, <3>1
    <3> QED
      BY <1>1, <3>2
  <2> QED
    BY <2>3, <2>4 DEF Sorts
<1>3. IsFiniteSet(S) /\ StrictOrder(Newer(S), S)
  BY RowsAreOrdered DEF RowsOK
<1>4. /\ f \in Seq(S) /\ Len(f) = Cardinality(S)
      /\ \A x \in S : \E i \in DOMAIN f : f[i] = x
      /\ \A i, j \in DOMAIN f : i < j => <<f[i], f[j]>> \in Newer(S)
  BY <1>2, <1>3, SortedFacts
<1> HIDE DEF f
<1> QED
  BY <1>4 DEF Newer, f

LEMMA ListAllFacts ==
  ASSUME NEW rows, RowsOK(rows), NEW a
  PROVE  LET S == {r \in rows : r.account = a}
             f == ListAllAttestations(rows, a) IN
         /\ f \in Seq(S)
         /\ \A x \in S : \E i \in DOMAIN f : f[i] = x
         /\ \A i, j \in DOMAIN f : i < j => Before(f[i], f[j])
<1> DEFINE S == {r \in rows : r.account = a}
<1>1. RowsOK(S)
  BY RowFacts
<1> HIDE DEF S
<1>2. \A r \in S : Below(Older(S), S, r) = {s \in S : Before(s, r)}
  BY DEF Below, Older
<1> DEFINE f == OrderBy(S, Before)
<1>3. Sorts(f, Older(S), S)
  <2>1. f = [i \in 1 .. Cardinality(S) |->
               CHOOSE r \in S : Cardinality({s \in S : Before(s, r)}) = i - 1]
    BY DEF OrderBy
  <2>2. ASSUME NEW i \in 1 .. Cardinality(S),
               NEW r \in S, Cardinality({s \in S : Before(s, r)}) = i - 1
        PROVE  f[i] \in S /\ Cardinality({s \in S : Before(s, f[i])}) = i - 1
    BY <2>1, <2>2
  <2>3. f = [i \in 1 .. Cardinality(S) |-> f[i]]
    BY <2>1
  <2> HIDE DEF f
  <2>4. ASSUME NEW i \in 1 .. Cardinality(S),
               NEW r \in S, Cardinality(Below(Older(S), S, r)) = i - 1
        PROVE  f[i] \in S /\ Cardinality(Below(Older(S), S, f[i])) = i - 1
    <3>1. Cardinality({s \in S : Before(s, r)}) = i - 1
      BY <1>2, <2>4
    <3>2. f[i] \in S /\ Cardinality({s \in S : Before(s, f[i])}) = i - 1
      BY <2>2, <3>1
    <3> QED
      BY <1>2, <3>2
  <2> QED
    BY <2>3, <2>4 DEF Sorts
<1>4. IsFiniteSet(S) /\ StrictOrder(Older(S), S)
  BY <1>1, RowsAreOrdered DEF RowsOK
<1>5. /\ f \in Seq(S)
      /\ \A x \in S : \E i \in DOMAIN f : f[i] = x
      /\ \A i, j \in DOMAIN f : i < j => <<f[i], f[j]>> \in Older(S)
  BY <1>3, <1>4, SortedFacts
<1>6. ListAllAttestations(rows, a) = f
  BY DEF ListAllAttestations, S
<1> HIDE DEF f
<1>7. \A i, j \in DOMAIN f : i < j => Before(f[i], f[j])
  BY <1>5 DEF Older
<1> QED
  BY <1>5, <1>6, <1>7 DEF S

LEMMA Prefix ==
  ASSUME NEW S, NEW s \in Seq(S), NEW m \in Nat, m <= Len(s)
  PROVE  LET k == SubSeq(s, 1, m) IN
         /\ k \in Seq(S) /\ Len(k) = m /\ DOMAIN k = 1 .. m
         /\ \A i \in 1 .. m : k[i] = s[i] /\ i \in DOMAIN s
<1> DEFINE k == SubSeq(s, 1, m)
<1>1. \A i \in 1 .. m : i \in DOMAIN s /\ s[i] \in S
  OBVIOUS
<1>2. /\ k \in Seq(S) /\ Len(k) = (IF 1 <= m THEN m - 1 + 1 ELSE 0)
      /\ \A i \in 1 .. m - 1 + 1 : k[i] = s[1 + i - 1]
  BY <1>1, SubSeqProperties
<1> HIDE DEF k
<1>3. Len(k) = m
  BY <1>2
<1>4. DOMAIN k = 1 .. m
  BY <1>2, <1>3
<1>5. ASSUME NEW i \in 1 .. m PROVE k[i] = s[i]
  <2>1. i \in 1 .. m - 1 + 1 /\ 1 + i - 1 = i
    OBVIOUS
  <2> QED
    BY <1>2, <2>1
<1> QED
  BY <1>1, <1>2, <1>3, <1>4, <1>5 DEF k

(* A page is the newest of what the cursor leaves; what it leaves out is   *)
(* older than the cursor it ends with.                                     *)
LEMMA SearchFacts ==
  ASSUME NEW rows, RowsOK(rows), NEW a, NEW f, NEW limit \in Nat \ {0}, NEW cursor
  PROVE  LET S == {r \in rows : Matches(r, a, f) /\ Beyond(r, cursor)}
             p == SearchAttestations(rows, a, f, limit, cursor) IN
         /\ p.rows \in Seq(S)
         /\ \A i, j \in DOMAIN p.rows : i < j => Before(p.rows[j], p.rows[i])
         /\ p.next = None => \A x \in S : \E i \in DOMAIN p.rows : p.rows[i] = x
         /\ p.next # None =>
              /\ Len(p.rows) = limit /\ p.next = p.rows[limit]
              /\ \A x \in S : (\E i \in DOMAIN p.rows : p.rows[i] = x) \/ Before(x, p.next)
<1> DEFINE S == {r \in rows : Matches(r, a, f) /\ Beyond(r, cursor)}
           s == NewestFirst(S)
           p == SearchAttestations(rows, a, f, limit, cursor)
<1>1. RowsOK(S)
  BY RowFacts
<1>2. p = LET k == SubSeq(s, 1, IF Len(s) > limit THEN limit ELSE Len(s)) IN
          [rows |-> k, next |-> IF Len(s) > limit THEN k[limit] ELSE None]
  BY DEF SearchAttestations
<1> HIDE DEF S, p
<1>3. /\ s \in Seq(S)
      /\ \A x \in S : \E i \in DOMAIN s : s[i] = x
      /\ \A i, j \in DOMAIN s : i < j => Before(s[j], s[i])
  BY <1>1, NewestFirstFacts
<1>4. \A x \in S : x # None
  BY <1>1, RowFacts
<1> HIDE DEF s
<1>5. Len(s) \in Nat /\ DOMAIN s = 1 .. Len(s)
  BY <1>3
<1>6. CASE Len(s) > limit
  <2> DEFINE k == SubSeq(s, 1, limit)
  <2>1. p.rows = k /\ p.next = k[limit]
    BY <1>2, <1>6
  <2>2. /\ k \in Seq(S) /\ Len(k) = limit /\ DOMAIN k = 1 .. limit
        /\ \A i \in 1 .. limit : k[i] = s[i] /\ i \in DOMAIN s
    BY <1>3, <1>5, <1>6, Prefix
  <2> HIDE DEF k
  <2>3. limit \in 1 .. limit /\ k[limit] \in S /\ k[limit] # None
    BY <1>4, <2>2
  <2>4. \A i, j \in DOMAIN k : i < j => Before(k[j], k[i])
    BY <1>3, <2>2
  <2>5. ASSUME NEW x \in S PROVE (\E i \in DOMAIN k : k[i] = x) \/ Before(x, k[limit])
    <3>1. PICK i \in DOMAIN s : s[i] = x
      BY <1>3
    <3>2. CASE i \in 1 .. limit
      BY <2>2, <3>1, <3>2
    <3>3. CASE i \notin 1 .. limit
      <4>1. i > limit
        BY <1>5, <3>3
      <4>2. limit \in DOMAIN s /\ k[limit] = s[limit]
        BY <2>2, <2>3
      <4> QED
        BY <1>3, <3>1, <4>1, <4>2
    <3> QED
      BY <3>2, <3>3
  <2> QED
    BY <2>1, <2>2, <2>3, <2>4, <2>5 DEF S, p
<1>7. CASE ~(Len(s) > limit)
  <2>1. p.rows = s /\ p.next = None
    <3>1. SubSeq(s, 1, Len(s)) = s
      BY <1>3, SubSeqFull
    <3> QED
      BY <1>2, <1>7, <3>1
  <2> QED
    BY <1>3, <2>1 DEF S, p
<1> QED
  BY <1>6, <1>7
----------------------------------------------------------------------------
(* share_links                                                             *)
LinkColumns == {"account", "ids", "expires", "revoked"}

(* What a link names is fixed, and revoking it is not undone.              *)
SameLinks(t, u) ==
  \A l \in DOMAIN t : /\ l \in DOMAIN u
                      /\ u[l].ids = t[l].ids /\ u[l].expires = t[l].expires
                      /\ t[l].revoked => u[l].revoked

LEMMA CreateLinkKeeps ==
  ASSUME NEW t, LinksOK(t), NEW a, NEW ids \in Seq(Nat), NEW expires \in Int
  PROVE  LET u == CreateShareLink(t, NewLink(a, ids, expires)) IN LinksOK(u) /\ SameLinks(t, u)
<1> DEFINE x == NewLink(a, ids, expires)
           u == Append(t, x)
<1>1. LinkColumns \subseteq DOMAIN x /\ x.ids = ids /\ x.expires = expires /\ x.revoked = FALSE
  BY DEF NewLink, LinkColumns
<1>2. IsTable(t, LinkColumns)
  BY DEF LinksOK, LinkColumns
<1> HIDE DEF x
<1>3. /\ IsTable(u, LinkColumns)
      /\ u[Len(t) + 1] = x
      /\ \A i \in DOMAIN t : i \in DOMAIN u /\ u[i] = t[i]
      /\ \A i \in DOMAIN u : i \in DOMAIN t \/ i = Len(t) + 1
  BY <1>1, <1>2, AppendIsTable
<1> HIDE DEF u
<1>4. LinksOK(u)
  <2>1. x.revoked \in BOOLEAN
    BY <1>1
  <2> QED
    BY <1>1, <1>3, <2>1 DEF LinksOK, LinkColumns
<1> QED
  BY <1>3, <1>4 DEF SameLinks, CreateShareLink, u, x

LEMMA RevokeLinkKeeps ==
  ASSUME NEW t, LinksOK(t), NEW a, NEW k
  PROVE  LET u == RevokeShareLink(t, a, k).links IN LinksOK(u) /\ SameLinks(t, u)
<1> DEFINE u == RevokeShareLink(t, a, k).links
           v == [t EXCEPT ![k].revoked = TRUE]
<1>1. u = t \/ (u = v /\ k \in DOMAIN t)
  BY DEF RevokeShareLink, Where
<1>2. \A i \in DOMAIN t : LinkColumns \subseteq DOMAIN t[i]
  BY DEF LinksOK, IsTable, LinkColumns
<1>3. IsTable(t, LinkColumns)
  BY DEF LinksOK, LinkColumns
<1>4. /\ v = [i \in DOMAIN t |-> v[i]]
      /\ \A i \in DOMAIN t : v[i] = IF i = k THEN [t[i] EXCEPT !.revoked = TRUE] ELSE t[i]
  BY <1>3, TableFacts
<1> HIDE DEF v
<1>5. \A i \in DOMAIN t : /\ LinkColumns \subseteq DOMAIN v[i]
                          /\ v[i].ids = t[i].ids /\ v[i].expires = t[i].expires
                          /\ v[i] = t[i] \/ i = k
  BY <1>2, <1>4 DEF LinkColumns
<1>6. k \in DOMAIN t => v[k].revoked = TRUE
  BY <1>2, <1>4 DEF LinkColumns
<1>7. IsTable(v, LinkColumns) /\ DOMAIN v = DOMAIN t
  BY <1>3, <1>4, <1>5, UpdateIsTable
<1>8. ASSUME NEW i \in DOMAIN t
      PROVE  v[i].revoked \in BOOLEAN /\ (t[i].revoked => v[i].revoked)
  <2>1. CASE i = k
    BY <1>6, <1>8, <2>1
  <2>2. CASE i # k
    BY <1>5, <1>8, <2>2 DEF LinksOK
  <2> QED
    BY <2>1, <2>2
<1>9. LinksOK(v) /\ SameLinks(t, v)
  <2>1. \A i \in DOMAIN v : v[i].ids \in Seq(Nat) /\ v[i].expires \in Int
    BY <1>5, <1>7 DEF LinksOK
  <2>2. \A i \in DOMAIN v : v[i].revoked \in BOOLEAN
    BY <1>7, <1>8
  <2> QED
    BY <1>5, <1>7, <1>8, <2>1, <2>2 DEF LinksOK, SameLinks, LinkColumns
<1>10. SameLinks(t, t)
  BY DEF SameLinks
<1> HIDE DEF u
<1> QED
  BY <1>1, <1>9, <1>10 DEF u
=============================================================================
