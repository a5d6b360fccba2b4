---------------------------- MODULE StoresProofs ----------------------------
(***************************************************************************)
(* StoresAgree of module Stores, for any tables and any number of calls.   *)
(*                                                                         *)
(* Each call leaves the two stores with the same tables, one lemma per     *)
(* call; and equal tables answer every lookup alike, one lemma per table.  *)
(* The accounts are the same up to the ids and to those MemDb holds twice  *)
(* (Twinned).  Where the stores sort, it is because a set sorted by a      *)
(* strict order has one list (SortedOnce), whatever each sorts by.  A page *)
(* of a search is cut, in both stores, from the one list of the rows       *)
(* found: MemDb's cursor counts the rows before it, and PgDb's, a row,     *)
(* cuts it after the rows it has passed, whether or not it is one of them  *)
(* (CursorPasses).                                                         *)
(***************************************************************************)
EXTENDS Stores, CloudTableProofs

----------------------------------------------------------------------------
(* Lists: a sequence of all of S, each once.  Sorted, there is one.        *)
Lists(f, S) ==
  /\ f \in Seq(S)
  /\ \A x \in S : \E i \in DOMAIN f : f[i] = x
  /\ \A i, j \in DOMAIN f : f[i] = f[j] => i = j

Ascends(f, R) == \A i, j \in DOMAIN f : i < j => <<f[i], f[j]>> \in R

LEMMA ListLength ==
  ASSUME NEW f, NEW S, Lists(f, S)
  PROVE  IsFiniteSet(S) /\ Cardinality(S) = Len(f) /\ Len(f) \in Nat /\ DOMAIN f = 1 .. Len(f)
<1>1. f \in Seq(S) /\ Len(f) \in Nat /\ DOMAIN f = 1 .. Len(f)
  BY DEF Lists
<1>2. IsFiniteSet(1 .. Len(f)) /\ Cardinality(1 .. Len(f)) = Len(f)
  BY <1>1, FS_Interval
<1>3. f \in [1 .. Len(f) -> S]
  BY <1>1
<1>4. f \in Bijection(1 .. Len(f), S)
  BY <1>1, <1>3 DEF Lists, Bijection, Injection, Surjection, IsInjective
<1> QED
  BY <1>1, <1>2, <1>4, FS_Bijection DEF ExistsBijection

LEMMA NatLeast ==
  ASSUME NEW T \in SUBSET Nat, T # {}
  PROVE  \E x \in T : \A y \in T : x <= y
<1>1. PICK x \in T : \A y \in T : ~ <<y, x>> \in OpToRel(<, Nat)
  BY NatLessThanWellFounded, WFMin
<1>2. ASSUME NEW y \in T PROVE x <= y
  <2>1. x \in Nat /\ y \in Nat
    OBVIOUS
  <2>2. ~(y < x)
    BY <1>1, <2>1 DEF OpToRel
  <2> QED
    BY <2>1, <2>2
<1> QED
  BY <1>2

LEMMA SortedOnce ==
  ASSUME NEW S, NEW R, StrictOrder(R, S), NEW f, Lists(f, S), Ascends(f, R),
         NEW g, Lists(g, S), Ascends(g, R)
  PROVE  f = g
<1>1. Len(f) = Len(g) /\ Len(f) \in Nat /\ DOMAIN f = 1 .. Len(f) /\ DOMAIN g = 1 .. Len(f)
  BY ListLength
<1>2. f \in Seq(S) /\ g \in Seq(S)
  BY DEF Lists
<1> DEFINE Differ == {i \in 1 .. Len(f) : f[i] # g[i]}
<1>3. Differ = {}
  <2>1. SUFFICES ASSUME Differ # {} PROVE FALSE
    OBVIOUS
  <2>2. PICK i \in Differ : \A j \in Differ : i <= j
    <3>1. Differ \in SUBSET Nat
      OBVIOUS
    <3> HIDE DEF Differ
    <3> QED
      BY <2>1, <3>1, NatLeast
  <2>3. \A j \in 1 .. i - 1 : f[j] = g[j]
    BY <1>1, <2>2
  <2>4. f[i] \in S /\ g[i] \in S /\ i \in 1 .. Len(f)
    BY <1>1, <1>2
  <2>5. PICK j \in 1 .. Len(f) : g[j] = f[i]
    BY <1>1, <2>4 DEF Lists
  <2>6. PICK k \in 1 .. Len(f) : f[k] = g[i]
    BY <1>1, <2>4 DEF Lists
  <2>7. j > i
    <3>1. j # i
      BY <2>2, <2>5
    <3>2. ASSUME j < i PROVE FALSE
      <4>1. j \in 1 .. i - 1
        BY <1>1, <2>4, <3>2
      <4>2. f[j] = f[i] /\ j \in DOMAIN f /\ i \in DOMAIN f
        BY <1>1, <2>3, <2>4, <2>5, <4>1
      <4> QED
        BY <3>1, <4>2 DEF Lists
    <3> QED
      BY <1>1, <2>4, <3>1, <3>2
  <2>8. k > i
    <3>1. k # i
      BY <2>2, <2>6
    <3>2. ASSUME k < i PROVE FALSE
      <4>1. k \in 1 .. i - 1
        BY <1>1, <2>4, <3>2
      <4>2. g[k] = g[i] /\ k \in DOMAIN g /\ i \in DOMAIN g
        BY <1>1, <2>3, <2>4, <2>6, <4>1
      <4> QED
        BY <3>1, <4>2 DEF Lists
    <3> QED
      BY <1>1, <2>4, <3>1, <3>2
  <2>9. <<g[i], f[i]>> \in R /\ <<f[i], g[i]>> \in R
    BY <1>1, <2>4, <2>5, <2>6, <2>7, <2>8 DEF Ascends
  <2> QED
    BY <2>4, <2>9 DEF StrictOrder
<1> QED
  BY <1>1, <1>2, <1>3

LEMMA SortsAreLists ==
  ASSUME NEW S, IsFiniteSet(S), NEW R, StrictOrder(R, S), NEW f, Sorts(f, R, S)
  PROVE  Lists(f, S) /\ Ascends(f, R)
<1>1. /\ f \in Seq(S)
      /\ \A x \in S : \E i \in DOMAIN f : f[i] = x
      /\ \A i, j \in DOMAIN f : i < j => <<f[i], f[j]>> \in R
  BY SortedFacts
<1>2. ASSUME NEW i \in DOMAIN f, NEW j \in DOMAIN f, f[i] = f[j] PROVE i = j
  <2>1. i \in Nat /\ j \in Nat /\ f[i] \in S
    BY <1>1
  <2>2. <<f[i], f[i]>> \notin R
    BY <2>1 DEF StrictOrder
  <2>3. CASE i < j
    BY <1>1, <1>2, <2>2, <2>3
  <2>4. CASE j < i
    BY <1>1, <1>2, <2>2, <2>4
  <2> QED
    BY <2>1, <2>3, <2>4
<1> QED
  BY <1>1, <1>2 DEF Lists, Ascends

Rising(S) == {p \in S \X S : p[1] < p[2]}
Falling(S) == {p \in S \X S : p[1] > p[2]}

LEMMA NumbersAreOrdered ==
  ASSUME NEW S \in SUBSET Int
  PROVE  StrictOrder(Rising(S), S) /\ StrictOrder(Falling(S), S)
<1>1. \A x \in S : x \in Int
  OBVIOUS
<1> QED
  BY <1>1 DEF StrictOrder, Rising, Falling

LEMMA MemCounts ==
  ASSUME NEW S
  PROVE  Mem!Cardinality(S) = Cardinality(S)
BY DEF Mem!Cardinality, Cardinality

LEMMA InOrderFacts ==
  ASSUME NEW S \in SUBSET Int, IsFiniteSet(S)
  PROVE  Lists(Mem!InOrder(S), S) /\ Ascends(Mem!InOrder(S), Rising(S))
<1> DEFINE f == Mem!InOrder(S)
<1>1. \A r \in S : Below(Rising(S), S, r) = {s \in S : s < r}
  BY DEF Below, Rising
<1>2. f = [i \in 1 .. Mem!Cardinality(S) |->
             CHOOSE r \in S : Mem!Cardinality({s \in S : s < r}) = i - 1]
  BY DEF Mem!InOrder, Mem!OrderBy
<1>3. ASSUME NEW i \in 1 .. Cardinality(S), NEW r \in S, Cardinality({s \in S : s < r}) = i - 1
      PROVE  f[i] \in S /\ Cardinality({s \in S : s < f[i]}) = i - 1
  <2>1. Mem!Cardinality(S) = Cardinality(S) /\ Mem!Cardinality({s \in S : s < r}) = i - 1
    BY <1>3, MemCounts
  <2>2. f[i] \in S /\ Mem!Cardinality({s \in S : s < f[i]}) = i - 1
    BY <1>2, <2>1
  <2> QED
    BY <2>2, MemCounts
<1>4. Sorts(f, Rising(S), S)
  <2>1. Mem!Cardinality(S) = Cardinality(S)
    BY MemCounts
  <2>2. f = [i \in 1 .. Cardinality(S) |-> f[i]]
    BY <1>2, <2>1
  <2> QED
    BY <1>1, <1>3, <2>2 DEF Sorts
<1> QED
  BY <1>4, NumbersAreOrdered, SortsAreLists

LEMMA NewestFacts ==
  ASSUME NEW S \in SUBSET Int, IsFiniteSet(S)
  PROVE  Lists(Newest(S), S) /\ Ascends(Newest(S), Falling(S))
<1> DEFINE f == Newest(S)
<1>1. \A r \in S : Below(Falling(S), S, r) = {s \in S : s > r}
  BY DEF Below, Falling
<1>2. f = [i \in 1 .. Cardinality(S) |-> CHOOSE r \in S : Cardinality({s \in S : s > r}) = i - 1]
  BY DEF Newest, OrderBy
<1>3. ASSUME NEW i \in 1 .. Cardinality(S), NEW r \in S, Cardinality({s \in S : s > r}) = i - 1
      PROVE  f[i] \in S /\ Cardinality({s \in S : s > f[i]}) = i - 1
  BY <1>2, <1>3
<1>4. Sorts(f, Falling(S), S)
  BY <1>1, <1>2, <1>3 DEF Sorts
<1> QED
  BY <1>4, NumbersAreOrdered, SortsAreLists

----------------------------------------------------------------------------
(* Find: the least index of those that match, or 0.                        *)
Least(found) == IF found = {} THEN 0 ELSE CHOOSE i \in found : \A j \in found : i <= j

LEMMA LeastFacts ==
  ASSUME NEW t, NEW C, IsTable(t, C), NEW found \in SUBSET DOMAIN t
  PROVE  /\ found = {} => Least(found) = 0
         /\ found # {} => /\ Least(found) \in found /\ Least(found) # 0
                          /\ \A j \in found : Least(found) <= j
<1>1. DOMAIN t \subseteq Nat /\ 0 \notin DOMAIN t
  BY TableFacts
<1>2. CASE found # {}
  <2>1. \E i \in found : \A j \in found : i <= j
    BY <1>1, <1>2, NatLeast
  <2>2. Least(found) \in found /\ \A j \in found : Least(found) <= j
    BY <1>2, <2>1 DEF Least
  <2> QED
    BY <1>1, <1>2, <2>2
<1> QED
  BY <1>2 DEF Least

----------------------------------------------------------------------------
(* accounts: those of p, PgDb's, are those of m, MemDb's, that w names, in *)
(* the order they were created.  MemDb's others came after one of w with   *)
(* the same email.                                                         *)
UniqueEmails(t) == \A i, j \in DOMAIN t : t[i].email = t[j].email => i = j

Twinned(p, m, w) ==
  /\ IsTable(p, AccountColumns) /\ IsTable(m, AccountColumns) /\ IsTable(w, {})
  /\ DOMAIN w = DOMAIN p
  /\ \A i \in DOMAIN w : w[i] \in DOMAIN m /\ p[i] = m[w[i]]
  /\ \A i, j \in DOMAIN w : i < j => w[i] < w[j]
  /\ \A k \in DOMAIN m : \E i \in DOMAIN w : w[i] <= k /\ m[k].email = p[i].email

LEMMA TwinFacts ==
  ASSUME NEW p, NEW m, NEW w, Twinned(p, m, w)
  PROVE  /\ DOMAIN p \subseteq Nat \ {0} /\ DOMAIN m \subseteq Nat \ {0} /\ DOMAIN w = DOMAIN p
         /\ Len(p) \in Nat /\ Len(m) \in Nat /\ Len(w) = Len(p)
         /\ DOMAIN p = 1 .. Len(p) /\ DOMAIN m = 1 .. Len(m)
         /\ \A i \in DOMAIN w : w[i] \in DOMAIN m
         /\ \A i, j \in DOMAIN w : w[i] = w[j] => i = j
<1>1. /\ Len(p) \in Nat /\ DOMAIN p = 1 .. Len(p)
      /\ Len(m) \in Nat /\ DOMAIN m = 1 .. Len(m)
      /\ Len(w) \in Nat /\ DOMAIN w = 1 .. Len(w)
  BY TableFacts DEF Twinned
<1>2. DOMAIN w = DOMAIN p /\ \A i \in DOMAIN w : w[i] \in DOMAIN m
  BY DEF Twinned
<1>3. Len(w) = Len(p)
  <2>1. ASSUME NEW b \in Nat, NEW c \in Nat, 1 .. b = 1 .. c PROVE b <= c
    <3>1. b # 0 => b \in 1 .. c
      BY <2>1
    <3> QED
      BY <3>1
  <2>2. 1 .. Len(w) = 1 .. Len(p)
    BY <1>1, <1>2
  <2> DEFINE b == Len(w)
             c == Len(p)
  <2>3. b \in Nat /\ c \in Nat /\ 1 .. b = 1 .. c /\ 1 .. c = 1 .. b
    BY <1>1, <2>2
  <2> HIDE DEF b, c
  <2>4. b <= c /\ c <= b
    BY <2>1, <2>3
  <2>5. b = c
    BY <2>3, <2>4
  <2> QED
    BY <2>5 DEF b, c
<1>4. ASSUME NEW i \in DOMAIN w, NEW j \in DOMAIN w, w[i] = w[j] PROVE i = j
  <2>1. i \in Nat /\ j \in Nat /\ w[i] \in Nat /\ w[j] \in Nat
    BY <1>1, <1>2
  <2>2. /\ i < j => w[i] < w[j]
        /\ j < i => w[j] < w[i]
    BY DEF Twinned
  <2> QED
    BY <1>4, <2>1, <2>2
<1> QED
  BY <1>1, <1>2, <1>3, <1>4

LEMMA FindByEmailAgrees ==
  ASSUME NEW p, NEW m, NEW w, Twinned(p, m, w), UniqueEmails(p), NEW e
  PROVE  LET k == Mem!FindAccountByEmail(m, e) IN
         /\ k = 0 => AccountsOf(p, e) = {}
         /\ k # 0 => \E i \in DOMAIN p : AccountsOf(p, e) = {i} /\ w[i] = k
<1> DEFINE found == {k \in DOMAIN m : m[k].email = e}
           mine == AccountsOf(p, e)
<1>1. Mem!FindAccountByEmail(m, e) = Least(found)
  BY DEF Mem!FindAccountByEmail, Mem!Find, Mem!Indices, Least
<1>2. IsTable(m, AccountColumns) /\ found \in SUBSET DOMAIN m
  BY DEF Twinned
<1>3. \A i \in DOMAIN p : i \in mine <=> p[i].email = e
  BY DEF AccountsOf, Where
<1>4. mine \subseteq DOMAIN p /\ \A i, j \in mine : i = j
  BY DEF AccountsOf, Where, UniqueEmails
<1>5. \A k \in DOMAIN m : k \in found <=> m[k].email = e
  OBVIOUS
<1> HIDE DEF found, mine
<1>6. /\ found = {} => Least(found) = 0
      /\ found # {} => Least(found) \in found /\ Least(found) # 0 /\ \A j \in found : Least(found) <= j
  BY <1>2, LeastFacts
<1>7. DOMAIN w = DOMAIN p /\ DOMAIN m \subseteq Nat
  BY TwinFacts
<1>8. \A i \in mine : w[i] \in found
  <2> TAKE i \in mine
  <2>1. i \in DOMAIN w /\ w[i] \in DOMAIN m /\ p[i] = m[w[i]]
    BY <1>4, <1>7 DEF Twinned
  <2> QED
    BY <1>3, <1>4, <1>5, <2>1
<1>9. CASE found # {}
  <2> DEFINE k == Least(found)
  <2>1. k \in found /\ k \in DOMAIN m /\ m[k].email = e
    BY <1>2, <1>5, <1>6, <1>9
  <2> HIDE DEF k
  <2>2. PICK i \in DOMAIN w : w[i] <= k /\ m[k].email = p[i].email
    BY <2>1 DEF Twinned
  <2>3. i \in mine
    BY <1>3, <1>7, <2>1, <2>2
  <2>4. k <= w[i] /\ w[i] \in DOMAIN m
    BY <1>2, <1>6, <1>8, <1>9, <2>3 DEF k
  <2>5. w[i] = k
    BY <1>7, <2>1, <2>2, <2>4
  <2>6. mine = {i}
    BY <1>4, <2>3
  <2> QED
    BY <1>1, <1>6, <1>7, <1>9, <2>5, <2>6 DEF k, mine
<1>10. CASE found = {}
  BY <1>1, <1>6, <1>8, <1>10 DEF mine
<1> QED
  BY <1>9, <1>10

LEMMA NewAccountsAgree ==
  ASSUME NEW e, NEW plan, NEW pw
  PROVE  Mem!NewAccount(e, plan, pw) = NewAccount(e, plan, pw)
BY DEF Mem!NewAccount, NewAccount, Mem!NeverBilled, NeverBilled

(* A call that creates the account in both stores                          *)
LEMMA AccountOnBoth ==
  ASSUME NEW p, NEW m, NEW w, Twinned(p, m, w), UniqueEmails(p),
         NEW x, AccountColumns \subseteq DOMAIN x, \A i \in DOMAIN p : p[i].email # x.email
  PROVE  /\ Twinned(Append(p, x), Append(m, x), Append(w, Len(m) + 1))
         /\ UniqueEmails(Append(p, x))
         /\ Len(Append(m, x)) = Len(m) + 1
<1> DEFINE n == Len(m) + 1
           q == Append(p, x)
           u == Append(m, x)
           v == Append(w, n)
<1>1. /\ IsTable(p, AccountColumns) /\ IsTable(m, AccountColumns) /\ IsTable(w, {})
      /\ \A i \in DOMAIN w : w[i] \in DOMAIN m /\ p[i] = m[w[i]]
      /\ \A i, j \in DOMAIN w : i < j => w[i] < w[j]
      /\ \A k \in DOMAIN m : \E i \in DOMAIN w : w[i] <= k /\ m[k].email = p[i].email
  BY DEF Twinned
<1>2. /\ DOMAIN p \subseteq Nat \ {0} /\ DOMAIN m \subseteq Nat \ {0} /\ DOMAIN w = DOMAIN p
      /\ Len(p) \in Nat /\ Len(m) \in Nat /\ Len(w) = Len(p)
      /\ DOMAIN p = 1 .. Len(p) /\ DOMAIN m = 1 .. Len(m)
  BY TwinFacts
<1>3. /\ IsTable(q, AccountColumns) /\ Len(q) = Len(p) + 1 /\ q[Len(p) + 1] = x
      /\ \A i \in DOMAIN p : i \in DOMAIN q /\ q[i] = p[i]
      /\ \A i \in DOMAIN q : i \in DOMAIN p \/ i = Len(p) + 1
      /\ Len(p) + 1 \in DOMAIN q
  BY <1>1, AppendIsTable
<1>4. /\ IsTable(u, AccountColumns) /\ Len(u) = n /\ u[n] = x
      /\ \A k \in DOMAIN m : k \in DOMAIN u /\ u[k] = m[k]
      /\ \A k \in DOMAIN u : k \in DOMAIN m \/ k = n
      /\ n \in DOMAIN u
  BY <1>1, AppendIsTable
<1>5. /\ IsTable(v, {}) /\ v[Len(p) + 1] = n
      /\ \A i \in DOMAIN w : i \in DOMAIN v /\ v[i] = w[i]
      /\ \A i \in DOMAIN v : i \in DOMAIN w \/ i = Len(p) + 1
      /\ Len(p) + 1 \in DOMAIN v
  BY <1>1, <1>2, AppendIsTable
<1>6. n \in Nat /\ \A k \in DOMAIN m : k < n
  BY <1>2
<1>7. Len(p) + 1 \in Nat /\ \A i \in DOMAIN p : i < Len(p) + 1
  BY <1>2
<1> HIDE DEF n, q, u, v
<1>8. DOMAIN v = DOMAIN q
  BY <1>2, <1>3, <1>5
<1>9. \A i \in DOMAIN v : v[i] \in DOMAIN u /\ q[i] = u[v[i]]
  <2> TAKE i \in DOMAIN v
  <2>1. CASE i \in DOMAIN w
    BY <1>1, <1>2, <1>3, <1>4, <1>5, <2>1
  <2>2. CASE i = Len(p) + 1
    BY <1>3, <1>4, <1>5, <2>2
  <2> QED
    BY <1>5, <2>1, <2>2
<1>10. ASSUME NEW i \in DOMAIN v, NEW j \in DOMAIN v, i < j PROVE v[i] < v[j]
  <2>1. CASE j \in DOMAIN w
    <3>1. i \in DOMAIN w
      BY <1>2, <1>5, <1>7, <1>10, <2>1
    <3> QED
      BY <1>1, <1>5, <1>10, <2>1, <3>1
  <2>2. CASE j = Len(p) + 1
    <3>1. i \in DOMAIN w
      BY <1>5, <1>7, <1>10, <2>2
    <3>2. v[i] = w[i] /\ w[i] \in DOMAIN m /\ v[j] = n
      BY <1>1, <1>5, <2>2, <3>1
    <3> QED
      BY <1>6, <3>2
  <2> QED
    BY <1>5, <2>1, <2>2
<1>11. \A k \in DOMAIN u : \E i \in DOMAIN v : v[i] <= k /\ u[k].email = q[i].email
  <2> TAKE k \in DOMAIN u
  <2>1. CASE k \in DOMAIN m
    <3>1. PICK i \in DOMAIN w : w[i] <= k /\ m[k].email = p[i].email
      BY <1>1, <2>1
    <3>2. i \in DOMAIN v /\ v[i] = w[i] /\ q[i] = p[i] /\ u[k] = m[k]
      BY <1>2, <1>3, <1>4, <1>5, <2>1, <3>1
    <3> QED
      BY <3>1, <3>2
  <2>2. CASE k = n
    <3>1. v[Len(p) + 1] <= k /\ u[k].email = q[Len(p) + 1].email
      BY <1>3, <1>4, <1>5, <1>6, <2>2
    <3> QED
      BY <1>5, <3>1
  <2> QED
    BY <1>4, <2>1, <2>2
<1>12. Twinned(q, u, v)
  BY <1>3, <1>4, <1>5, <1>8, <1>9, <1>10, <1>11 DEF Twinned
<1>13. UniqueEmails(q)
  <2>1. ASSUME NEW i \in DOMAIN q, NEW j \in DOMAIN q, q[i].email = q[j].email PROVE i = j
    <3>1. CASE i \in DOMAIN p /\ j \in DOMAIN p
      BY <1>3, <2>1, <3>1 DEF UniqueEmails
    <3>2. CASE i = Len(p) + 1 /\ j = Len(p) + 1
      BY <3>2
    <3>3. CASE i \in DOMAIN p /\ j = Len(p) + 1
      BY <1>3, <2>1, <3>3
    <3>4. CASE j \in DOMAIN p /\ i = Len(p) + 1
      BY <1>3, <2>1, <3>4
    <3> QED
      BY <1>3, <3>1, <3>2, <3>3, <3>4
  <2> QED
    BY <2>1 DEF UniqueEmails
<1> QED
  BY <1>4, <1>5, <1>12, <1>13 DEF n, q, u, v

(* A creation that PgDb refuses: MemDb holds the email twice.              *)
LEMMA RepeatInMemDb ==
  ASSUME NEW p, NEW m, NEW w, Twinned(p, m, w),
         NEW x, AccountColumns \subseteq DOMAIN x,
         NEW i \in DOMAIN p, p[i].email = x.email
  PROVE  Twinned(p, Append(m, x), w)
<1> DEFINE u == Append(m, x)
<1>1. /\ IsTable(p, AccountColumns) /\ IsTable(m, AccountColumns) /\ IsTable(w, {})
      /\ DOMAIN w = DOMAIN p
      /\ \A j \in DOMAIN w : w[j] \in DOMAIN m /\ p[j] = m[w[j]]
      /\ \A j, k \in DOMAIN w : j < k => w[j] < w[k]
      /\ \A k \in DOMAIN m : \E j \in DOMAIN w : w[j] <= k /\ m[k].email = p[j].email
  BY DEF Twinned
<1>2. Len(m) \in Nat /\ DOMAIN m = 1 .. Len(m)
  BY TwinFacts
<1>3. /\ IsTable(u, AccountColumns) /\ u[Len(m) + 1] = x
      /\ \A k \in DOMAIN m : k \in DOMAIN u /\ u[k] = m[k]
      /\ \A k \in DOMAIN u : k \in DOMAIN m \/ k = Len(m) + 1
  BY <1>1, AppendIsTable
<1> HIDE DEF u
<1>4. \A k \in DOMAIN u : \E j \in DOMAIN w : w[j] <= k /\ u[k].email = p[j].email
  <2> TAKE k \in DOMAIN u
  <2>1. CASE k \in DOMAIN m
    BY <1>1, <1>3, <2>1
  <2>2. CASE k = Len(m) + 1
    <3>1. i \in DOMAIN w /\ w[i] \in 1 .. Len(m)
      BY <1>1, <1>2
    <3>2. w[i] <= k /\ u[k].email = p[i].email
      BY <1>2, <1>3, <2>2, <3>1
    <3> QED
      BY <3>1, <3>2
  <2> QED
    BY <1>3, <2>1, <2>2
<1>5. \A j \in DOMAIN w : w[j] \in DOMAIN u /\ p[j] = u[w[j]]
  BY <1>1, <1>3
<1>6. Twinned(p, u, w)
  BY <1>1, <1>3, <1>4, <1>5 DEF Twinned
<1> QED
  BY <1>6 DEF u

\* What the two stores make of one account's creation.
CreatedAlike(p, m, w, e, plan, pw) ==
  LET c == CreateAccount(p, e, plan, pw)
      d == Mem!CreateAccount(m, e, plan, pw)
      v == IF c.ok THEN Append(w, Len(d)) ELSE w IN
  /\ Twinned(c.accounts, d, v) /\ UniqueEmails(c.accounts)
  /\ Mem!FindAccountByEmail(m, e) = 0 => c.ok = TRUE
  /\ Mem!FindAccountByEmail(m, e) # 0 => c.ok = FALSE

LEMMA CreateAccountAgrees ==
  ASSUME NEW p, NEW m, NEW w, Twinned(p, m, w), UniqueEmails(p), NEW e, NEW plan, NEW pw
  PROVE  CreatedAlike(p, m, w, e, plan, pw)
<1> SUFFICES LET c == CreateAccount(p, e, plan, pw)
               d == Mem!CreateAccount(m, e, plan, pw)
               v == IF c.ok THEN Append(w, Len(d)) ELSE w IN
           /\ Twinned(c.accounts, d, v) /\ UniqueEmails(c.accounts)
           /\ Mem!FindAccountByEmail(m, e) = 0 => c.ok = TRUE
           /\ Mem!FindAccountByEmail(m, e) # 0 => c.ok = FALSE
  BY DEF CreatedAlike
<1> DEFINE x == NewAccount(e, plan, pw)
           k == Mem!FindAccountByEmail(m, e)
<1>1. /\ k = 0 => AccountsOf(p, e) = {}
      /\ k # 0 => \E i \in DOMAIN p : AccountsOf(p, e) = {i} /\ w[i] = k
  BY FindByEmailAgrees
<1> HIDE DEF k
<1>2. Mem!CreateAccount(m, e, plan, pw) = Append(m, x)
  BY NewAccountsAgree DEF Mem!CreateAccount
<1>3. x.email = e /\ AccountColumns \subseteq DOMAIN x
  BY DEF NewAccount, AccountColumns
<1>4. \A i \in DOMAIN p : i \in AccountsOf(p, e) <=> p[i].email = e
  BY DEF AccountsOf, Where
<1>5. CASE k = 0
  <2>1. CreateAccount(p, e, plan, pw) = [ok |-> TRUE, accounts |-> Append(p, x)]
    BY <1>1, <1>5 DEF CreateAccount
  <2>2. \A i \in DOMAIN p : p[i].email # x.email
    BY <1>1, <1>3, <1>4, <1>5
  <2> HIDE DEF x
  <2>3. /\ Twinned(Append(p, x), Append(m, x), Append(w, Len(m) + 1))
        /\ UniqueEmails(Append(p, x)) /\ Len(Append(m, x)) = Len(m) + 1
    BY <1>3, <2>2, AccountOnBoth
  <2> QED
    BY <1>2, <1>5, <2>1, <2>3 DEF k
<1>6. CASE k # 0
  <2>1. PICK i \in DOMAIN p : AccountsOf(p, e) = {i}
    BY <1>1, <1>6
  <2>2. CreateAccount(p, e, plan, pw) = [ok |-> FALSE, accounts |-> p]
    BY <2>1 DEF CreateAccount
  <2>3. p[i].email = x.email
    BY <1>3, <1>4, <2>1
  <2> HIDE DEF x
  <2>4. Twinned(p, Append(m, x), w)
    BY <1>3, <2>3, RepeatInMemDb
  <2> QED
    BY <1>2, <1>6, <2>2, <2>4 DEF k
<1> QED
  BY <1>5, <1>6

\* What the two stores make of one upsert by email.
UpsertedAlike(p, m, w, e, plan) ==
  LET c == UpsertAccountByEmail(p, e, plan)
      d == Mem!UpsertAccountByEmail(m, e, plan)
      v == IF c.inserted THEN Append(w, Len(d.accounts)) ELSE w IN
  /\ Twinned(c.accounts, d.accounts, v) /\ UniqueEmails(c.accounts)
  /\ v[c.id] = d.id /\ c.inserted = d.inserted

LEMMA UpsertAccountAgrees ==
  ASSUME NEW p, NEW m, NEW w, Twinned(p, m, w), UniqueEmails(p), NEW e, NEW plan
  PROVE  UpsertedAlike(p, m, w, e, plan)
<1> SUFFICES LET c == UpsertAccountByEmail(p, e, plan)
               d == Mem!UpsertAccountByEmail(m, e, plan)
               v == IF c.inserted THEN Append(w, Len(d.accounts)) ELSE w IN
           /\ Twinned(c.accounts, d.accounts, v) /\ UniqueEmails(c.accounts)
           /\ v[c.id] = d.id /\ c.inserted = d.inserted
  BY DEF UpsertedAlike
<1> DEFINE x == NewAccount(e, plan, None)
           k == Mem!FindAccountByEmail(m, e)
<1>1. /\ k = 0 => AccountsOf(p, e) = {}
      /\ k # 0 => \E i \in DOMAIN p : AccountsOf(p, e) = {i} /\ w[i] = k
  BY FindByEmailAgrees
<1>2. Mem!CreateAccount(m, e, plan, None) = Append(m, x)
  BY NewAccountsAgree DEF Mem!CreateAccount
<1>3. x.email = e /\ AccountColumns \subseteq DOMAIN x
  BY DEF NewAccount, AccountColumns
<1>4. \A i \in DOMAIN p : i \in AccountsOf(p, e) <=> p[i].email = e
  BY DEF AccountsOf, Where
<1>5. CASE k = 0
  <2>1. /\ UpsertAccountByEmail(p, e, plan)
             = [accounts |-> Append(p, x), id |-> Len(p) + 1, inserted |-> TRUE]
        /\ Mem!UpsertAccountByEmail(m, e, plan)
             = [accounts |-> Append(m, x), id |-> Len(m) + 1, inserted |-> TRUE]
    BY <1>1, <1>2, <1>5 DEF UpsertAccountByEmail, Mem!UpsertAccountByEmail
  <2>2. \A i \in DOMAIN p : p[i].email # x.email
    BY <1>1, <1>3, <1>4, <1>5
  <2> HIDE DEF x
  <2> DEFINE q == Append(p, x)
             u == Append(m, x)
             v == Append(w, Len(m) + 1)
  <2>3. Twinned(q, u, v) /\ UniqueEmails(q)
    BY <1>3, <2>2, AccountOnBoth
  <2>4. Len(u) = Len(m) + 1
    BY <1>3, <2>2, AccountOnBoth
  <2>5. v[Len(p) + 1] = Len(m) + 1
    <3>1. IsTable(w, {}) /\ Len(w) = Len(p)
      BY TwinFacts DEF Twinned
    <3> DEFINE n == Len(m) + 1
    <3> HIDE DEF n
    <3>2. Append(w, n)[Len(w) + 1] = n
      BY <3>1, AppendIsTable
    <3>3. Append(w, n)[Len(p) + 1] = n
      BY <3>1, <3>2
    <3> QED
      BY <3>3 DEF n, v
  <2>6. v = Append(w, Len(u))
    BY <2>4
  <2> HIDE DEF q, u, v
  <2>7. /\ UpsertAccountByEmail(p, e, plan) = [accounts |-> q, id |-> Len(p) + 1, inserted |-> TRUE]
        /\ Mem!UpsertAccountByEmail(m, e, plan)
             = [accounts |-> u, id |-> Len(m) + 1, inserted |-> TRUE]
    BY <2>1 DEF q, u
  <2> DEFINE c == UpsertAccountByEmail(p, e, plan)
             d == Mem!UpsertAccountByEmail(m, e, plan)
  <2>8. /\ c.accounts = q /\ c.id = Len(p) + 1 /\ c.inserted = TRUE
        /\ d.accounts = u /\ d.id = Len(m) + 1 /\ d.inserted = TRUE
    BY <2>7
  <2> HIDE DEF c, d
  <2>9. (IF c.inserted THEN Append(w, Len(d.accounts)) ELSE w) = v
    BY <2>6, <2>8
  <2> QED
    BY <2>3, <2>5, <2>8, <2>9 DEF c, d
<1>6. CASE k # 0
  <2>1. PICK i \in DOMAIN p : AccountsOf(p, e) = {i} /\ w[i] = k
    BY <1>1, <1>6
  <2>2. (CHOOSE j \in AccountsOf(p, e) : TRUE) = i
    BY <2>1
  <2>3. /\ UpsertAccountByEmail(p, e, plan) = [accounts |-> p, id |-> i, inserted |-> FALSE]
        /\ Mem!UpsertAccountByEmail(m, e, plan) = [accounts |-> m, id |-> k, inserted |-> FALSE]
    BY <1>6, <2>1, <2>2 DEF UpsertAccountByEmail, Mem!UpsertAccountByEmail
  <2> QED
    BY <2>1, <2>3
<1> QED
  BY <1>5, <1>6

(* What updates the columns other than the email of one account: a is its  *)
(* id in MemDb, b in PgDb, and x the row it becomes.                       *)
LEMMA UpdateAgrees ==
  ASSUME NEW p, NEW m, NEW w, Twinned(p, m, w), NEW a, NEW b,
         \A i \in DOMAIN p : i = b <=> w[i] = a,
         NEW u, u = [i \in DOMAIN p |-> u[i]], NEW v, v = [k \in DOMAIN m |-> v[k]], NEW x,
         \A i \in DOMAIN p : u[i] = IF i = b THEN x ELSE p[i],
         \A k \in DOMAIN m : v[k] = IF k = a THEN x ELSE m[k],
         a \in DOMAIN m => AccountColumns \subseteq DOMAIN x /\ x.email = m[a].email
  PROVE  Twinned(u, v, w) /\ (UniqueEmails(p) => UniqueEmails(u))
<1>1. /\ IsTable(p, AccountColumns) /\ IsTable(m, AccountColumns) /\ IsTable(w, {})
      /\ DOMAIN w = DOMAIN p
      /\ \A j \in DOMAIN w : w[j] \in DOMAIN m /\ p[j] = m[w[j]]
      /\ \A j, k \in DOMAIN w : j < k => w[j] < w[k]
      /\ \A k \in DOMAIN m : \E j \in DOMAIN w : w[j] <= k /\ m[k].email = p[j].email
  BY DEF Twinned
<1>2. \A k \in DOMAIN m : AccountColumns \subseteq DOMAIN v[k] /\ v[k].email = m[k].email
  BY <1>1 DEF IsTable
<1>3. \A i \in DOMAIN p : u[i] = v[w[i]] /\ w[i] \in DOMAIN m
  BY <1>1
<1>4. \A i \in DOMAIN p : AccountColumns \subseteq DOMAIN u[i] /\ u[i].email = p[i].email
  BY <1>1, <1>2, <1>3
<1>5. IsTable(u, AccountColumns) /\ DOMAIN u = DOMAIN p
  BY <1>1, <1>4, UpdateIsTable
<1>6. IsTable(v, AccountColumns) /\ DOMAIN v = DOMAIN m
  BY <1>1, <1>2, UpdateIsTable
<1>7. \A k \in DOMAIN v : \E j \in DOMAIN w : w[j] <= k /\ v[k].email = u[j].email
  BY <1>1, <1>2, <1>4, <1>6
<1>8. Twinned(u, v, w)
  BY <1>1, <1>3, <1>5, <1>6, <1>7 DEF Twinned
<1>9. UniqueEmails(p) => UniqueEmails(u)
  BY <1>4, <1>5 DEF UniqueEmails
<1> QED
  BY <1>8, <1>9

LEMMA TwinRow ==
  ASSUME NEW p, NEW m, NEW w, Twinned(p, m, w), NEW a, NEW b,
         \A i \in DOMAIN p : i = b <=> w[i] = a
  PROVE  b \in DOMAIN p => a \in DOMAIN m /\ p[b] = m[a]
BY DEF Twinned

LEMMA SetStripeIdsAgrees ==
  ASSUME NEW p, NEW m, NEW w, Twinned(p, m, w), NEW a, NEW b,
         \A i \in DOMAIN p : i = b <=> w[i] = a, NEW c, NEW s
  PROVE  LET u == SetAccountStripeIds(p, b, c, s)
             v == Mem!SetAccountStripeIds(m, a, c, s) IN
         Twinned(u, v, w) /\ (UniqueEmails(p) => UniqueEmails(u))
<1> DEFINE r == m[a]
           x == IF s = None THEN [r EXCEPT !.customer = c]
                ELSE [r EXCEPT !.customer = c, !.subscription = s]
           u == SetAccountStripeIds(p, b, c, s)
           v == Mem!SetAccountStripeIds(m, a, c, s)
<1>1. u = [i \in DOMAIN p |->
             IF i # b THEN p[i]
             ELSE [p[i] EXCEPT !.customer = c, !.subscription = IF s = None THEN @ ELSE s]]
  BY DEF SetAccountStripeIds
<1>2. m = [k \in DOMAIN m |-> m[k]] /\ \A k \in DOMAIN m : AccountColumns \subseteq DOMAIN m[k]
  BY TableFacts DEF Twinned, IsTable
<1>3. v = [k \in DOMAIN m |-> IF k = a THEN x ELSE m[k]]
  <2>1. CASE a \notin DOMAIN m
    <3>1. v = m
      BY <2>1 DEF Mem!SetAccountStripeIds
    <3> QED
      BY <1>2, <2>1, <3>1
  <2>2. CASE a \in DOMAIN m
    <3>1. v = LET known == [m EXCEPT ![a].customer = c]
              IN IF s = None THEN known ELSE [known EXCEPT ![a].subscription = s]
      BY <2>2 DEF Mem!SetAccountStripeIds
    <3>2. CASE s = None
      BY <1>2, <2>2, <3>1, <3>2
    <3>3. CASE s # None
      BY <1>2, <2>2, <3>1, <3>3
    <3> QED
      BY <3>2, <3>3
  <2> QED
    BY <2>1, <2>2
<1>4. b \in DOMAIN p => a \in DOMAIN m /\ p[b] = r
  BY TwinRow
<1>5. a \in DOMAIN m => AccountColumns \subseteq DOMAIN x /\ x.email = r.email
  BY <1>2 DEF AccountColumns
<1>6. b \in DOMAIN p =>
        [p[b] EXCEPT !.customer = c, !.subscription = IF s = None THEN @ ELSE s] = x
  <2>1. [r EXCEPT !.customer = c, !.subscription = @] = [r EXCEPT !.customer = c]
    OBVIOUS
  <2> QED
    BY <1>4, <2>1
<1> HIDE DEF u, v, x
<1>7. \A i \in DOMAIN p : u[i] = IF i = b THEN x ELSE p[i]
  BY <1>1, <1>6
<1>8. u = [i \in DOMAIN p |-> u[i]] /\ v = [k \in DOMAIN m |-> v[k]]
  BY <1>1, <1>3
<1>9. \A k \in DOMAIN m : v[k] = IF k = a THEN x ELSE m[k]
  BY <1>3
<1>10. Twinned(u, v, w) /\ (UniqueEmails(p) => UniqueEmails(u))
  BY <1>5, <1>7, <1>8, <1>9, UpdateAgrees DEF r
<1> QED
  BY <1>10 DEF u, v

LEMMA SetPlanAgrees ==
  ASSUME NEW p, NEW m, NEW w, Twinned(p, m, w), NEW a, NEW b,
         \A i \in DOMAIN p : i = b <=> w[i] = a, NEW plan
  PROVE  LET u == SetAccountPlan(p, b, plan)
             v == Mem!SetAccountPlan(m, a, plan) IN
         Twinned(u, v, w) /\ (UniqueEmails(p) => UniqueEmails(u))
<1> DEFINE r == m[a]
           x == [r EXCEPT !.plan = plan, !.retention = Retention[plan]]
           u == SetAccountPlan(p, b, plan)
           v == Mem!SetAccountPlan(m, a, plan)
<1>1. u = [i \in DOMAIN p |-> IF i # b THEN p[i] ELSE [p[i] EXCEPT !.plan = plan, !.retention = Retention[plan]]]
  BY DEF SetAccountPlan
<1>2. m = [k \in DOMAIN m |-> m[k]] /\ \A k \in DOMAIN m : AccountColumns \subseteq DOMAIN m[k]
  BY TableFacts DEF Twinned, IsTable
<1>3. v = [k \in DOMAIN m |-> IF k = a THEN x ELSE m[k]]
  <2>1. v = IF a \notin DOMAIN m THEN m ELSE [m EXCEPT ![a] = x]
    BY DEF Mem!SetAccountPlan
  <2> HIDE DEF x, v
  <2> QED
    BY <1>2, <2>1
<1>4. b \in DOMAIN p => a \in DOMAIN m /\ p[b] = r
  BY TwinRow
<1>5. a \in DOMAIN m => AccountColumns \subseteq DOMAIN x /\ x.email = r.email
  BY <1>2 DEF AccountColumns
<1>6. b \in DOMAIN p => [p[b] EXCEPT !.plan = plan, !.retention = Retention[plan]] = x
  BY <1>4
<1> HIDE DEF u, v, x
<1>7. \A i \in DOMAIN p : u[i] = IF i = b THEN x ELSE p[i]
  BY <1>1, <1>6
<1>8. u = [i \in DOMAIN p |-> u[i]] /\ v = [k \in DOMAIN m |-> v[k]]
  BY <1>1, <1>3
<1>9. \A k \in DOMAIN m : v[k] = IF k = a THEN x ELSE m[k]
  BY <1>3
<1>10. Twinned(u, v, w) /\ (UniqueEmails(p) => UniqueEmails(u))
  BY <1>5, <1>7, <1>8, <1>9, UpdateAgrees DEF r
<1> QED
  BY <1>10 DEF u, v

LEMMA SetBilledAgrees ==
  ASSUME NEW p, NEW m, NEW w, Twinned(p, m, w), NEW a, NEW b,
         \A i \in DOMAIN p : i = b <=> w[i] = a, NEW day
  PROVE  LET u == SetBilledThrough(p, b, day)
             v == Mem!SetBilledThrough(m, a, day) IN
         Twinned(u, v, w) /\ (UniqueEmails(p) => UniqueEmails(u))
<1> DEFINE r == m[a]
           x == [r EXCEPT !.billed = day]
           u == SetBilledThrough(p, b, day)
           v == Mem!SetBilledThrough(m, a, day)
<1>1. u = [i \in DOMAIN p |-> IF i # b THEN p[i] ELSE [p[i] EXCEPT !.billed = day]]
  BY DEF SetBilledThrough
<1>2. m = [k \in DOMAIN m |-> m[k]] /\ \A k \in DOMAIN m : AccountColumns \subseteq DOMAIN m[k]
  BY TableFacts DEF Twinned, IsTable
<1>3. v = [k \in DOMAIN m |-> IF k = a THEN x ELSE m[k]]
  <2>1. v = IF a \notin DOMAIN m THEN m ELSE [m EXCEPT ![a] = x]
    BY DEF Mem!SetBilledThrough
  <2> HIDE DEF x, v
  <2> QED
    BY <1>2, <2>1
<1>4. b \in DOMAIN p => a \in DOMAIN m /\ p[b] = r
  BY TwinRow
<1>5. a \in DOMAIN m => AccountColumns \subseteq DOMAIN x /\ x.email = r.email
  BY <1>2 DEF AccountColumns
<1>6. b \in DOMAIN p => [p[b] EXCEPT !.billed = day] = x
  BY <1>4
<1> HIDE DEF u, v, x
<1>7. \A i \in DOMAIN p : u[i] = IF i = b THEN x ELSE p[i]
  BY <1>1, <1>6
<1>8. u = [i \in DOMAIN p |-> u[i]] /\ v = [k \in DOMAIN m |-> v[k]]
  BY <1>1, <1>3
<1>9. \A k \in DOMAIN m : v[k] = IF k = a THEN x ELSE m[k]
  BY <1>3
<1>10. Twinned(u, v, w) /\ (UniqueEmails(p) => UniqueEmails(u))
  BY <1>5, <1>7, <1>8, <1>9, UpdateAgrees DEF r
<1> QED
  BY <1>10 DEF u, v

LEMMA PgIdFacts ==
  ASSUME Twinned(pg.accounts, mem.accounts, twin), NEW a
  PROVE  \A i \in DOMAIN pg.accounts : i = PgId(a) <=> twin[i] = a
<1> DEFINE same == {i \in DOMAIN twin : twin[i] = a}
<1>1. /\ DOMAIN twin = DOMAIN pg.accounts /\ 0 \notin DOMAIN pg.accounts
      /\ \A i, j \in DOMAIN twin : twin[i] = twin[j] => i = j
  <2> DEFINE p == pg.accounts
             m == mem.accounts
  <2>1. Twinned(p, m, twin)
    OBVIOUS
  <2> HIDE DEF p, m
  <2>2. /\ DOMAIN p \subseteq Nat \ {0} /\ DOMAIN twin = DOMAIN p
        /\ \A i, j \in DOMAIN twin : twin[i] = twin[j] => i = j
    BY <2>1, TwinFacts
  <2> QED
    BY <2>2 DEF p
<1>2. PgId(a) = IF same = {} THEN 0 ELSE CHOOSE i \in same : TRUE
  BY DEF PgId
<1>3. same # {} => PgId(a) \in same
  BY <1>2
<1>4. same = {} => PgId(a) = 0
  BY <1>2
<1> QED
  BY <1>1, <1>3, <1>4

LEMMA AccountsAgree ==
  ASSUME Twinned(pg.accounts, mem.accounts, twin),
         table = "accounts" => UniqueEmails(pg.accounts)
  PROVE  TheSameAccounts
<1> DEFINE p == pg.accounts
           m == mem.accounts
<1>1. Twinned(p, m, twin)
  OBVIOUS
<1>2. Repeats = DOMAIN m \ ToSet(twin)
  BY DEF Repeats
<1>3. table = "accounts" => UniqueEmails(p)
  OBVIOUS
<1> HIDE DEF p, m
<1>4. /\ DOMAIN p \subseteq Nat \ {0} /\ DOMAIN m \subseteq Nat \ {0} /\ DOMAIN twin = DOMAIN p
      /\ \A i \in DOMAIN twin : twin[i] \in DOMAIN m
      /\ \A i, j \in DOMAIN twin : twin[i] = twin[j] => i = j
  BY <1>1, TwinFacts
<1>5. /\ \A i \in DOMAIN twin : p[i] = m[twin[i]]
      /\ \A i, j \in DOMAIN twin : i < j => twin[i] < twin[j]
      /\ \A k \in DOMAIN m : \E i \in DOMAIN twin : twin[i] <= k /\ m[k].email = p[i].email
      /\ IsTable(p, AccountColumns) /\ IsTable(m, AccountColumns)
  BY <1>1 DEF Twinned
<1>6. ToSet(twin) = {twin[i] : i \in DOMAIN twin}
  BY DEF ToSet
<1>7. Twin(0) = 0 /\ \A i \in DOMAIN p : Twin(i) = twin[i]
  BY <1>4 DEF Twin
<1>8. p = [i \in DOMAIN twin |-> m[twin[i]]]
  <2>1. p = [i \in DOMAIN p |-> p[i]]
    BY <1>5, TableFacts
  <2> QED
    BY <1>4, <1>5, <2>1
<1>9. \A k \in Repeats : \E i \in DOMAIN twin : twin[i] < k /\ m[k].email = p[i].email
  <2> TAKE k \in Repeats
  <2>1. k \in DOMAIN m /\ \A i \in DOMAIN twin : twin[i] # k
    BY <1>2, <1>6
  <2>2. PICK i \in DOMAIN twin : twin[i] <= k /\ m[k].email = p[i].email
    BY <1>5, <2>1
  <2>3. twin[i] \in Nat /\ k \in Nat
    BY <1>4, <2>1
  <2> QED
    BY <2>1, <2>2, <2>3
<1>10. ASSUME table = "accounts", NEW e \in Emails
       PROVE  {Twin(i) : i \in FindAccountByEmail(p, e)} = {Mem!FindAccountByEmail(m, e)}
  <2> DEFINE k == Mem!FindAccountByEmail(m, e)
  <2>1. UniqueEmails(p)
    BY <1>3, <1>10
  <2>2. /\ k = 0 => AccountsOf(p, e) = {}
        /\ k # 0 => \E i \in DOMAIN p : AccountsOf(p, e) = {i} /\ twin[i] = k
    BY <1>1, <2>1, FindByEmailAgrees
  <2> HIDE DEF k
  <2>3. CASE k = 0
    <3>1. FindAccountByEmail(p, e) = {0}
      BY <2>2, <2>3 DEF FindAccountByEmail, FetchOptional
    <3> QED
      BY <1>7, <2>3, <3>1 DEF k
  <2>4. CASE k # 0
    <3>1. PICK i \in DOMAIN p : AccountsOf(p, e) = {i} /\ twin[i] = k
      BY <2>2, <2>4
    <3>2. FindAccountByEmail(p, e) = {i}
      BY <3>1 DEF FindAccountByEmail, FetchOptional
    <3>3. Twin(i) = k
      BY <1>7, <3>1
    <3>4. {Twin(j) : j \in {i}} = {k}
      BY <3>3
    <3> QED
      BY <3>2, <3>4 DEF k
  <2> QED
    BY <2>3, <2>4
<1>11. ASSUME NEW c \in Customers
       PROVE  Mem!FindAccountByStripeCustomer(m, c)
                \in Repeats \cup {Twin(i) : i \in FindAccountByStripeCustomer(p, c)}
  <2> DEFINE found == {k \in DOMAIN m : m[k].customer = c}
             mine == {i \in DOMAIN p : p[i].customer = c}
  <2>1. Mem!FindAccountByStripeCustomer(m, c) = Least(found)
    BY DEF Mem!FindAccountByStripeCustomer, Mem!Find, Mem!Indices, Least
  <2>2. FindAccountByStripeCustomer(p, c) = IF mine = {} THEN {0} ELSE mine
    BY DEF FindAccountByStripeCustomer, FetchOptional, Where
  <2>3. \A i \in DOMAIN p : i \in mine <=> twin[i] \in found
    BY <1>4, <1>5
  <2>4. found \in SUBSET DOMAIN m /\ mine \subseteq DOMAIN p
    OBVIOUS
  <2> HIDE DEF found, mine
  <2>5. /\ found = {} => Least(found) = 0
        /\ found # {} => Least(found) \in found
    BY <1>5, <2>4, LeastFacts
  <2>6. CASE found = {}
    <3>1. mine = {}
      BY <2>3, <2>4, <2>6
    <3> QED
      BY <1>7, <2>1, <2>2, <2>5, <2>6, <3>1
  <2>7. CASE found # {} /\ Least(found) \notin Repeats
    <3>1. Least(found) \in ToSet(twin)
      BY <1>2, <2>4, <2>5, <2>7
    <3>2. PICK i \in DOMAIN twin : twin[i] = Least(found)
      BY <1>6, <3>1
    <3>3. i \in mine /\ Twin(i) = Least(found)
      BY <1>4, <1>7, <2>3, <2>5, <2>7, <3>2
    <3> QED
      BY <2>1, <2>2, <3>3
  <2> QED
    BY <2>1, <2>6, <2>7
<1>12. ASSUME NEW i PROVE {Twin(j) : j \in FetchAccount(p, i)} = {Mem!FetchAccount(m, Twin(i))}
  <2>1. CASE i \in DOMAIN p
    <3>1. FetchAccount(p, i) = {i}
      BY <2>1 DEF FetchAccount, FetchOptional
    <3>2. Twin(i) \in DOMAIN m
      BY <1>4, <1>7, <2>1
    <3>3. Mem!FetchAccount(m, Twin(i)) = Twin(i)
      BY <3>2 DEF Mem!FetchAccount
    <3> QED
      BY <3>1, <3>3
  <2>2. CASE i \notin DOMAIN p
    <3>1. FetchAccount(p, i) = {0}
      BY <2>2 DEF FetchAccount, FetchOptional
    <3>2. Twin(i) = 0
      BY <1>4, <2>2 DEF Twin
    <3>3. Mem!FetchAccount(m, Twin(i)) = 0
      BY <3>2 DEF Mem!FetchAccount
    <3> QED
      BY <1>7, <3>1, <3>3
  <2> QED
    BY <2>1, <2>2
<1>13. /\ DOMAIN ListAccounts(p) = DOMAIN p /\ \A i \in DOMAIN p : ListAccounts(p)[i] = i
       /\ DOMAIN Mem!ListAccounts(m) = DOMAIN m /\ \A k \in DOMAIN m : Mem!ListAccounts(m)[k] = k
  BY DEF ListAccounts, Mem!ListAccounts
<1>14. LET q == ListAccounts(p)
           n == Mem!ListAccounts(m)
       IN /\ {Twin(q[i]) : i \in DOMAIN q} = ToSet(n) \ Repeats
          /\ \A i, j \in DOMAIN q : i < j => \E k, l \in DOMAIN n :
               k < l /\ n[k] = Twin(q[i]) /\ n[l] = Twin(q[j])
  <2> DEFINE q == ListAccounts(p)
             n == Mem!ListAccounts(m)
  <2>1. /\ DOMAIN q = DOMAIN p /\ \A i \in DOMAIN p : q[i] = i
        /\ DOMAIN n = DOMAIN m /\ \A k \in DOMAIN m : n[k] = k
    BY <1>13
  <2>2. ToSet(n) = {n[k] : k \in DOMAIN n}
    BY DEF ToSet
  <2> HIDE DEF q, n
  <2>3. ToSet(n) = DOMAIN m
    BY <2>1, <2>2
  <2>4. \A i \in DOMAIN q : Twin(q[i]) = twin[i] /\ i \in DOMAIN twin
    BY <1>4, <1>7, <2>1
  <2>5. {Twin(q[i]) : i \in DOMAIN q} = ToSet(twin)
    BY <1>4, <1>6, <2>1, <2>4
  <2>6. ToSet(twin) = ToSet(n) \ Repeats
    BY <1>2, <1>4, <1>6, <2>3
  <2>7. ASSUME NEW i \in DOMAIN q, NEW j \in DOMAIN q, i < j
        PROVE  \E k, l \in DOMAIN n : k < l /\ n[k] = Twin(q[i]) /\ n[l] = Twin(q[j])
    <3>1. twin[i] \in DOMAIN n /\ twin[j] \in DOMAIN n /\ twin[i] < twin[j]
      BY <1>4, <1>5, <2>1, <2>7
    <3>2. n[twin[i]] = Twin(q[i]) /\ n[twin[j]] = Twin(q[j])
      BY <2>1, <2>4, <3>1
    <3> QED
      BY <3>1, <3>2
  <2> QED
    BY <2>5, <2>6, <2>7 DEF q, n
<1> QED
  BY <1>8, <1>9, <1>10, <1>11, <1>12, <1>14 DEF TheSameAccounts, p, m
----------------------------------------------------------------------------
(* api_keys                                                                *)
LEMMA KeysAgree ==
  ASSUME IsTable(mem.keys, {}), pg.keys = mem.keys
  PROVE  TheSameKeys
<1> DEFINE t == mem.keys
<1>1. DOMAIN t = 1 .. Len(t) /\ Len(t) \in Nat
  BY TableFacts
<1>2. ASSUME NEW a PROVE ToSet(ListActiveApiKeys(t, a)) = ToSet(Mem!ListActiveApiKeys(t, a))
  <2> DEFINE S == {i \in DOMAIN t : t[i].account = a /\ ~t[i].revoked}
             f == Newest(S)
             g == Mem!InOrder(S)
  <2>1. S \in SUBSET Int /\ S \in SUBSET (1 .. Len(t))
    BY <1>1
  <2>2. IsFiniteSet(S)
    <3>1. IsFiniteSet(1 .. Len(t))
      BY <1>1, FS_Interval
    <3> HIDE DEF S
    <3> QED
      BY <2>1, <3>1, FS_Subset
  <2>3. ListActiveApiKeys(t, a) = f /\ Mem!ListActiveApiKeys(t, a) = g
    BY DEF ListActiveApiKeys, Where, Mem!ListActiveApiKeys, Mem!Indices
  <2> HIDE DEF S
  <2>4. Lists(f, S) /\ Lists(g, S)
    BY <2>1, <2>2, NewestFacts, InOrderFacts
  <2> HIDE DEF f, g
  <2>5. ToSet(f) = S /\ ToSet(g) = S
    BY <2>4 DEF Lists, ToSet
  <2> QED
    BY <2>3, <2>5
<1>3. ListActiveHashedKeys(t) = Mem!ListActiveHashedKeys(t)
  BY DEF ListActiveHashedKeys, Where, Mem!ListActiveHashedKeys, Mem!Indices
<1>4. ASSUME NEW h PROVE Mem!FindAccountByHashedKey(t, h) \in FindAccountByHashedKey(t, h)
  <2> DEFINE found == {i \in DOMAIN t : t[i].hash = h /\ ~t[i].revoked}
  <2>1. Mem!FindAccountByHashedKey(t, h) = IF Least(found) = 0 THEN 0 ELSE t[Least(found)].account
    BY DEF Mem!FindAccountByHashedKey, Mem!Find, Mem!Indices, Least
  <2>2. FindAccountByHashedKey(t, h) = FetchOptional({t[i].account : i \in found})
    BY DEF FindAccountByHashedKey, Where
  <2>3. /\ found = {} => Least(found) = 0
        /\ found # {} => Least(found) \in found /\ Least(found) # 0
    BY LeastFacts
  <2> HIDE DEF found
  <2> QED
    BY <2>1, <2>2, <2>3 DEF FetchOptional
<1> QED
  BY <1>2, <1>3, <1>4 DEF TheSameKeys

LEMMA NewKeysAgree ==
  ASSUME NEW t, IsTable(t, {}), NEW a, NEW h
  PROVE  LET u == CreateApiKey(t, a, h) IN u = Mem!CreateApiKey(t, a, h) /\ IsTable(u, {})
<1>1. CreateApiKey(t, a, h) = Append(t, NewKey(a, h))
  BY DEF CreateApiKey
<1>2. Mem!CreateApiKey(t, a, h) = Append(t, NewKey(a, h))
  BY DEF Mem!CreateApiKey, Mem!NewKey, NewKey
<1>3. IsTable(Append(t, NewKey(a, h)), {})
  BY AppendIsTable
<1> QED
  BY <1>1, <1>2, <1>3

LEMMA RevokedIsTable ==
  ASSUME NEW t, IsTable(t, {}), NEW k
  PROVE  IsTable([t EXCEPT ![k].revoked = TRUE], {})
<1> DEFINE u == [t EXCEPT ![k].revoked = TRUE]
<1>1. t = [i \in DOMAIN t |-> t[i]]
  BY TableFacts
<1>2. u = [i \in DOMAIN t |-> u[i]]
  OBVIOUS
<1> HIDE DEF u
<1>3. IsTable(u, {})
  BY <1>2, UpdateIsTable
<1> QED
  BY <1>3 DEF u

LEMMA RevokedKeysAgree ==
  ASSUME NEW t, IsTable(t, {}), NEW a, NEW k
  PROVE  LET p == RevokeApiKey(t, a, k) IN p = Mem!RevokeApiKey(t, a, k) /\ IsTable(p.keys, {})
<1> DEFINE S == {i \in DOMAIN t : t[i].account = a /\ ~t[i].revoked}
           u == [t EXCEPT ![k].revoked = TRUE]
           r == IF k \in S THEN [updated |-> TRUE, keys |-> u] ELSE [updated |-> FALSE, keys |-> t]
<1>1. RevokeApiKey(t, a, k) = r /\ Mem!RevokeApiKey(t, a, k) = r
  BY DEF RevokeApiKey, Revocable, Where, Mem!RevokeApiKey, Mem!Indices
<1>2. IsTable(u, {})
  BY RevokedIsTable
<1> HIDE DEF u, S
<1>3. r.keys = u \/ r.keys = t
  OBVIOUS
<1> QED
  BY <1>1, <1>2, <1>3
----------------------------------------------------------------------------
(* share_links                                                             *)
LinkRows == [account : Nat, ids : SUBSET Nat, expires : Nat, revoked : BOOLEAN]

LinksListed(t) == t \in Seq(LinkRows)

LEMMA LinksAgree ==
  ASSUME pg.links = mem.links
  PROVE  TheSameLinks
BY DEF TheSameLinks, FetchShareLink, FetchOptional, Mem!FetchShareLink

LEMMA NewLinksAgree ==
  ASSUME NEW t, LinksListed(t), NEW link \in LinkRows
  PROVE  LET u == CreateShareLink(t, link) IN u = Mem!CreateShareLink(t, link) /\ LinksListed(u)
<1>1. Append(t, link) \in Seq(LinkRows)
  BY DEF LinksListed
<1> QED
  BY <1>1 DEF CreateShareLink, Mem!CreateShareLink, LinksListed

\* What the two stores make of one revocation.
RevokedAlike(t, a, l) ==
  LET p == RevokeShareLink(t, a, l)
      m == Mem!RevokeShareLink(t, a, l)
      again == l \in DOMAIN t /\ t[l].account = a /\ t[l].revoked IN
  /\ p.links = m.links /\ LinksListed(m.links)
  /\ again => p.updated = FALSE /\ m.updated = TRUE
  /\ ~again => p.updated = m.updated

(* A link revoked once more is as it was: the stores differ only in what   *)
(* they say.                                                               *)
LEMMA RevokedLinksAgree ==
  ASSUME NEW t, LinksListed(t), NEW a, NEW l
  PROVE  RevokedAlike(t, a, l)
<1> SUFFICES LET p == RevokeShareLink(t, a, l)
               m == Mem!RevokeShareLink(t, a, l)
               again == l \in DOMAIN t /\ t[l].account = a /\ t[l].revoked IN
           /\ p.links = m.links /\ LinksListed(m.links)
           /\ again => p.updated = FALSE /\ m.updated = TRUE
           /\ ~again => p.updated = m.updated
  BY DEF RevokedAlike
<1> DEFINE u == [t EXCEPT ![l].revoked = TRUE]
           done == [updated |-> TRUE, links |-> u]
           not == [updated |-> FALSE, links |-> t]
           mine == l \in DOMAIN t /\ t[l].account = a
           p == RevokeShareLink(t, a, l)
           m == Mem!RevokeShareLink(t, a, l)
<1>1. p = IF mine /\ ~t[l].revoked THEN done ELSE not
  BY DEF RevokeShareLink, Where
<1>2. m = IF mine THEN done ELSE not
  BY DEF Mem!RevokeShareLink, Mem!Indices
<1>3. ASSUME mine PROVE LinksListed(u) /\ (t[l].revoked => u = t)
  <2> DEFINE x == [t[l] EXCEPT !.revoked = TRUE]
  <2>1. t[l] \in LinkRows /\ t \in Seq(LinkRows) /\ l \in DOMAIN t
    BY <1>3 DEF LinksListed
  <2>2. x \in LinkRows
    BY <2>1 DEF LinkRows
  <2>3. ASSUME t[l].revoked PROVE x = t[l]
    <3>1. t[l].revoked = TRUE
      BY <2>1, <2>3 DEF LinkRows
    <3> QED
      BY <2>1, <3>1 DEF LinkRows
  <2>4. u = [t EXCEPT ![l] = x]
    BY <2>1
  <2> HIDE DEF x, u
  <2>5. u \in Seq(LinkRows)
    BY <2>1, <2>2, <2>4
  <2>6. ASSUME t[l].revoked PROVE u = t
    <3>1. u = [t EXCEPT ![l] = t[l]]
      BY <2>3, <2>4, <2>6
    <3> QED
      BY <2>1, <3>1
  <2> QED
    BY <2>5, <2>6 DEF LinksListed
<1> HIDE DEF u
<1>4. done.links = u /\ done.updated = TRUE /\ not.links = t /\ not.updated = FALSE
  OBVIOUS
<1> HIDE DEF done, not, p, m
<1>5. CASE mine /\ t[l].revoked
  <2>1. p = not /\ m = done
    BY <1>1, <1>2, <1>5
  <2> QED
    BY <1>3, <1>4, <1>5, <2>1 DEF p, m
<1>6. CASE mine /\ ~t[l].revoked
  <2>1. p = done /\ m = done
    BY <1>1, <1>2, <1>6
  <2> QED
    BY <1>3, <1>4, <1>6, <2>1 DEF p, m
<1>7. CASE ~mine
  <2>1. p = not /\ m = not
    BY <1>1, <1>2, <1>7
  <2> QED
    BY <1>4, <1>7, <2>1 DEF p, m
<1> QED
  BY <1>5, <1>6, <1>7

----------------------------------------------------------------------------
(* usage                                                                   *)
LEMMA SumsAgree ==
  ASSUME NEW u, NEW S
  PROVE  SumOver(u, S) = Mem!SumOver(u, S)
BY DEF SumOver, Mem!SumOver, MapThenSumSet, Mem!MapThenSumSet, MapThenFoldSet, Mem!MapThenFoldSet

LEMMA DatesAreDays ==
  /\ \A t \in Times : DateNaive(t) \in Nat /\ Mem!DateNaive(t) = DateNaive(t)
  /\ Dates \subseteq Nat
<1>1. ASSUME NEW t \in Times PROVE DateNaive(t) \in Nat /\ Mem!DateNaive(t) = DateNaive(t)
  <2>1. t \in Nat /\ DayLength \in Nat \ {0}
    BY CloudTypesAssumption, StoresAssumption
  <2>2. DateNaive(t) = t \div DayLength /\ Mem!DateNaive(t) = t \div DayLength
    BY DEF DateNaive, Mem!DateNaive
  <2> QED
    BY <2>1, <2>2
<1> QED
  BY <1>1 DEF Dates

(* The days of a period, each once                                         *)
LEMMA DaysAreOrdered ==
  ASSUME NEW B, IsFiniteSet(B), \A r \in B : r.day \in Nat, \A r, s \in B : r.day = s.day => r = s
  PROVE  OrderBy(B, LAMBDA r, s : r.day < s.day) = Mem!OrderBy(B, LAMBDA r, s : r.day < s.day)
<1> DEFINE f == OrderBy(B, LAMBDA r, s : r.day < s.day)
           g == Mem!OrderBy(B, LAMBDA r, s : r.day < s.day)
           R == {p \in B \X B : p[1].day < p[2].day}
           Earlier(r) == {s \in B : s.day < r.day}
<1>1. StrictOrder(R, B)
  BY DEF StrictOrder
<1>2. \A r \in B : Below(R, B, r) = Earlier(r)
  BY DEF Below
<1>3. f = [i \in 1 .. Cardinality(B) |-> CHOOSE r \in B : Cardinality(Earlier(r)) = i - 1]
  BY DEF OrderBy
<1>4. g = [i \in 1 .. Mem!Cardinality(B) |-> CHOOSE r \in B : Mem!Cardinality(Earlier(r)) = i - 1]
  BY DEF Mem!OrderBy
<1> HIDE DEF f, g, Earlier
<1>5. Sorts(f, R, B)
  <2>1. ASSUME NEW i \in 1 .. Cardinality(B), NEW r \in B, Cardinality(Earlier(r)) = i - 1
        PROVE  f[i] \in B /\ Cardinality(Earlier(f[i])) = i - 1
    BY <1>3, <2>1
  <2>2. f = [i \in 1 .. Cardinality(B) |-> f[i]]
    BY <1>3
  <2> QED
    BY <1>2, <2>1, <2>2 DEF Sorts
<1>6. Sorts(g, R, B)
  <2>1. Mem!Cardinality(B) = Cardinality(B)
    BY MemCounts
  <2>2. ASSUME NEW i \in 1 .. Cardinality(B), NEW r \in B, Cardinality(Earlier(r)) = i - 1
        PROVE  g[i] \in B /\ Cardinality(Earlier(g[i])) = i - 1
    <3>1. Mem!Cardinality(Earlier(r)) = i - 1
      BY <2>2, MemCounts
    <3>2. g[i] \in B /\ Mem!Cardinality(Earlier(g[i])) = i - 1
      BY <1>4, <2>1, <3>1
    <3> QED
      BY <3>2, MemCounts
  <2>3. g = [i \in 1 .. Cardinality(B) |-> g[i]]
    BY <1>4, <2>1
  <2> QED
    BY <1>2, <2>2, <2>3 DEF Sorts
<1>7. Lists(f, B) /\ Ascends(f, R) /\ Lists(g, B) /\ Ascends(g, R)
  BY <1>1, <1>5, <1>6, SortsAreLists
<1> QED
  BY <1>1, <1>7, SortedOnce DEF f, g

LEMMA UsageAgrees ==
  ASSUME UsageOK(mem.usage), pg.usage = mem.usage
  PROVE  TheSameUsage
<1> DEFINE u == mem.usage
<1>1. \A a : AccountUsageTotal(u, a) = Mem!AccountUsageTotal(u, a)
  BY SumsAgree DEF AccountUsageTotal, Mem!AccountUsageTotal
<1>2. ASSUME NEW a, NEW d \in Dates, NEW e \in Dates
      PROVE  /\ AccountUsageInRange(u, a, d, e) = Mem!AccountUsageInRange(u, a, d, e)
             /\ UsageForPeriod(u, a, d, e) = Mem!UsageForPeriod(u, a, d, e)
  <2> DEFINE S == {k \in DOMAIN u : k[1] = a /\ k[2] >= d /\ k[2] < e}
             T == {k \in DOMAIN u : k[1] = a /\ ~(k[2] < d \/ k[2] >= e)}
             B == {[day |-> k[2], count |-> u[k]] : k \in S}
  <2>1. AccountUsageInRange(u, a, d, e) = Mem!AccountUsageInRange(u, a, d, e)
    BY SumsAgree DEF AccountUsageInRange, Days, Mem!AccountUsageInRange
  <2>2. S = T
    <3>1. \A k \in DOMAIN u : k[2] \in Int
      BY DEF UsageOK
    <3>2. d \in Int /\ e \in Int
      BY DatesAreDays
    <3> QED
      BY <3>1, <3>2
  <2>3. UsageForPeriod(u, a, d, e) = OrderBy(B, LAMBDA r, s : r.day < s.day)
    BY DEF UsageForPeriod, Days
  <2>4. Mem!UsageForPeriod(u, a, d, e) = Mem!OrderBy(B, LAMBDA r, s : r.day < s.day)
    BY <2>2 DEF Mem!UsageForPeriod
  <2>5. OrderBy(B, LAMBDA r, s : r.day < s.day) = Mem!OrderBy(B, LAMBDA r, s : r.day < s.day)
    <3>1. IsFiniteSet(S)
      BY FS_Subset DEF UsageOK
    <3>2. \A k \in S : k = <<a, k[2]>> /\ k[2] \in Nat
      BY DEF UsageOK
    <3> HIDE DEF S
    <3>3. IsFiniteSet(B)
      <4> DEFINE h == [k \in S |-> [day |-> k[2], count |-> u[k]]]
      <4>1. h \in Surjection(S, B)
        BY DEF Surjection
      <4> HIDE DEF B, h
      <4> QED
        BY <3>1, <4>1, FS_Surjection
    <3>4. \A r \in B : r.day \in Nat
      BY <3>2
    <3>5. \A r, s \in B : r.day = s.day => r = s
      BY <3>2
    <3> HIDE DEF B
    <3> QED
      BY <3>3, <3>4, <3>5, DaysAreOrdered
  <2> QED
    BY <2>1, <2>3, <2>4, <2>5
<1> QED
  BY <1>1, <1>2 DEF TheSameUsage

LEMMA RecordedUsageAgrees ==
  ASSUME NEW u, UsageOK(u), NEW a \in Nat, NEW t \in Times
  PROVE  LET v == RecordUsage(u, a, t) IN v = Mem!RecordUsage(u, a, t) /\ UsageOK(v)
<1> DEFINE k == <<a, DateNaive(t)>>
           D == DOMAIN u \cup {k}
           v == [j \in D |-> (IF j \in DOMAIN u THEN u[j] ELSE 0) + (IF j = k THEN 1 ELSE 0)]
           entry == [j \in D |-> IF j \in DOMAIN u THEN u[j] ELSE 0]
<1>1. RecordUsage(u, a, t) = v
  BY DEF RecordUsage
<1>2. Mem!RecordUsage(u, a, t) = [entry EXCEPT ![k] = @ + 1]
  BY DatesAreDays DEF Mem!RecordUsage
<1>3. k \in Nat \X Nat
  BY DatesAreDays
<1>4. \A j \in DOMAIN u : u[j] \in Nat \ {0} /\ j \in Nat \X Nat
  BY DEF UsageOK
<1> HIDE DEF k
<1>5. [entry EXCEPT ![k] = @ + 1] = v
  <2> DEFINE w == [entry EXCEPT ![k] = @ + 1]
  <2>1. DOMAIN w = D /\ DOMAIN v = D /\ k \in D
    OBVIOUS
  <2>2. \A j \in D : w[j] = IF j = k THEN entry[k] + 1 ELSE entry[j]
    BY <2>1
  <2>3. \A j \in D : entry[j] \in Nat /\ v[j] = entry[j] + (IF j = k THEN 1 ELSE 0)
    BY <1>4
  <2>4. w = [j \in D |-> w[j]] /\ v = [j \in D |-> v[j]]
    BY <2>1
  <2> HIDE DEF w, v, entry, D
  <2>5. \A j \in D : w[j] = v[j]
    BY <2>2, <2>3
  <2>6. w = v
    BY <2>4, <2>5
  <2> QED
    BY <2>6 DEF w
<1>6. IsFiniteSet(D)
  BY FS_AddElement DEF UsageOK
<1>7. ASSUME NEW j \in D PROVE j \in Nat \X Nat /\ v[j] \in Nat \ {0}
  <2>1. CASE j = k
    BY <1>3, <1>4, <2>1
  <2>2. CASE j # k
    BY <1>4, <2>2
  <2> QED
    BY <2>1, <2>2
<1>8. DOMAIN v = D
  OBVIOUS
<1> HIDE DEF v, entry, D
<1>9. UsageOK(v)
  BY <1>6, <1>7, <1>8 DEF UsageOK
<1> QED
  BY <1>1, <1>2, <1>5, <1>9

----------------------------------------------------------------------------
(* telemetry_events                                                        *)
EventsOK(events) ==
  /\ IsFiniteSet(DOMAIN events)
  /\ \A k \in DOMAIN events :
       /\ events[k] \in [install : Int, day : Int, count : Int, sink : Sinks]
       /\ k = <<events[k].install, events[k].day>>

Ranked(e, f) ==
  \/ e.count > f.count
  \/ e.count = f.count /\ e.day > f.day
  \/ e.count = f.count /\ e.day = f.day /\ e.install < f.install

LEMMA RankedFacts ==
  ASSUME NEW d, d.count \in Int, d.day \in Int, d.install \in Int,
         NEW e, e.count \in Int, e.day \in Int, e.install \in Int,
         NEW f, f.count \in Int, f.day \in Int, f.install \in Int
  PROVE  /\ ~Ranked(d, d)
         /\ Ranked(d, e) /\ Ranked(e, f) => Ranked(d, f)
         /\ Ranked(d, e) \/ Ranked(e, d) \/ (d.install = e.install /\ d.day = e.day)
BY DEF Ranked

LEMMA RankedKeys ==
  ASSUME NEW ev, EventsOK(ev), NEW K \in SUBSET DOMAIN ev, NEW g,
         g = Mem!OrderBy(K, LAMBDA k, l :
               \/ ev[k].count > ev[l].count
               \/ ev[k].count = ev[l].count /\ ev[k].day > ev[l].day
               \/ ev[k].count = ev[l].count /\ ev[k].day = ev[l].day
                    /\ ev[k].install < ev[l].install)
  PROVE  Lists(g, K) /\ \A i, j \in DOMAIN g : i < j => Ranked(ev[g[i]], ev[g[j]])
<1> DEFINE R == {p \in K \X K : Ranked(ev[p[1]], ev[p[2]])}
           First(k) == {l \in K : Ranked(ev[l], ev[k])}
<1>1. \A k \in K : /\ ev[k].count \in Int /\ ev[k].day \in Int /\ ev[k].install \in Int
                   /\ k = <<ev[k].install, ev[k].day>>
  BY DEF EventsOK
<1>2. StrictOrder(R, K)
  <2>1. ASSUME NEW j \in K, NEW k \in K, NEW l \in K
        PROVE  /\ ~Ranked(ev[j], ev[j])
               /\ Ranked(ev[j], ev[k]) /\ Ranked(ev[k], ev[l]) => Ranked(ev[j], ev[l])
               /\ j = k \/ Ranked(ev[j], ev[k]) \/ Ranked(ev[k], ev[j])
    <3>1. /\ ~Ranked(ev[j], ev[j])
          /\ Ranked(ev[j], ev[k]) /\ Ranked(ev[k], ev[l]) => Ranked(ev[j], ev[l])
          /\ \/ Ranked(ev[j], ev[k]) \/ Ranked(ev[k], ev[j])
             \/ ev[j].install = ev[k].install /\ ev[j].day = ev[k].day
      BY <1>1, RankedFacts
    <3> QED
      BY <1>1, <3>1
  <2> QED
    BY <2>1 DEF StrictOrder
<1>3. \A k \in K : Below(R, K, k) = First(k)
  BY DEF Below
<1>4. IsFiniteSet(K)
  BY FS_Subset DEF EventsOK
<1>5. g = [i \in 1 .. Mem!Cardinality(K) |-> CHOOSE k \in K : Mem!Cardinality(First(k)) = i - 1]
  BY DEF Mem!OrderBy, Ranked
<1> HIDE DEF First
<1>6. Sorts(g, R, K)
  <2>1. Mem!Cardinality(K) = Cardinality(K)
    BY MemCounts
  <2>2. ASSUME NEW i \in 1 .. Cardinality(K), NEW k \in K, Cardinality(First(k)) = i - 1
        PROVE  g[i] \in K /\ Cardinality(First(g[i])) = i - 1
    <3>1. Mem!Cardinality(First(k)) = i - 1
      BY <2>2, MemCounts
    <3>2. g[i] \in K /\ Mem!Cardinality(First(g[i])) = i - 1
      BY <1>5, <2>1, <3>1
    <3> QED
      BY <3>2, MemCounts
  <2>3. g = [i \in 1 .. Cardinality(K) |-> g[i]]
    BY <1>5, <2>1
  <2> QED
    BY <1>3, <2>2, <2>3 DEF Sorts
<1>7. Lists(g, K) /\ Ascends(g, R)
  BY <1>2, <1>4, <1>6, SortsAreLists
<1> QED
  BY <1>7 DEF Ascends

LEMMA TopAgrees ==
  ASSUME NEW ev, EventsOK(ev), NEW from, NEW min, NEW limit \in Nat
  PROVE  Mem!TopTelemetryVolumes(ev, from, min, limit) \in TopTelemetryVolumes(ev, from, min, limit)
<1> DEFINE K == {k \in DOMAIN ev :
                  ev[k].day >= from /\ ev[k].count >= min /\ ev[k].sink = "FileSink"}
           g == Mem!OrderBy(K, LAMBDA k, l :
                  \/ ev[k].count > ev[l].count
                  \/ ev[k].count = ev[l].count /\ ev[k].day > ev[l].day
                  \/ ev[k].count = ev[l].count /\ ev[k].day = ev[l].day
                       /\ ev[k].install < ev[l].install)
           F == {ev[k] : k \in K}
           m == IF Len(g) > limit THEN limit ELSE Len(g)
           top == {ev[g[n]] : n \in 1 .. m}
<1>1. Mem!TopTelemetryVolumes(ev, from, min, limit) = top
  BY DEF Mem!TopTelemetryVolumes
<1>2. TopTelemetryVolumes(ev, from, min, limit)
        = {t \in SUBSET F :
             /\ Cardinality(t) = IF Cardinality(F) > limit THEN limit ELSE Cardinality(F)
             /\ \A e \in t, f \in F \ t : ~Louder(f, e)}
  <2>1. \A k \in DOMAIN ev : k[2] = ev[k].day
    BY DEF EventsOK
  <2>2. K = {k \in DOMAIN ev : k[2] >= from /\ ev[k].count >= min /\ ev[k].sink = "FileSink"}
    BY <2>1
  <2> QED
    BY <2>2 DEF TopTelemetryVolumes
<1>3. K \in SUBSET DOMAIN ev
  OBVIOUS
<1> HIDE DEF K
<1>4. Lists(g, K) /\ \A i, j \in DOMAIN g : i < j => Ranked(ev[g[i]], ev[g[j]])
  BY <1>3, RankedKeys
<1> HIDE DEF g
<1>5. IsFiniteSet(K) /\ Cardinality(K) = Len(g) /\ Len(g) \in Nat /\ DOMAIN g = 1 .. Len(g)
  BY <1>4, ListLength
<1>6. \A k \in K : /\ ev[k].count \in Int /\ ev[k].day \in Int /\ ev[k].install \in Int
                   /\ k = <<ev[k].install, ev[k].day>>
  BY <1>3 DEF EventsOK
<1>7. IsFiniteSet(F) /\ Cardinality(F) = Len(g)
  <2> DEFINE h == [k \in K |-> ev[k]]
  <2>1. h \in Bijection(K, F)
    BY <1>6 DEF Bijection, Injection, Surjection, IsInjective
  <2> HIDE DEF h, F
  <2> QED
    BY <1>5, <2>1, FS_Bijection DEF ExistsBijection
<1>8. m \in Nat /\ m <= Len(g)
  BY <1>5
<1> HIDE DEF m
<1>9. \A n \in 1 .. m : n \in DOMAIN g /\ g[n] \in K
  BY <1>4, <1>5, <1>8 DEF Lists
<1>10. top \in SUBSET F
  BY <1>9
<1>11. Cardinality(top) = m
  <2> DEFINE h == [n \in 1 .. m |-> ev[g[n]]]
  <2>1. ASSUME NEW i \in 1 .. m, NEW j \in 1 .. m, h[i] = h[j] PROVE i = j
    <3>1. g[i] = g[j]
      BY <1>6, <1>9, <2>1
    <3> QED
      BY <1>4, <1>9, <3>1 DEF Lists
  <2>2. h \in Bijection(1 .. m, top)
    BY <2>1 DEF Bijection, Injection, Surjection, IsInjective
  <2>3. IsFiniteSet(1 .. m) /\ Cardinality(1 .. m) = m
    BY <1>8, FS_Interval
  <2> HIDE DEF h, top
  <2> QED
    BY <2>2, <2>3, FS_Bijection DEF ExistsBijection
<1>12. ASSUME NEW e \in top, NEW f \in F \ top PROVE ~Louder(f, e)
  <2>1. PICK n \in 1 .. m : e = ev[g[n]]
    OBVIOUS
  <2>2. PICK k \in K : f = ev[k]
    OBVIOUS
  <2>3. PICK j \in DOMAIN g : g[j] = k
    BY <1>4 DEF Lists
  <2>4. j > m
    BY <1>5, <1>8, <2>2, <2>3
  <2>5. n \in DOMAIN g /\ g[n] \in K /\ n < j
    BY <1>5, <1>8, <1>9, <2>4
  <2>6. Ranked(e, f)
    BY <1>4, <2>1, <2>2, <2>3, <2>5
  <2> QED
    BY <1>6, <2>1, <2>2, <2>5, <2>6 DEF Ranked, Louder
<1> HIDE DEF F, top
<1>13. Cardinality(top) = IF Cardinality(F) > limit THEN limit ELSE Cardinality(F)
  BY <1>7, <1>11 DEF m
<1> QED
  BY <1>1, <1>2, <1>10, <1>12, <1>13

LEMMA TelemetryAgrees ==
  ASSUME EventsOK(mem.telemetry), pg.telemetry = mem.telemetry
  PROVE  TheSameTelemetry
<1> SUFFICES ASSUME NEW q \in Queries, NEW today \in Dates
             PROVE  ConversionReady(q, today).limit \in Nat
  BY TopAgrees DEF TheSameTelemetry
<1>1. OrElse(q.limit, DefaultLimit) \in Int
  BY StoresAssumption DEF Queries, OrElse
<1>2. ConversionReady(q, today).limit = Clamp(OrElse(q.limit, DefaultLimit), 1, MaxLimit)
  BY DEF ConversionReady
<1> QED
  BY <1>1, <1>2, StoresAssumption DEF Clamp

LEMMA UpsertedTelemetryAgrees ==
  ASSUME NEW ev, EventsOK(ev), NEW e \in [install : Int, day : Int, count : Int, sink : Sinks]
  PROVE  LET u == UpsertTelemetryEvent(ev, e) IN u = Mem!UpsertTelemetryEvent(ev, e) /\ EventsOK(u)
<1> DEFINE k == <<e.install, e.day>>
           D == DOMAIN ev \cup {k}
           u == [j \in D |-> IF j = k THEN e ELSE ev[j]]
<1>1. UpsertTelemetryEvent(ev, e) = u /\ Mem!UpsertTelemetryEvent(ev, e) = u
  BY DEF UpsertTelemetryEvent, Mem!UpsertTelemetryEvent
<1>2. IsFiniteSet(D)
  BY FS_AddElement DEF EventsOK
<1>3. DOMAIN u = D
  OBVIOUS
<1>4. \A j \in D : /\ u[j] \in [install : Int, day : Int, count : Int, sink : Sinks]
                   /\ j = <<u[j].install, u[j].day>>
  BY DEF EventsOK
<1> HIDE DEF u, D
<1>5. EventsOK(u)
  BY <1>2, <1>3, <1>4 DEF EventsOK
<1> QED
  BY <1>1, <1>5

----------------------------------------------------------------------------
(* attestations: the rows of MemDb, in the order of their insertion        *)
Rows == [content : Contents, account : Nat, at : Nat]

RowsListed(rows) ==
  /\ rows \in Seq(Rows)
  /\ \A i, j \in DOMAIN rows : IdOf[rows[i].content] = IdOf[rows[j].content] => i = j

LEMMA ListedFacts ==
  ASSUME NEW rows, RowsListed(rows)
  PROVE  /\ Len(rows) \in Nat /\ DOMAIN rows = 1 .. Len(rows) /\ IsTable(rows, {})
         /\ \A i \in DOMAIN rows : rows[i] \in Rows /\ rows[i] \in ToSet(rows)
         /\ ToSet(rows) = {rows[i] : i \in DOMAIN rows}
         /\ Lists(rows, ToSet(rows)) /\ RowsOK(ToSet(rows))
<1>1. /\ Len(rows) \in Nat /\ DOMAIN rows = 1 .. Len(rows)
      /\ \A i \in DOMAIN rows : rows[i] \in Rows
      /\ rows = [i \in 1 .. Len(rows) |-> rows[i]]
  BY DEF RowsListed
<1>2. ToSet(rows) = {rows[i] : i \in DOMAIN rows}
  BY DEF ToSet
<1>3. rows \in Seq(ToSet(rows))
  BY <1>1, <1>2
<1>4. Lists(rows, ToSet(rows))
  <2>1. \A i, j \in DOMAIN rows : rows[i] = rows[j] => i = j
    BY DEF RowsListed
  <2> QED
    BY <1>2, <1>3, <2>1 DEF Lists
<1>5. RowsOK(ToSet(rows))
  <2>1. IsFiniteSet(ToSet(rows))
    BY <1>4, ListLength
  <2>2. ToSet(rows) \subseteq Rows
    BY <1>1, <1>2
  <2>3. \A x, y \in ToSet(rows) : IdOf[x.content] = IdOf[y.content] => x = y
    BY <1>2 DEF RowsListed
  <2> QED
    BY <2>1, <2>2, <2>3 DEF RowsOK, Rows
<1>6. IsTable(rows, {})
  BY <1>3 DEF IsTable
<1> QED
  BY <1>1, <1>2, <1>4, <1>5, <1>6

LEMMA InsertedRowsAgree ==
  ASSUME NEW rows, RowsListed(rows), NEW row \in Rows
  PROVE  LET p == InsertStatement(ToSet(rows), row)
             m == Mem!InsertAttestation(rows, row) IN
         /\ p.rows = ToSet(m.rows) /\ p.inserted = m.inserted
         /\ RowsListed(m.rows)
<1> DEFINE found == {i \in DOMAIN rows : IdOf[rows[i].content] = IdOf[row.content]}
           same == SelectById(ToSet(rows), IdOf[row.content])
           u == Append(rows, row)
<1>1. IsTable(rows, {}) /\ ToSet(rows) = {rows[i] : i \in DOMAIN rows}
  BY ListedFacts
<1>2. Mem!InsertAttestation(rows, row)
        = IF Least(found) # 0 THEN [inserted |-> FALSE, rows |-> rows] ELSE [inserted |-> TRUE, rows |-> u]
  BY DEF Mem!InsertAttestation, Mem!Find, Mem!Indices, Least
<1>3. InsertStatement(ToSet(rows), row)
        = IF same # {} THEN [inserted |-> FALSE, rows |-> ToSet(rows)]
          ELSE [inserted |-> TRUE, rows |-> ToSet(rows) \cup {row}]
  BY DEF InsertStatement
<1>4. same = {} <=> found = {}
  BY <1>1 DEF SelectById
<1>5. Least(found) = 0 <=> found = {}
  BY <1>1, LeastFacts
<1>6. CASE found = {}
  <2>1. rows \in Seq(Rows)
    BY DEF RowsListed
  <2>2. /\ u \in Seq(Rows) /\ DOMAIN u = 1 .. Len(rows) + 1 /\ u[Len(rows) + 1] = row
        /\ DOMAIN rows = 1 .. Len(rows) /\ Len(rows) \in Nat
        /\ \A i \in DOMAIN rows : u[i] = rows[i]
    BY <2>1
  <2> HIDE DEF u
  <2>3. \A i \in DOMAIN u : i \in DOMAIN rows \/ i = Len(rows) + 1
    BY <2>2
  <2>4. \A i \in DOMAIN rows : i \in DOMAIN u
    BY <2>2
  <2>5. \A i \in DOMAIN rows : IdOf[rows[i].content] # IdOf[row.content]
    BY <1>6
  <2>6. RowsListed(u)
    BY <2>2, <2>3, <2>5 DEF RowsListed
  <2>7. ToSet(u) = ToSet(rows) \cup {row}
    <3>1. Len(rows) + 1 \in DOMAIN u
      BY <2>2
    <3>2. ToSet(u) = {u[i] : i \in DOMAIN u}
      BY DEF ToSet
    <3>3. {u[i] : i \in DOMAIN u} = {rows[i] : i \in DOMAIN rows} \cup {row}
      BY <2>2, <2>3, <2>4, <3>1
    <3> QED
      BY <1>1, <3>2, <3>3
  <2> HIDE DEF found, same
  <2>8. /\ Mem!InsertAttestation(rows, row) = [inserted |-> TRUE, rows |-> u]
        /\ InsertStatement(ToSet(rows), row) = [inserted |-> TRUE, rows |-> ToSet(u)]
    BY <1>2, <1>3, <1>4, <1>5, <1>6, <2>7
  <2> QED
    BY <2>6, <2>8
<1>7. CASE found # {}
  BY <1>2, <1>3, <1>4, <1>5, <1>7
<1> QED
  BY <1>6, <1>7

LEMMA DeletedRowsAgree ==
  ASSUME NEW rows, RowsListed(rows), NEW a, NEW t
  PROVE  LET p == DeleteAttestationsOlderThan(ToSet(rows), a, t)
             m == Mem!DeleteAttestationsOlderThan(rows, a, t) IN
         /\ p = ToSet(m) /\ RowsListed(m)
         /\ Cardinality(ToSet(rows) \ p) = Len(rows) - Len(m)
<1> DEFINE K == {i \in DOMAIN rows : ~(rows[i].account = a /\ rows[i].at < t)}
           kept == Mem!InOrder(K)
           m == [n \in DOMAIN kept |-> rows[kept[n]]]
           p == DeleteAttestationsOlderThan(ToSet(rows), a, t)
<1>1. Mem!DeleteAttestationsOlderThan(rows, a, t) = m
  BY DEF Mem!DeleteAttestationsOlderThan, Mem!Indices
<1>2. /\ Len(rows) \in Nat /\ DOMAIN rows = 1 .. Len(rows)
      /\ \A i \in DOMAIN rows : rows[i] \in Rows
      /\ ToSet(rows) = {rows[i] : i \in DOMAIN rows}
      /\ Lists(rows, ToSet(rows))
  BY ListedFacts
<1>3. p = {rows[i] : i \in K}
  BY <1>2 DEF DeleteAttestationsOlderThan
<1>4. K \in SUBSET (1 .. Len(rows)) /\ K \in SUBSET Int
  BY <1>2
<1> HIDE DEF K, p
<1>5. IsFiniteSet(K)
  <2>1. IsFiniteSet(1 .. Len(rows))
    BY <1>2, FS_Interval
  <2> QED
    BY <1>4, <2>1, FS_Subset
<1>6. Lists(kept, K)
  BY <1>4, <1>5, InOrderFacts
<1> HIDE DEF kept
<1>7. Len(kept) \in Nat /\ DOMAIN kept = 1 .. Len(kept)
  BY <1>6, ListLength
<1>8. \A n \in DOMAIN kept : kept[n] \in K /\ kept[n] \in DOMAIN rows
  <2>1. kept \in Seq(K)
    BY <1>6 DEF Lists
  <2>2. \A n \in DOMAIN kept : kept[n] \in K
    BY <1>7, <2>1
  <2> QED
    BY <1>2, <1>4, <2>2
<1>9. DOMAIN m = 1 .. Len(kept) /\ m \in Seq(Rows)
  BY <1>2, <1>7, <1>8
<1>10. RowsListed(m)
  <2>1. ASSUME NEW i \in DOMAIN kept, NEW j \in DOMAIN kept,
               IdOf[rows[kept[i]].content] = IdOf[rows[kept[j]].content]
        PROVE  i = j
    <3>1. kept[i] = kept[j]
      BY <1>8, <2>1 DEF RowsListed
    <3> QED
      BY <1>6, <3>1 DEF Lists
  <2> QED
    BY <1>9, <2>1 DEF RowsListed
<1>11. ToSet(m) = p
  <2>1. ToSet(m) = {rows[kept[n]] : n \in DOMAIN kept}
    BY DEF ToSet
  <2>2. {rows[kept[n]] : n \in DOMAIN kept} = {rows[i] : i \in K}
    BY <1>6, <1>8 DEF Lists
  <2> QED
    BY <1>3, <2>1, <2>2
<1> HIDE DEF m
<1>12. Lists(m, p)
  BY <1>10, <1>11, ListedFacts
<1>13. /\ Cardinality(p) = Len(m) /\ Len(m) \in Nat
       /\ IsFiniteSet(ToSet(rows)) /\ Cardinality(ToSet(rows)) = Len(rows)
  BY <1>2, <1>12, ListLength
<1>14. ToSet(rows) \cap p = p
  BY <1>2, <1>3, <1>4
<1>15. Cardinality(ToSet(rows) \ p) = Cardinality(ToSet(rows)) - Cardinality(ToSet(rows) \cap p)
  BY <1>13, FS_Difference
<1> QED
  BY <1>1, <1>10, <1>11, <1>13, <1>14, <1>15 DEF p

LEMMA FetchedRowsAgree ==
  ASSUME NEW rows, RowsListed(rows), NEW a, NEW id
  PROVE  FetchAttestation(ToSet(rows), a, id) = Mem!FetchAttestation(rows, a, id)
<1> DEFINE found == {i \in DOMAIN rows : IdOf[rows[i].content] = id /\ rows[i].account = a}
<1>1. IsTable(rows, {}) /\ ToSet(rows) = {rows[i] : i \in DOMAIN rows}
  BY ListedFacts
<1>2. FetchAttestation(ToSet(rows), a, id) = {rows[i] : i \in found}
  BY <1>1 DEF FetchAttestation, SelectById
<1>3. Mem!FetchAttestation(rows, a, id) = IF Least(found) = 0 THEN {} ELSE {rows[Least(found)]}
  BY DEF Mem!FetchAttestation, Mem!Find, Mem!Indices, Least
<1>4. \A i, j \in found : i = j
  BY DEF RowsListed
<1>5. /\ found = {} => Least(found) = 0
      /\ found # {} => Least(found) \in found /\ Least(found) # 0
  BY <1>1, LeastFacts
<1> HIDE DEF found
<1> QED
  BY <1>2, <1>3, <1>4, <1>5

(* Two lists of the same rows, each by the time they were received, hold   *)
(* the same times: the rows up to one that came too early would have to go *)
(* into the places before it.                                              *)
ByTheTime(f) == \A i, j \in DOMAIN f : i < j => f[i].at <= f[j].at

LEMMA NotEarlier ==
  ASSUME NEW S \in SUBSET Rows, NEW f, Lists(f, S), ByTheTime(f), NEW g, Lists(g, S), ByTheTime(g),
         NEW i \in DOMAIN f
  PROVE  ~(f[i].at < g[i].at)
<1>1. SUFFICES ASSUME f[i].at < g[i].at PROVE FALSE
  OBVIOUS
<1>2. Len(f) = Len(g) /\ Len(f) \in Nat /\ DOMAIN f = 1 .. Len(f) /\ DOMAIN g = 1 .. Len(f)
  BY ListLength
<1>3. \A k \in 1 .. Len(f) : f[k] \in S /\ g[k] \in S /\ f[k].at \in Nat /\ g[k].at \in Nat
  <2>1. f \in Seq(S) /\ g \in Seq(S)
    BY DEF Lists
  <2>2. \A k \in 1 .. Len(f) : f[k] \in S /\ g[k] \in S
    BY <1>2, <2>1
  <2>3. \A r \in S : r.at \in Nat
    BY DEF Rows
  <2> QED
    BY <2>2, <2>3
<1> DEFINE h == [k \in 1 .. i |-> CHOOSE j \in DOMAIN g : g[j] = f[k]]
<1>4. ASSUME NEW k \in 1 .. i PROVE h[k] \in DOMAIN g /\ g[h[k]] = f[k]
  <2>1. k \in 1 .. Len(f)
    BY <1>2
  <2>2. \E j \in DOMAIN g : g[j] = f[k]
    BY <1>3, <2>1 DEF Lists
  <2> QED
    BY <2>2
<1>5. ASSUME NEW k \in 1 .. i PROVE h[k] \in 1 .. i - 1
  <2>1. k \in 1 .. Len(f) /\ i \in 1 .. Len(f) /\ h[k] \in 1 .. Len(f) /\ g[h[k]] = f[k]
    BY <1>2, <1>4
  <2> HIDE DEF h
  <2>2. f[k].at <= f[i].at
    <3>1. CASE k = i
      BY <1>3, <2>1, <3>1
    <3>2. CASE k < i
      BY <1>2, <2>1, <3>2 DEF ByTheTime
    <3> QED
      BY <1>2, <2>1, <3>1, <3>2
  <2>3. g[h[k]].at < g[i].at
    BY <1>1, <1>3, <2>1, <2>2
  <2>4. h[k] # i
    BY <1>3, <2>1, <2>3
  <2>5. ~(i < h[k])
    BY <1>2, <1>3, <2>1, <2>3 DEF ByTheTime
  <2> QED
    BY <2>1, <2>4, <2>5
<1>6. h \in [1 .. i -> 1 .. i - 1]
  BY <1>5
<1>7. i \in Nat /\ i >= 1
  BY <1>2
<1>8. /\ IsFiniteSet(1 .. i) /\ Cardinality(1 .. i) = i
      /\ IsFiniteSet(1 .. i - 1) /\ Cardinality(1 .. i - 1) = i - 1
  <2>1. i \in Int /\ i - 1 \in Int /\ 1 \in Int
    BY <1>7
  <2>2. /\ IsFiniteSet(1 .. i) /\ Cardinality(1 .. i) = IF 1 > i THEN 0 ELSE i - 1 + 1
        /\ IsFiniteSet(1 .. i - 1)
        /\ Cardinality(1 .. i - 1) = IF 1 > i - 1 THEN 0 ELSE (i - 1) - 1 + 1
    BY <2>1, FS_Interval
  <2> QED
    BY <1>7, <2>2
<1> HIDE DEF h
<1>9. PICK x \in 1 .. i, y \in 1 .. i : x # y /\ h[x] = h[y]
  BY <1>6, <1>7, <1>8, FS_PigeonHole
<1>10. f[x] = f[y] /\ x \in DOMAIN f /\ y \in DOMAIN f
  BY <1>2, <1>4, <1>9
<1> QED
  BY <1>9, <1>10 DEF Lists

LEMMA MemListAllFacts ==
  ASSUME NEW rows, RowsListed(rows), NEW a
  PROVE  LET m == Mem!ListAllAttestations(rows, a) IN
         Lists(m, {r \in ToSet(rows) : r.account = a}) /\ ByTheTime(m)
<1> DEFINE K == {i \in DOMAIN rows : rows[i].account = a}
           Earlier(i, j) == rows[i].at < rows[j].at \/ (rows[i].at = rows[j].at /\ i < j)
           R == {p \in K \X K : Earlier(p[1], p[2])}
           First(i) == {j \in K : Earlier(j, i)}
           sorted == Mem!OrderBy(K, LAMBDA i, j :
                       rows[i].at < rows[j].at \/ (rows[i].at = rows[j].at /\ i < j))
           m == [n \in DOMAIN sorted |-> rows[sorted[n]]]
           S == {r \in ToSet(rows) : r.account = a}
<1>1. /\ Len(rows) \in Nat /\ DOMAIN rows = 1 .. Len(rows)
      /\ \A i \in DOMAIN rows : rows[i] \in Rows
      /\ ToSet(rows) = {rows[i] : i \in DOMAIN rows}
      /\ Lists(rows, ToSet(rows))
  BY ListedFacts
<1>2. Mem!ListAllAttestations(rows, a) = m
  BY DEF Mem!ListAllAttestations, Mem!Indices
<1>3. K \in SUBSET (1 .. Len(rows)) /\ \A i \in K : i \in Nat /\ rows[i].at \in Nat
  BY <1>1 DEF Rows
<1>4. S = {rows[i] : i \in K}
  BY <1>1
<1> HIDE DEF K, S
<1>5. StrictOrder(R, K)
  <2>1. \A i \in K : ~Earlier(i, i)
    BY <1>3
  <2>2. \A i, j, k \in K : Earlier(i, j) /\ Earlier(j, k) => Earlier(i, k)
    BY <1>3
  <2>3. \A i, j \in K : i = j \/ Earlier(i, j) \/ Earlier(j, i)
    BY <1>3
  <2> HIDE DEF Earlier
  <2> QED
    BY <2>1, <2>2, <2>3 DEF StrictOrder
<1>6. IsFiniteSet(K)
  <2>1. IsFiniteSet(1 .. Len(rows))
    BY <1>1, FS_Interval
  <2> QED
    BY <1>3, <2>1, FS_Subset
<1>7. \A i \in K : Below(R, K, i) = First(i)
  BY DEF Below
<1>8. sorted = [n \in 1 .. Mem!Cardinality(K) |-> CHOOSE i \in K : Mem!Cardinality(First(i)) = n - 1]
  BY DEF Mem!OrderBy
<1> HIDE DEF sorted, First
<1>9. Sorts(sorted, R, K)
  <2>1. Mem!Cardinality(K) = Cardinality(K)
    BY MemCounts
  <2>2. ASSUME NEW n \in 1 .. Cardinality(K), NEW i \in K, Cardinality(First(i)) = n - 1
        PROVE  sorted[n] \in K /\ Cardinality(First(sorted[n])) = n - 1
    <3>1. Mem!Cardinality(First(i)) = n - 1
      BY <2>2, MemCounts
    <3>2. sorted[n] \in K /\ Mem!Cardinality(First(sorted[n])) = n - 1
      BY <1>8, <2>1, <3>1
    <3> QED
      BY <3>2, MemCounts
  <2>3. sorted = [n \in 1 .. Cardinality(K) |-> sorted[n]]
    BY <1>8, <2>1
  <2> QED
    BY <1>7, <2>2, <2>3 DEF Sorts
<1>10. Lists(sorted, K) /\ Ascends(sorted, R)
  BY <1>5, <1>6, <1>9, SortsAreLists
<1>11. Len(sorted) \in Nat /\ DOMAIN sorted = 1 .. Len(sorted)
  BY <1>10, ListLength
<1>12. \A n \in DOMAIN sorted : sorted[n] \in K /\ rows[sorted[n]] \in S /\ sorted[n] \in DOMAIN rows
  <2>1. sorted \in Seq(K)
    BY <1>10 DEF Lists
  <2>2. \A n \in DOMAIN sorted : sorted[n] \in K
    BY <1>11, <2>1
  <2> QED
    BY <1>1, <1>3, <1>4, <2>2
<1>13. m \in Seq(S)
  BY <1>11, <1>12
<1>14. \A x \in S : \E n \in DOMAIN m : m[n] = x
  BY <1>4, <1>10 DEF Lists
<1>15. ASSUME NEW i \in DOMAIN m, NEW j \in DOMAIN m, m[i] = m[j] PROVE i = j
  <2>1. sorted[i] = sorted[j]
    BY <1>1, <1>12, <1>15 DEF Lists
  <2> QED
    BY <1>10, <2>1 DEF Lists
<1>16. ASSUME NEW i \in DOMAIN m, NEW j \in DOMAIN m, i < j PROVE m[i].at <= m[j].at
  <2>1. Earlier(sorted[i], sorted[j])
    BY <1>10, <1>16 DEF Ascends
  <2> QED
    BY <1>3, <1>12, <2>1
<1> HIDE DEF m
<1> QED
  BY <1>2, <1>13, <1>14, <1>15, <1>16 DEF Lists, ByTheTime, S

LEMMA ListsAgree ==
  ASSUME NEW rows, RowsListed(rows), NEW a
  PROVE  LET p == ListAllAttestations(ToSet(rows), a)
             m == Mem!ListAllAttestations(rows, a) IN
         /\ ToSet(p) = ToSet(m)
         /\ Len(p) = Len(m)
         /\ \A i \in DOMAIN p : p[i].at = m[i].at
<1> DEFINE S == {r \in ToSet(rows) : r.account = a}
           p == ListAllAttestations(ToSet(rows), a)
           m == Mem!ListAllAttestations(rows, a)
<1>1. RowsOK(ToSet(rows)) /\ S \in SUBSET Rows
  <2>1. RowsOK(ToSet(rows))
    BY ListedFacts
  <2> QED
    BY <2>1 DEF RowsOK, Rows
<1>2. /\ p \in Seq(S)
      /\ \A x \in S : \E i \in DOMAIN p : p[i] = x
      /\ \A i, j \in DOMAIN p : i < j => Before(p[i], p[j])
  BY <1>1, ListAllFacts
<1>3. Lists(m, S) /\ ByTheTime(m)
  BY MemListAllFacts
<1> HIDE DEF S, p, m
<1>4. \A i \in DOMAIN p : i \in Nat /\ p[i].at \in Nat /\ IdOf[p[i].content] \in Nat
  BY <1>1, <1>2, CloudTypesAssumption DEF Rows
<1>5. ByTheTime(p)
  BY <1>2, <1>4 DEF ByTheTime, Before
<1>6. ASSUME NEW i \in DOMAIN p, NEW j \in DOMAIN p, p[i] = p[j] PROVE i = j
  <2>1. CASE i < j
    BY <1>2, <1>4, <1>6, <2>1 DEF Before
  <2>2. CASE j < i
    BY <1>2, <1>4, <1>6, <2>2 DEF Before
  <2> QED
    BY <1>4, <2>1, <2>2
<1>7. Lists(p, S)
  BY <1>2, <1>6 DEF Lists
<1>8. Len(p) = Len(m) /\ DOMAIN p = DOMAIN m
  BY <1>3, <1>7, ListLength
<1>9. ToSet(p) = ToSet(m)
  <2>1. ToSet(p) = S /\ ToSet(m) = S
    BY <1>3, <1>7 DEF Lists, ToSet
  <2> QED
    BY <2>1
<1>10. ASSUME NEW i \in DOMAIN p PROVE p[i].at = m[i].at
  <2>1. ~(p[i].at < m[i].at) /\ ~(m[i].at < p[i].at)
    BY <1>1, <1>3, <1>5, <1>7, <1>8, NotEarlier
  <2>2. m[i] \in S
    BY <1>3, <1>8 DEF Lists
  <2>3. m[i].at \in Nat
    BY <1>1, <2>2 DEF Rows
  <2> QED
    BY <1>4, <2>1, <2>3
<1> QED
  BY <1>8, <1>9, <1>10 DEF p, m

----------------------------------------------------------------------------
(* The pages of a search: both stores cut them from one list, the rows of  *)
(* the filter with the newest first.                                       *)
Found(rows, a, f) == {r \in ToSet(rows) : Matches(r, a, f)}
All(rows, a, f) == NewestFirst(Found(rows, a, f))

LEMMA AllFacts ==
  ASSUME NEW S, RowsOK(S)
  PROVE  Lists(NewestFirst(S), S) /\ Ascends(NewestFirst(S), Newer(S))
<1> DEFINE L == NewestFirst(S)
<1>1. /\ L \in Seq(S)
      /\ \A x \in S : \E i \in DOMAIN L : L[i] = x
      /\ \A i, j \in DOMAIN L : i < j => Before(L[j], L[i])
  BY NewestFirstFacts
<1> HIDE DEF L
<1>2. \A i \in DOMAIN L : i \in Nat /\ L[i] \in S
  BY <1>1
<1>3. \A i, j \in DOMAIN L : i < j => <<L[i], L[j]>> \in Newer(S)
  BY <1>1, <1>2 DEF Newer
<1>4. \A x \in S : <<x, x>> \notin Newer(S)
  BY RowsAreOrdered DEF StrictOrder
<1>5. ASSUME NEW i \in DOMAIN L, NEW j \in DOMAIN L, L[i] = L[j] PROVE i = j
  <2>1. CASE i < j
    BY <1>2, <1>3, <1>4, <1>5, <2>1
  <2>2. CASE j < i
    BY <1>2, <1>3, <1>4, <1>5, <2>2
  <2> QED
    BY <1>2, <2>1, <2>2
<1> QED
  BY <1>1, <1>3, <1>5 DEF Lists, Ascends, L

LEMMA MemFilters ==
  ASSUME NEW rows, RowsListed(rows), NEW a, NEW f
  PROVE  Mem!Filtered(rows, a, f) = All(rows, a, f)
<1> DEFINE S == Found(rows, a, f)
           First(r) == {s \in S : Mem!Newer(s, r)}
           T == {r \in Mem!ToSet(rows) :
                   /\ r.account = a
                   /\ f.agent \in {None, AgentOf[r.content]}
                   /\ f.customer \in {None, CustomerOf[r.content]}
                   /\ r.at >= f.from
                   /\ r.at < f.to}
           g == Mem!Filtered(rows, a, f)
<1>1. T = S
  BY DEF Found, Matches, Mem!ToSet, ToSet
<1>2. g = Mem!OrderBy(T, Mem!Newer)
  BY DEF Mem!Filtered
<1>3. RowsOK(S)
  BY ListedFacts, RowFacts DEF Found
<1> HIDE DEF T, S
<1>4. g = [i \in 1 .. Mem!Cardinality(S) |-> CHOOSE r \in S : Mem!Cardinality(First(r)) = i - 1]
  BY <1>1, <1>2 DEF Mem!OrderBy
<1>5. \A r \in S : r.at \in Nat /\ IdOf[r.content] \in Nat
  BY <1>3, RowFacts
<1>6. \A r \in S : Below(Newer(S), S, r) = First(r)
  BY <1>5 DEF Below, Newer, Before, Mem!Newer
<1> HIDE DEF g, First
<1>7. Sorts(g, Newer(S), S)
  <2>1. Mem!Cardinality(S) = Cardinality(S)
    BY MemCounts
  <2>2. ASSUME NEW i \in 1 .. Cardinality(S), NEW r \in S, Cardinality(First(r)) = i - 1
        PROVE  g[i] \in S /\ Cardinality(First(g[i])) = i - 1
    <3>1. Mem!Cardinality(First(r)) = i - 1
      BY <2>2, MemCounts
    <3>2. g[i] \in S /\ Mem!Cardinality(First(g[i])) = i - 1
      BY <1>4, <2>1, <3>1
    <3> QED
      BY <3>2, MemCounts
  <2>3. g = [i \in 1 .. Cardinality(S) |-> g[i]]
    BY <1>4, <2>1
  <2> QED
    BY <1>6, <2>2, <2>3 DEF Sorts
<1>8. StrictOrder(Newer(S), S) /\ IsFiniteSet(S)
  BY <1>3, RowsAreOrdered DEF RowsOK
<1>9. Lists(g, S) /\ Ascends(g, Newer(S))
  BY <1>7, <1>8, SortsAreLists
<1>10. g = NewestFirst(S)
  BY <1>3, <1>8, <1>9, AllFacts, SortedOnce
<1> QED
  BY <1>10 DEF All, g, S

(* What is beyond a row of the list is the rest of it.                     *)
LEMMA RestOfAll ==
  ASSUME NEW S, RowsOK(S), NEW e \in 1 .. Len(NewestFirst(S))
  PROVE  LET L == NewestFirst(S)
             T == SubSeq(L, e + 1, Len(L)) IN
         /\ NewestFirst({r \in S : Before(r, L[e])}) = T
         /\ Len(T) = Len(L) - e /\ \A i \in 1 .. Len(L) - e : T[i] = L[e + i]
<1> DEFINE L == NewestFirst(S)
           N == Len(L)
           T == SubSeq(L, e + 1, N)
           B == {r \in S : Before(r, L[e])}
<1>1. Lists(L, S) /\ Ascends(L, Newer(S))
  BY AllFacts
<1>2. RowsOK(B)
  BY RowFacts
<1>3. \A r \in S : r.at \in Nat /\ IdOf[r.content] \in Nat
  BY RowFacts
<1> HIDE DEF L
<1>4. N \in Nat /\ DOMAIN L = 1 .. N /\ L \in Seq(S)
  BY <1>1, ListLength DEF Lists
<1>5. e \in 1 .. N
  BY DEF L
<1> HIDE DEF N
<1>6. \A i, j \in 1 .. N : i < j => Before(L[j], L[i])
  BY <1>1, <1>4 DEF Ascends, Newer
<1>7. \A i \in 1 .. N : L[i] \in S
  BY <1>4
<1>8. \A i \in 1 .. N - e : e + i \in 1 .. N /\ e < e + i
  BY <1>4, <1>5
<1>9. \A i \in e + 1 .. N : L[i] \in B
  <2>1. \A i \in e + 1 .. N : i \in 1 .. N /\ e < i
    BY <1>4, <1>5
  <2> QED
    BY <1>5, <1>6, <1>7, <2>1
<1> HIDE DEF B
<1>10. /\ T \in Seq(B) /\ Len(T) = N - e /\ DOMAIN T = 1 .. N - e
       /\ \A i \in 1 .. N - e : T[i] = L[e + i]
  <2>1. /\ T \in Seq(B)
        /\ Len(T) = IF e + 1 <= N THEN N - (e + 1) + 1 ELSE 0
        /\ \A i \in 1 .. N - (e + 1) + 1 : T[i] = L[(e + 1) + i - 1]
    BY <1>4, <1>5, <1>9, SubSeqProperties
  <2> HIDE DEF T
  <2>2. Len(T) = N - e
    BY <1>4, <1>5, <2>1
  <2>3. DOMAIN T = 1 .. N - e
    BY <2>1, <2>2
  <2>4. ASSUME NEW i \in 1 .. N - e PROVE T[i] = L[e + i]
    <3>1. i \in 1 .. N - (e + 1) + 1 /\ (e + 1) + i - 1 = e + i
      BY <1>4, <1>5
    <3> QED
      BY <2>1, <3>1
  <2> QED
    BY <2>1, <2>2, <2>3, <2>4
<1> HIDE DEF T
<1>11. ASSUME NEW x \in B PROVE \E i \in DOMAIN T : T[i] = x
  <2>1. x \in S /\ Before(x, L[e])
    BY DEF B
  <2>2. PICK i \in 1 .. N : L[i] = x
    BY <1>1, <1>4, <2>1 DEF Lists
  <2>3. i > e
    <3>1. i # e
      BY <1>3, <1>5, <1>7, <2>1, <2>2 DEF Before
    <3>2. ~(i < e)
      BY <1>3, <1>5, <1>6, <1>7, <2>1, <2>2 DEF Before
    <3> QED
      BY <1>4, <1>5, <3>1, <3>2
  <2>4. i - e \in 1 .. N - e /\ e + (i - e) = i
    BY <1>4, <1>5, <2>3
  <2> QED
    BY <1>10, <2>2, <2>4
<1>12. ASSUME NEW i \in DOMAIN T, NEW j \in DOMAIN T, i < j PROVE <<T[i], T[j]>> \in Newer(B)
  <2>1. e + i \in 1 .. N /\ e + j \in 1 .. N /\ e + i < e + j
    BY <1>4, <1>8, <1>10, <1>12
  <2>2. Before(T[j], T[i])
    BY <1>6, <1>10, <2>1
  <2>3. T[i] \in B /\ T[j] \in B
    BY <1>10
  <2> QED
    BY <2>2, <2>3 DEF Newer
<1>13. ASSUME NEW i \in DOMAIN T, NEW j \in DOMAIN T, T[i] = T[j] PROVE i = j
  <2>1. e + i \in DOMAIN L /\ e + j \in DOMAIN L /\ L[e + i] = L[e + j]
    BY <1>4, <1>8, <1>10, <1>13
  <2>2. e + i = e + j
    BY <1>1, <2>1 DEF Lists
  <2> QED
    BY <1>4, <1>5, <1>10, <2>2
<1>14. Lists(T, B) /\ Ascends(T, Newer(B))
  BY <1>10, <1>11, <1>12, <1>13 DEF Lists, Ascends
<1>15. NewestFirst(B) = T
  BY <1>2, <1>14, AllFacts, RowsAreOrdered, SortedOnce
<1> QED
  BY <1>10, <1>15 DEF B, T, N, L

(* The page after the first e rows of L                                    *)
PageEnd(L, e, limit) == IF e + limit < Len(L) THEN e + limit ELSE Len(L)
PageRows(L, e, limit) == SubSeq(L, e + 1, PageEnd(L, e, limit))

LEMMA PgPage ==
  ASSUME NEW rows, RowsListed(rows), NEW a, NEW f, NEW limit \in Nat \ {0}, NEW e \in Nat,
         e = 0 \/ e < Len(All(rows, a, f))
  PROVE  LET L == All(rows, a, f) IN
         SearchAttestations(ToSet(rows), a, f, limit, IF e = 0 THEN None ELSE L[e])
           = [rows |-> PageRows(L, e, limit),
              next |-> IF e + limit < Len(L) THEN L[e + limit] ELSE None]
<1> DEFINE S == Found(rows, a, f)
           L == NewestFirst(S)
           N == Len(L)
           cursor == IF e = 0 THEN None ELSE L[e]
           T == NewestFirst({r \in ToSet(rows) : Matches(r, a, f) /\ Beyond(r, cursor)})
           k == SubSeq(T, 1, IF Len(T) > limit THEN limit ELSE Len(T))
<1>1. All(rows, a, f) = L
  BY DEF All
<1>2. SearchAttestations(ToSet(rows), a, f, limit, cursor)
        = [rows |-> k, next |-> IF Len(T) > limit THEN k[limit] ELSE None]
  BY DEF SearchAttestations
<1>3. RowsOK(S)
  BY ListedFacts, RowFacts DEF Found
<1>4. Lists(L, S)
  BY <1>3, AllFacts
<1>5. N \in Nat /\ DOMAIN L = 1 .. N /\ L \in Seq(S)
  BY <1>4, ListLength DEF Lists
<1>6. CASE e = 0
  <2>1. {r \in ToSet(rows) : Matches(r, a, f) /\ Beyond(r, cursor)} = S
    BY <1>6 DEF Beyond, Found
  <2>2. T = L
    BY <2>1
  <2> HIDE DEF L, T, cursor
  <2>3. CASE N > limit
    <3>1. k = SubSeq(L, 1, limit) /\ PageRows(L, e, limit) = SubSeq(L, 1, limit)
      BY <1>5, <1>6, <2>2, <2>3 DEF PageRows, PageEnd
    <3>2. k[limit] = L[limit]
      <4>1. limit \in 1 .. limit /\ limit <= Len(L)
        BY <1>5, <2>3
      <4> QED
        BY <1>5, <3>1, <4>1, Prefix
    <3> QED
      BY <1>1, <1>2, <1>5, <1>6, <2>2, <2>3, <3>1, <3>2 DEF cursor
  <2>4. CASE ~(N > limit)
    <3>1. k = SubSeq(L, 1, N) /\ PageRows(L, e, limit) = SubSeq(L, 1, N)
      BY <1>5, <1>6, <2>2, <2>4 DEF PageRows, PageEnd
    <3> QED
      BY <1>1, <1>2, <1>5, <1>6, <2>2, <2>4, <3>1 DEF cursor
  <2> QED
    BY <2>3, <2>4
<1>7. CASE e # 0
  <2>1. e \in 1 .. N /\ e < N
    BY <1>1, <1>5, <1>7
  <2>2. L[e] \in S /\ L[e] # None
    BY <1>3, <1>5, <2>1, RowFacts
  <2>3. cursor = L[e]
    BY <1>7
  <2>4. {r \in ToSet(rows) : Matches(r, a, f) /\ Beyond(r, cursor)} = {r \in S : Before(r, L[e])}
    BY <2>2, <2>3 DEF Beyond, Found
  <2>5. /\ T = SubSeq(L, e + 1, N)
        /\ Len(T) = N - e /\ \A i \in 1 .. N - e : T[i] = L[e + i]
    <3>1. T = NewestFirst({r \in S : Before(r, L[e])})
      BY <2>4
    <3> HIDE DEF S, T
    <3> QED
      BY <1>3, <2>1, <3>1, RestOfAll
  <2> HIDE DEF L, T, cursor, N
  <2> DEFINE n == IF N - e > limit THEN limit ELSE N - e
  <2>6. n \in 1 .. N - e /\ PageEnd(L, e, limit) = e + n
    BY <1>5, <2>1 DEF PageEnd, N
  <2>7. k = SubSeq(L, e + 1, e + n)
    <3>1. k = SubSeq(T, 1, n)
      BY <2>5
    <3>2. e + 1 \in 1 .. Len(L) /\ N \in 1 .. Len(L) /\ N - (e + 1) + 1 = N - e /\ 1 \in 1 .. N - e
      BY <1>5, <2>1 DEF N
    <3> HIDE DEF n
    <3>3. SubSeq(SubSeq(L, e + 1, N), 1, n) = SubSeq(L, (e + 1) + 1 - 1, (e + 1) + n - 1)
      BY <1>5, <2>6, <3>2, SubSeqOfSubSeq
    <3>4. (e + 1) + 1 - 1 = e + 1 /\ (e + 1) + n - 1 = e + n
      BY <1>5, <2>6
    <3> QED
      BY <2>5, <3>1, <3>3, <3>4
  <2>8. PageRows(L, e, limit) = k
    BY <2>6, <2>7 DEF PageRows
  <2>9. (Len(T) > limit) = (e + limit < N)
    BY <1>5, <2>5, <2>1
  <2>10. ASSUME Len(T) > limit PROVE k[limit] = L[e + limit]
    <3>1. T \in Seq(S)
      <4>1. \A i \in e + 1 .. N : L[i] \in S
        BY <1>5, <2>1
      <4> QED
        BY <1>5, <2>5, <4>1, SubSeqProperties
    <3>2. k = SubSeq(T, 1, limit) /\ limit \in 1 .. limit /\ limit <= Len(T)
      BY <2>5, <2>10, <1>5
    <3>3. k[limit] = T[limit]
      BY <3>1, <3>2, Prefix
    <3> QED
      BY <1>5, <2>1, <2>5, <2>10, <3>3
  <2> QED
    BY <1>1, <1>2, <2>3, <2>8, <2>9, <2>10, <1>7 DEF N
<1> QED
  BY <1>6, <1>7

LEMMA MemPage ==
  ASSUME NEW rows, RowsListed(rows), NEW a, NEW f, NEW limit \in Nat \ {0}, NEW e \in Nat
  PROVE  LET L == All(rows, a, f)
             m == Mem!SearchAttestations(rows, a, f, limit, e) IN
         /\ e > Len(L) => m.panicked = TRUE
         /\ ~(e > Len(L)) => m.panicked = FALSE
         /\ m.rows = PageRows(L, e, limit)
         /\ m.next = IF e + limit < Len(L) THEN e + limit ELSE None
<1> DEFINE L == All(rows, a, f)
           end == PageEnd(L, e, limit)
           b == e > Len(L)
           r == SubSeq(L, e + 1, end)
           z == IF end < Len(L) THEN end ELSE None
           m == Mem!SearchAttestations(rows, a, f, limit, e)
<1>1. m = [panicked |-> b, rows |-> r, next |-> z]
  BY MemFilters DEF Mem!SearchAttestations, PageEnd
<1>2. Len(L) \in Nat
  <2>1. RowsOK(Found(rows, a, f))
    BY ListedFacts, RowFacts DEF Found
  <2>2. Lists(L, Found(rows, a, f))
    BY <2>1, AllFacts DEF All
  <2> QED
    BY <2>2, ListLength
<1>3. /\ e > Len(L) => b = TRUE
      /\ ~(e > Len(L)) => b = FALSE
  OBVIOUS
<1>4. m.panicked = b /\ m.rows = r /\ m.next = z
  <2> HIDE DEF b, r, z, m
  <2> QED
    BY <1>1
<1> HIDE DEF L, b, m
<1>5. (end < Len(L)) = (e + limit < Len(L)) /\ (e + limit < Len(L) => end = e + limit)
  BY <1>2 DEF PageEnd
<1>6. m.rows = PageRows(L, e, limit) /\ m.next = IF e + limit < Len(L) THEN e + limit ELSE None
  BY <1>4, <1>5 DEF PageRows
<1>7. /\ e > Len(L) => m.panicked = TRUE
      /\ ~(e > Len(L)) => m.panicked = FALSE
  BY <1>3, <1>4
<1> QED
  BY <1>6, <1>7 DEF L, m

(* The first e rows of a list are e rows.                                  *)
LEMMA FirstRows ==
  ASSUME NEW S, NEW L, Lists(L, S), NEW e \in 0 .. Len(L)
  PROVE  Cardinality({L[i] : i \in 1 .. e}) = e
<1>1. Len(L) \in Nat /\ DOMAIN L = 1 .. Len(L)
  BY ListLength
<1> DEFINE T == {L[i] : i \in 1 .. e}
           g == [i \in 1 .. e |-> L[i]]
<1>2. e \in Nat /\ \A i \in 1 .. e : i \in DOMAIN L
  BY <1>1
<1>3. \A i, j \in 1 .. e : L[i] = L[j] => i = j
  BY <1>2 DEF Lists
<1>4. g \in Bijection(1 .. e, T)
  BY <1>3 DEF Bijection, Injection, Surjection, IsInjective
<1>5. IsFiniteSet(1 .. e) /\ Cardinality(1 .. e) = e
  BY <1>2, FS_Interval
<1> HIDE DEF T, g
<1>6. Cardinality(T) = e
  BY <1>4, <1>5, FS_Bijection DEF ExistsBijection
<1> QED
  BY <1>6 DEF T

(* What a cursor has passed are the first rows of the list, whether or not *)
(* the row it was made of is still there.                                  *)
PassedRows(rows, a, f, x) == {r \in ToSet(rows) : Matches(r, a, f) /\ ~Beyond(r, x)}

LEMMA CursorPasses ==
  ASSUME NEW rows, RowsListed(rows), NEW a, NEW f, NEW x, x = None \/ x \in Rows
  PROVE  LET L == All(rows, a, f)
             K == Cardinality(PassedRows(rows, a, f, x)) IN
         /\ K \in 0 .. Len(L) /\ \A i \in 1 .. Len(L) : Beyond(L[i], x) <=> i > K
<1> DEFINE S == Found(rows, a, f)
           L == All(rows, a, f)
           N == Len(L)
           Q == PassedRows(rows, a, f, x)
           B == {i \in 1 .. N : Beyond(L[i], x)}
<1>1. RowsOK(S)
  BY ListedFacts, RowFacts DEF Found
<1>2. Lists(L, S) /\ Ascends(L, Newer(S))
  BY <1>1, AllFacts DEF All
<1>3. \A r \in S : r.at \in Nat /\ IdOf[r.content] \in Nat
  BY <1>1, RowFacts
<1>4. Q = {r \in S : ~Beyond(r, x)}
  BY DEF PassedRows, Found
<1> HIDE DEF S, L, Q
<1>5. N \in Nat /\ DOMAIN L = 1 .. N /\ \A i \in 1 .. N : L[i] \in S
  BY <1>2, ListLength DEF Lists
<1>6. \A i, j \in 1 .. N : i < j => Before(L[j], L[i])
  BY <1>2, <1>5 DEF Ascends, Newer
<1> HIDE DEF N
<1>7. ASSUME NEW i \in 1 .. N, NEW j \in 1 .. N, i < j, Beyond(L[i], x) PROVE Beyond(L[j], x)
  <2>1. CASE x = None
    BY <2>1 DEF Beyond
  <2>2. CASE x # None /\ x \in Rows
    <3>1. x.at \in Nat /\ IdOf[x.content] \in Nat
      BY <2>2, CloudTypesAssumption DEF Rows
    <3>2. Before(L[i], x) /\ Before(L[j], L[i])
      BY <1>6, <1>7, <2>2 DEF Beyond
    <3>3. /\ L[i].at \in Nat /\ IdOf[L[i].content] \in Nat
          /\ L[j].at \in Nat /\ IdOf[L[j].content] \in Nat
      BY <1>3, <1>5
    <3>4. Before(L[j], x)
      BY <3>1, <3>2, <3>3 DEF Before
    <3> QED
      BY <3>4 DEF Beyond
  <2> QED
    BY <2>1, <2>2
<1>8. \E M \in 0 .. N : \A i \in 1 .. N : Beyond(L[i], x) <=> i > M
  <2>1. CASE B = {}
    <3>1. N \in 0 .. N /\ \A i \in 1 .. N : ~Beyond(L[i], x) /\ ~(i > N)
      BY <1>5, <2>1
    <3> QED
      BY <3>1
  <2>2. CASE B # {}
    <3>1. B \in SUBSET Nat
      BY <1>5
    <3>2. \A i \in B : i \in 1 .. N /\ Beyond(L[i], x)
      OBVIOUS
    <3>3. \A i \in 1 .. N : Beyond(L[i], x) => i \in B
      OBVIOUS
    <3> HIDE DEF B
    <3>4. PICK j \in B : \A i \in B : j <= i
      BY <2>2, <3>1, NatLeast
    <3> DEFINE M == j - 1
    <3>5. j \in 1 .. N /\ Beyond(L[j], x)
      BY <3>2, <3>4
    <3>6. M \in 0 .. N
      BY <1>5, <3>5
    <3>7. ASSUME NEW i \in 1 .. N PROVE Beyond(L[i], x) <=> i > M
      <4>1. CASE i < j
        <5>1. i \notin B
          BY <1>5, <3>1, <3>4, <3>5, <4>1
        <5> QED
          BY <1>5, <3>3, <3>5, <4>1, <5>1
      <4>2. CASE i = j
        BY <1>5, <3>5, <4>2
      <4>3. CASE i > j
        <5>1. Beyond(L[i], x)
          BY <1>5, <1>7, <3>5, <4>3
        <5>2. i > M
          BY <1>5, <3>5, <4>3
        <5> QED
          BY <5>1, <5>2
      <4> QED
        BY <1>5, <3>5, <4>1, <4>2, <4>3
    <3> QED
      BY <3>6, <3>7
  <2> QED
    BY <2>1, <2>2
<1>9. PICK M \in 0 .. N : \A i \in 1 .. N : Beyond(L[i], x) <=> i > M
  BY <1>8
<1>10. Q = {L[i] : i \in 1 .. M}
  <2>1. \A i \in 1 .. M : i \in 1 .. N /\ ~(i > M)
    BY <1>5, <1>9
  <2>2. \A i \in 1 .. M : L[i] \in Q
    BY <1>4, <1>5, <1>9, <2>1
  <2>3. ASSUME NEW r \in Q PROVE r \in {L[i] : i \in 1 .. M}
    <3>1. r \in S /\ ~Beyond(r, x)
      BY <1>4
    <3>2. PICK i \in 1 .. N : L[i] = r
      BY <1>2, <1>5, <3>1 DEF Lists
    <3>3. i \in 1 .. M
      BY <1>5, <1>9, <3>1, <3>2
    <3> QED
      BY <3>2, <3>3
  <2> QED
    BY <2>2, <2>3
<1>11. Cardinality(Q) = M
  BY <1>2, <1>9, <1>10, FirstRows DEF N
<1> QED
  BY <1>9, <1>11 DEF Q, L, N

(* So a cursor made of a row passes the rows up to that one.               *)
LEMMA RowPasses ==
  ASSUME NEW rows, RowsListed(rows), NEW a, NEW f,
         NEW e \in 1 .. Len(All(rows, a, f))
  PROVE  /\ Cardinality(PassedRows(rows, a, f, All(rows, a, f)[e])) = e
         /\ All(rows, a, f)[e] \in Rows /\ All(rows, a, f)[e] # None
<1> DEFINE S == Found(rows, a, f)
           L == All(rows, a, f)
           N == Len(L)
           x == L[e]
           K == Cardinality(PassedRows(rows, a, f, x))
<1>1. RowsOK(S)
  BY ListedFacts, RowFacts DEF Found
<1>2. Lists(L, S) /\ Ascends(L, Newer(S))
  BY <1>1, AllFacts DEF All
<1>3. \A r \in S : r.at \in Nat /\ IdOf[r.content] \in Nat /\ r \in Rows /\ r # None
  <2>1. S \subseteq Rows
    BY <1>1 DEF RowsOK, Rows
  <2> QED
    BY <1>1, <2>1, RowFacts
<1>4. e \in 1 .. N
  OBVIOUS
<1> HIDE DEF S, L
<1>5. N \in Nat /\ DOMAIN L = 1 .. N /\ \A i \in 1 .. N : L[i] \in S
  BY <1>2, ListLength DEF Lists
<1>6. \A i, j \in 1 .. N : i < j => Before(L[j], L[i])
  BY <1>2, <1>5 DEF Ascends, Newer
<1>7. x \in Rows /\ x # None /\ x \in S
  BY <1>3, <1>4, <1>5
<1>8. K \in 0 .. N /\ \A i \in 1 .. N : Beyond(L[i], x) <=> i > K
  BY <1>7, CursorPasses DEF L
<1> HIDE DEF K, N
<1>9. \A i \in 1 .. N : Beyond(L[i], x) <=> Before(L[i], x)
  BY <1>7 DEF Beyond
<1>10. ~(e > K)
  <2>1. ~Before(x, x)
    BY <1>3, <1>7 DEF Before
  <2> QED
    BY <1>4, <1>8, <1>9, <2>1
<1>11. ASSUME e < N PROVE e + 1 > K
  <2>1. e + 1 \in 1 .. N /\ e < e + 1
    BY <1>4, <1>5, <1>11
  <2>2. Before(L[e + 1], x)
    BY <1>4, <1>6, <2>1
  <2> QED
    BY <1>8, <1>9, <2>1, <2>2
<1>12. K = e
  BY <1>4, <1>5, <1>8, <1>10, <1>11
<1> QED
  BY <1>7, <1>12 DEF K, L

(* The page PgDb gives for a cursor is the one after the rows it passed.   *)
LEMMA PgPageFrom ==
  ASSUME NEW rows, RowsListed(rows), NEW a, NEW f, NEW limit \in Nat \ {0},
         NEW x, x = None \/ x \in Rows
  PROVE  LET L == All(rows, a, f)
             K == Cardinality(PassedRows(rows, a, f, x)) IN
         SearchAttestations(ToSet(rows), a, f, limit, x)
           = [rows |-> PageRows(L, K, limit),
              next |-> IF K + limit < Len(L) THEN L[K + limit] ELSE None]
<1> DEFINE S == Found(rows, a, f)
           L == All(rows, a, f)
           N == Len(L)
           K == Cardinality(PassedRows(rows, a, f, x))
           Left(c) == {r \in ToSet(rows) : Matches(r, a, f) /\ Beyond(r, c)}
           T == NewestFirst(Left(x))
<1>1. K \in 0 .. N /\ \A i \in 1 .. N : Beyond(L[i], x) <=> i > K
  BY CursorPasses
<1>2. RowsOK(S)
  BY ListedFacts, RowFacts DEF Found
<1>3. Lists(L, S)
  BY <1>2, AllFacts DEF All
<1>4. \A c : Left(c) = {r \in S : Beyond(r, c)}
  BY DEF Found
<1> HIDE DEF S, L, Left, K
<1>5. N \in Nat /\ DOMAIN L = 1 .. N /\ \A i \in 1 .. N : L[i] \in S
  BY <1>3, ListLength DEF Lists
<1>6. \A r \in S : \E i \in 1 .. N : r = L[i]
  BY <1>3, <1>5 DEF Lists
<1>7. CASE K = 0 \/ K < N
  <2> DEFINE c == IF K = 0 THEN None ELSE L[K]
  <2>1. \A i \in 1 .. N : Beyond(L[i], c) <=> i > K
    <3>1. CASE K = 0
      BY <3>1 DEF Beyond
    <3>2. CASE K # 0
      <4>1. K \in 1 .. N
        BY <1>1, <1>5, <3>2
      <4>2. Cardinality(PassedRows(rows, a, f, L[K])) = K /\ L[K] \in Rows
        BY <4>1, RowPasses DEF L
      <4> DEFINE y == L[K]
      <4> HIDE DEF y
      <4>3. \A i \in 1 .. N : Beyond(L[i], y) <=> i > Cardinality(PassedRows(rows, a, f, y))
        BY <4>2, CursorPasses DEF L, y
      <4> QED
        BY <3>2, <4>2, <4>3 DEF y
    <3> QED
      BY <3>1, <3>2
  <2> HIDE DEF c, N
  <2>2. \A r \in S : Beyond(r, x) <=> Beyond(r, c)
    BY <1>1, <1>6, <2>1
  <2>3. Left(x) = Left(c)
    BY <1>4, <2>2
  <2>4. SearchAttestations(ToSet(rows), a, f, limit, x) = SearchAttestations(ToSet(rows), a, f, limit, c)
    BY <2>3 DEF SearchAttestations, Left
  <2>5. K \in Nat
    BY <1>1, <1>5
  <2>6. SearchAttestations(ToSet(rows), a, f, limit, c)
          = [rows |-> PageRows(L, K, limit), next |-> IF K + limit < N THEN L[K + limit] ELSE None]
    BY <1>7, <2>5, PgPage DEF L, N, c
  <2> QED
    BY <2>4, <2>6 DEF L, N, K
<1>8. CASE K = N
  <2>1. \A r \in S : ~Beyond(r, x)
    BY <1>1, <1>5, <1>6, <1>8
  <2>2. Left(x) = {}
    BY <1>4, <2>1
  <2>3. RowsOK({})
    BY FS_EmptySet DEF RowsOK
  <2>4. Lists(T, {})
    BY <2>2, <2>3, AllFacts
  <2>5. T \in Seq({}) /\ Len(T) = 0
    BY <2>4, FS_EmptySet, ListLength DEF Lists
  <2>6. SearchAttestations(ToSet(rows), a, f, limit, x)
          = LET k == SubSeq(T, 1, IF Len(T) > limit THEN limit ELSE Len(T)) IN
            [rows |-> k, next |-> IF Len(T) > limit THEN k[limit] ELSE None]
    BY DEF SearchAttestations, Left
  <2> HIDE DEF T
  <2>7. SubSeq(T, 1, 0) = <<>>
    BY SubSeqEmpty
  <2>8. SearchAttestations(ToSet(rows), a, f, limit, x) = [rows |-> <<>>, next |-> None]
    BY <2>5, <2>6, <2>7
  <2> HIDE DEF N
  <2>9. PageRows(L, K, limit) = SubSeq(L, K + 1, N) /\ ~(K + limit < N)
    BY <1>5, <1>8 DEF PageRows, PageEnd, N
  <2>10. SubSeq(L, K + 1, N) = <<>>
    <3>1. K + 1 \in Int /\ N \in Int /\ N < K + 1
      BY <1>5, <1>8
    <3> QED
      BY <3>1, SubSeqEmpty
  <2> QED
    BY <2>8, <2>9, <2>10 DEF L, N, K
<1>9. (K = 0 \/ K < N) \/ K = N
  <2>1. K \in 0 .. N /\ N \in Nat
    BY <1>1, <1>5
  <2> HIDE DEF N
  <2> QED
    BY <2>1
<1> QED
  BY <1>7, <1>8, <1>9, Zenon

(* Pages that start at different rows of a list are different.             *)
LEMMA PagesDiffer ==
  ASSUME NEW S, NEW L, Lists(L, S), NEW limit \in Nat \ {0},
         NEW e \in 0 .. Len(L), NEW n \in 0 .. Len(L), PageRows(L, e, limit) = PageRows(L, n, limit)
  PROVE  e = n
<1> DEFINE N == Len(L)
<1>1. N \in Nat /\ DOMAIN L = 1 .. N /\ L \in Seq(S)
  BY ListLength DEF Lists
<1>2. ASSUME NEW d \in 0 .. N
      PROVE  /\ d = N => Len(PageRows(L, d, limit)) = 0
             /\ d < N => Len(PageRows(L, d, limit)) # 0 /\ PageRows(L, d, limit)[1] = L[d + 1]
  <2>1. CASE d = N
    <3>1. PageRows(L, d, limit) = SubSeq(L, d + 1, N) /\ N < d + 1 /\ d + 1 \in Int
      BY <1>1, <2>1 DEF PageRows, PageEnd
    <3>2. SubSeq(L, d + 1, N) = <<>>
      BY <1>1, <3>1, SubSeqEmpty
    <3> QED
      BY <2>1, <3>1, <3>2
  <2>2. CASE d < N
    <3> DEFINE z == PageEnd(L, d, limit)
    <3>1. z \in 1 .. N /\ d + 1 \in 1 .. N /\ d + 1 <= z
      BY <1>1, <2>2 DEF PageEnd
    <3> HIDE DEF z, N
    <3>2. \A i \in d + 1 .. z : L[i] \in S
      BY <1>1, <3>1
    <3>3. /\ Len(SubSeq(L, d + 1, z)) = z - (d + 1) + 1
          /\ \A i \in 1 .. z - (d + 1) + 1 : SubSeq(L, d + 1, z)[i] = L[(d + 1) + i - 1]
      <4>1. d + 1 \in 1 .. Len(L) /\ z \in 1 .. Len(L)
        BY <3>1 DEF N
      <4> QED
        BY <1>1, <3>1, <3>2, <4>1, SubSeqProperties
    <3>4. z - (d + 1) + 1 \in Nat \ {0} /\ 1 \in 1 .. z - (d + 1) + 1 /\ (d + 1) + 1 - 1 = d + 1
      BY <1>1, <3>1
    <3> DEFINE page == PageRows(L, d, limit)
    <3>5. page = SubSeq(L, d + 1, z)
      BY DEF PageRows, z
    <3> HIDE DEF page
    <3>6. Len(page) # 0 /\ page[1] = L[d + 1]
      BY <3>3, <3>4, <3>5
    <3>7. d # N
      BY <1>1, <2>2
    <3> QED
      BY <2>2, <3>6, <3>7 DEF page
  <2> QED
    BY <1>1, <2>1, <2>2
<1>3. CASE e < N /\ n < N
  <2>1. e + 1 \in DOMAIN L /\ n + 1 \in DOMAIN L
    BY <1>1, <1>3
  <2>2. L[e + 1] = L[n + 1]
    BY <1>2, <1>3
  <2>3. e + 1 = n + 1
    BY <2>1, <2>2 DEF Lists
  <2> QED
    BY <1>1, <2>3
<1>4. CASE ~(e < N /\ n < N)
  <2>1. e \in 0 .. N /\ n \in 0 .. N
    OBVIOUS
  <2> DEFINE u == PageRows(L, e, limit)
             v == PageRows(L, n, limit)
  <2>2. /\ e = N => Len(u) = 0
        /\ e < N => Len(u) # 0
        /\ n = N => Len(v) = 0
        /\ n < N => Len(v) # 0
    BY <1>2
  <2>3. u = v
    OBVIOUS
  <2> HIDE DEF u, v, N
  <2>4. e = N /\ n = N
    BY <1>1, <1>4, <2>1, <2>2, <2>3
  <2> QED
    BY <2>4
<1> QED
  BY <1>3, <1>4

LEMMA PagesAgree ==
  ASSUME RowsListed(mem.attestations), pg.attestations = ToSet(mem.attestations), table \in Tables,
         NEW a \in Nat, NEW f, NEW limit \in Nat \ {0}
  PROVE  TheSamePages(a, f, limit)
<1> DEFINE rows == mem.attestations
           L == All(rows, a, f)
           N == Len(L)
           K(x) == Cardinality(PassedRows(rows, a, f, x))
           C == {None} \cup {NewRow(c, a, t) : c \in Contents, t \in Times}
           P(x) == SearchAttestations(pg.attestations, a, f, limit, x)
           M(n) == Mem!SearchAttestations(mem.attestations, a, f, limit, n)
<1>1. RowsListed(rows) /\ pg.attestations = ToSet(rows)
  OBVIOUS
<1>2. \A x : Passed(a, f, x) = K(x)
  BY <1>1 DEF Passed, PassedRows
<1>3. \A x \in C : x = None \/ x \in Rows
  <2>1. ASSUME NEW c \in Contents, NEW t \in Times PROVE NewRow(c, a, t) \in Rows
    BY StoresAssumption DEF NewRow, Rows
  <2> QED
    BY <2>1
<1>4. MaxRows[table] \in Nat
  BY StoresAssumption
<1>5. \A x \in C : P(x) = [rows |-> PageRows(L, K(x), limit),
                           next |-> IF K(x) + limit < N THEN L[K(x) + limit] ELSE None]
  BY <1>1, <1>3, PgPageFrom
<1>6. ASSUME NEW n \in Nat
      PROVE  /\ n > N => M(n).panicked = TRUE
             /\ ~(n > N) => M(n).panicked = FALSE
             /\ M(n).rows = PageRows(L, n, limit)
             /\ M(n).next = IF n + limit < N THEN n + limit ELSE None
  BY <1>1, MemPage
<1>7. \A x \in C : K(x) \in 0 .. N
  BY <1>1, <1>3, CursorPasses
<1>8. \A e \in 1 .. N : K(L[e]) = e /\ L[e] # None
  BY <1>1, RowPasses
<1>9. Lists(L, Found(rows, a, f))
  <2>1. RowsOK(Found(rows, a, f))
    BY <1>1, ListedFacts, RowFacts DEF Found
  <2> QED
    BY <2>1, AllFacts DEF All
<1> HIDE DEF C, rows, L, K
<1>10. N \in Nat
  BY <1>9, ListLength
<1> HIDE DEF P, M
<1>11. ASSUME NEW x \in C, NEW n \in 0 .. MaxRows[table]
       PROVE  /\ (P(x).rows = M(n).rows /\ ~M(n).panicked) <=> n = K(x)
              /\ n = K(x) => /\ P(x).next = None <=> M(n).next = None
                             /\ P(x).next # None => M(n).next = K(P(x).next)
  <2> DEFINE k == K(x)
  <2>1. n \in Nat /\ k \in 0 .. N
    BY <1>4, <1>7
  <2>2. /\ P(x).rows = PageRows(L, k, limit)
        /\ P(x).next = IF k + limit < N THEN L[k + limit] ELSE None
    BY <1>5
  <2>3. /\ n > N => M(n).panicked = TRUE
        /\ ~(n > N) => M(n).panicked = FALSE
        /\ M(n).rows = PageRows(L, n, limit)
        /\ M(n).next = IF n + limit < N THEN n + limit ELSE None
    BY <1>6, <2>1
  <2> HIDE DEF k
  <2>4. ASSUME P(x).rows = M(n).rows, ~M(n).panicked PROVE n = k
    <3>1. n \in 0 .. Len(L) /\ k \in 0 .. Len(L)
      BY <1>10, <2>1, <2>3, <2>4
    <3> QED
      BY <1>9, <2>2, <2>3, <2>4, <3>1, PagesDiffer
  <2>5. ASSUME n = k
        PROVE  /\ P(x).rows = M(n).rows /\ ~M(n).panicked
               /\ P(x).next = None <=> M(n).next = None
               /\ P(x).next # None => M(n).next = K(P(x).next)
    <3>1. P(x).rows = M(n).rows /\ ~M(n).panicked
      BY <1>10, <2>1, <2>2, <2>3, <2>5
    <3>2. CASE k + limit < N
      <4>1. k + limit \in 1 .. N /\ k + limit \in Nat
        BY <1>10, <2>1, <3>2
      <4>2. P(x).next = L[k + limit] /\ L[k + limit] # None /\ K(L[k + limit]) = k + limit
        BY <1>8, <2>2, <3>2, <4>1
      <4>3. M(n).next = k + limit /\ k + limit # None
        BY <2>3, <2>5, <3>2, <4>1, StoresAssumption
      <4> QED
        BY <3>1, <4>2, <4>3
    <3>3. CASE ~(k + limit < N)
      BY <2>2, <2>3, <2>5, <3>1, <3>3
    <3> QED
      BY <3>2, <3>3
  <2> QED
    BY <2>4, <2>5 DEF k
<1> QED
  BY <1>2, <1>11 DEF TheSamePages, C, P, M

LEMMA AttestationsAgree ==
  ASSUME RowsListed(mem.attestations), pg.attestations = ToSet(mem.attestations), table \in Tables,
         Accounts \subseteq Nat
  PROVE  TheSameAttestations
<1> DEFINE rows == mem.attestations
<1>2. ASSUME NEW a \in Accounts, NEW f, NEW limit \in 1 .. 2 PROVE TheSamePages(a, f, limit)
  <2>1. limit \in Nat \ {0} /\ a \in Nat
    OBVIOUS
  <2> QED
    BY <2>1, PagesAgree
<1>3. \A a : \A c \in Contents :
        FetchAttestation(ToSet(rows), a, IdOf[c]) = Mem!FetchAttestation(rows, a, IdOf[c])
  BY FetchedRowsAgree
<1>4. \A a : LET p == ListAllAttestations(ToSet(rows), a)
                 m == Mem!ListAllAttestations(rows, a) IN
        /\ ToSet(p) = ToSet(m)
        /\ Len(p) = Len(m)
        /\ \A i \in DOMAIN p : p[i].at = m[i].at
  BY ListsAgree
<1> QED
  BY <1>2, <1>3, <1>4 DEF TheSameAttestations

----------------------------------------------------------------------------
(* The invariant: the tables are the same but for the order of the         *)
(* attestations and the accounts MemDb holds twice, and each is as the     *)
(* handlers leave it.                                                      *)
TableOK(t, m) ==
  /\ t = "keys" => IsTable(m, {})
  /\ t = "links" => LinksListed(m)
  /\ t = "attestations" => RowsListed(m)
  /\ t = "usage" => UsageOK(m)
  /\ t = "telemetry" => EventsOK(m)

StoresInv ==
  /\ table \in Tables
  /\ AnswersAgree
  /\ DOMAIN mem = Tables /\ DOMAIN pg = Tables
  /\ Twinned(pg.accounts, mem.accounts, twin)
  /\ table = "accounts" => UniqueEmails(pg.accounts)
  /\ pg.attestations = ToSet(mem.attestations)
  /\ \A t \in Tables \ {"accounts", "attestations"} : pg[t] = mem[t]
  /\ \A t \in Tables : TableOK(t, mem[t])

LEMMA InvFacts ==
  ASSUME StoresInv
  PROVE  /\ pg.keys = mem.keys /\ pg.links = mem.links
         /\ pg.usage = mem.usage /\ pg.telemetry = mem.telemetry
         /\ pg.attestations = ToSet(mem.attestations)
         /\ IsTable(mem.keys, {}) /\ LinksListed(mem.links)
         /\ RowsListed(mem.attestations) /\ UsageOK(mem.usage) /\ EventsOK(mem.telemetry)
         /\ Accounts \subseteq Nat
<1>1. /\ pg.keys = mem.keys /\ pg.links = mem.links
      /\ pg.usage = mem.usage /\ pg.telemetry = mem.telemetry
      /\ pg.attestations = ToSet(mem.attestations)
  BY DEF StoresInv, Tables
<1>2. /\ IsTable(mem.keys, {}) /\ LinksListed(mem.links)
      /\ RowsListed(mem.attestations) /\ UsageOK(mem.usage) /\ EventsOK(mem.telemetry)
  BY DEF StoresInv, TableOK, Tables
<1>3. IsTable(pg.accounts, AccountColumns)
  BY DEF StoresInv, Twinned
<1>4. Accounts \subseteq Nat
  BY <1>3, TableFacts DEF Accounts
<1> QED
  BY <1>1, <1>2, <1>4

LEMMA InvAgrees ==
  ASSUME StoresInv
  PROVE  StoresAgree
<1>1. /\ pg.keys = mem.keys /\ pg.links = mem.links
      /\ pg.usage = mem.usage /\ pg.telemetry = mem.telemetry
      /\ pg.attestations = ToSet(mem.attestations)
      /\ IsTable(mem.keys, {})
      /\ RowsListed(mem.attestations) /\ UsageOK(mem.usage) /\ EventsOK(mem.telemetry)
      /\ Accounts \subseteq Nat
  BY InvFacts
<1>2. TheSameAccounts
  BY AccountsAgree DEF StoresInv
<1>3. TheSameUsage /\ TheSameKeys /\ TheSameLinks /\ TheSameTelemetry
  BY <1>1, UsageAgrees, KeysAgree, LinksAgree, TelemetryAgrees
<1>4. table \in Tables
  BY DEF StoresInv
<1>5. TheSameAttestations
  BY <1>1, <1>4, AttestationsAgree
<1> QED
  BY <1>1, <1>2, <1>3, <1>5 DEF StoresAgree, StoresInv

LEMMA InitInv ==
  ASSUME StoresInit
  PROVE  StoresInv
<1> DEFINE owners == IF table = "accounts" THEN <<>>
                     ELSE [i \in DOMAIN Owners |-> NewAccount(Owners[i], "team", None)]
<1>1. /\ table \in Tables /\ said = <<0, 0, FALSE>>
      /\ mem = Empty(owners) /\ pg = [mem EXCEPT !.attestations = {}]
      /\ twin = [i \in DOMAIN mem.accounts |-> i]
  BY DEF StoresInit
<1>2. IsTable(owners, AccountColumns) /\ (table = "accounts" => owners = <<>>)
  <2>1. CASE table = "accounts"
    <3>1. <<>> \in Seq({}) /\ DOMAIN <<>> = {}
      OBVIOUS
    <3>2. IsTable(<<>>, AccountColumns)
      BY <3>1, SeqIsTable
    <3> QED
      BY <2>1, <3>2
  <2>2. CASE table # "accounts"
    <3> DEFINE A == {NewAccount(Owners[i], "team", None) : i \in DOMAIN Owners}
               o == [i \in DOMAIN Owners |-> NewAccount(Owners[i], "team", None)]
    <3>1. DOMAIN Owners = 1 .. Len(Owners) /\ Len(Owners) \in Nat
      BY StoresAssumption
    <3>2. o \in Seq(A)
      BY <3>1
    <3>3. \A i \in DOMAIN o : AccountColumns \subseteq DOMAIN o[i]
      BY DEF NewAccount, AccountColumns
    <3> HIDE DEF o, A
    <3>4. IsTable(o, AccountColumns)
      BY <3>2, <3>3, SeqIsTable
    <3> QED
      BY <2>2, <3>4 DEF o
  <2> QED
    BY <2>1, <2>2
<1> HIDE DEF owners
<1>3. DOMAIN mem = Tables /\ DOMAIN pg = Tables
  BY <1>1 DEF Empty, Tables
<1>4. /\ mem.accounts = owners /\ mem.keys = <<>> /\ mem.links = <<>>
      /\ mem.attestations = <<>> /\ mem.usage = <<>> /\ mem.telemetry = <<>>
  BY <1>1 DEF Empty
<1>5. ToSet(<<>>) = {} /\ DOMAIN <<>> = {} /\ <<>> \in Seq({}) /\ <<>> \in Seq(Rows) /\ <<>> \in Seq(LinkRows)
  BY DEF ToSet
<1>6. /\ pg.attestations = ToSet(mem.attestations)
      /\ \A t \in Tables \ {"attestations"} : pg[t] = mem[t]
  BY <1>1, <1>3, <1>4, <1>5 DEF Tables
<1>7. IsTable(<<>>, {}) /\ RowsListed(<<>>) /\ LinksListed(<<>>)
  BY <1>5, SeqIsTable DEF RowsListed, LinksListed
<1>8. UsageOK(<<>>) /\ EventsOK(<<>>)
  BY <1>5, FS_EmptySet DEF UsageOK, EventsOK
<1>9. \A t \in Tables : TableOK(t, mem[t])
  BY <1>4, <1>7, <1>8 DEF TableOK, Tables
<1>10. AnswersAgree
  BY <1>1 DEF AnswersAgree
<1>11. Twinned(owners, owners, twin)
  <2>1. twin = [i \in DOMAIN owners |-> i]
    BY <1>1, <1>4
  <2>2. DOMAIN owners = 1 .. Len(owners) /\ Len(owners) \in Nat
    BY <1>2, TableFacts
  <2>3. twin \in Seq(Nat)
    BY <2>1, <2>2
  <2>4. DOMAIN twin = DOMAIN owners /\ \A i \in DOMAIN owners : twin[i] = i /\ i \in Nat
    BY <2>1, <2>2
  <2>5. IsTable(twin, {})
    BY <2>3, SeqIsTable
  <2>6. \A k \in DOMAIN owners : twin[k] <= k /\ owners[k].email = owners[k].email
    BY <2>4
  <2> QED
    BY <1>2, <2>4, <2>5, <2>6 DEF Twinned
<1>12. "accounts" \in Tables
  BY DEF Tables
<1>13. Twinned(pg.accounts, mem.accounts, twin)
  BY <1>4, <1>6, <1>11, <1>12
<1>14. table = "accounts" => UniqueEmails(pg.accounts)
  BY <1>2, <1>4, <1>5, <1>6, <1>12 DEF UniqueEmails
<1> QED
  BY <1>1, <1>3, <1>6, <1>9, <1>10, <1>13, <1>14 DEF StoresInv

(* An update of a table other than accounts                                *)
LEMMA UpdateKeeps ==
  ASSUME StoresInv, NEW t \in Tables \ {"accounts"}, NEW p, NEW m, Update(t, p, m), TableOK(t, m),
         p = IF t = "attestations" THEN ToSet(m) ELSE m,
         twin' = twin, AnswersAgree'
  PROVE  StoresInv'
<1>1. table' = table /\ pg' = [pg EXCEPT ![t] = p] /\ mem' = [mem EXCEPT ![t] = m]
  BY DEF Update
<1>2. /\ DOMAIN mem = Tables /\ DOMAIN pg = Tables
      /\ pg.attestations = ToSet(mem.attestations)
      /\ \A s \in Tables \ {"accounts", "attestations"} : pg[s] = mem[s]
      /\ Twinned(pg.accounts, mem.accounts, twin) /\ (table = "accounts" => UniqueEmails(pg.accounts))
  BY DEF StoresInv
<1>3. DOMAIN mem' = Tables /\ DOMAIN pg' = Tables
  BY <1>1, <1>2
<1>4. \A s \in Tables : mem'[s] = (IF s = t THEN m ELSE mem[s]) /\ pg'[s] = (IF s = t THEN p ELSE pg[s])
  BY <1>1, <1>2
<1>5. \A s \in Tables : TableOK(s, mem'[s])
  BY <1>4 DEF StoresInv
<1>6. \A s \in Tables : TableOK(s, mem[s])'
  BY <1>5 DEF TableOK
<1>7. "accounts" \in Tables /\ "attestations" \in Tables
  BY DEF Tables
<1>8. pg'.accounts = pg.accounts /\ mem'.accounts = mem.accounts
  BY <1>4, <1>7
<1>9. Twinned(pg'.accounts, mem'.accounts, twin') /\ (table' = "accounts" => UniqueEmails(pg'.accounts))
  BY <1>1, <1>2, <1>8
<1>10. pg'.attestations = ToSet(mem'.attestations)
  BY <1>2, <1>4, <1>7
<1>11. \A s \in Tables \ {"accounts", "attestations"} : pg'[s] = mem'[s]
  BY <1>2, <1>4
<1>12. table' \in Tables
  BY <1>1 DEF StoresInv
<1> QED
  BY <1>3, <1>6, <1>9, <1>10, <1>11, <1>12 DEF StoresInv

(* An update of accounts                                                   *)
LEMMA AccountUpdateKeeps ==
  ASSUME StoresInv, NEW p, NEW m, Update("accounts", p, m),
         Twinned(p, m, twin'), UniqueEmails(p), AnswersAgree'
  PROVE  StoresInv'
<1>1. /\ table' = table
      /\ pg' = [pg EXCEPT !["accounts"] = p] /\ mem' = [mem EXCEPT !["accounts"] = m]
  BY DEF Update
<1>2. /\ DOMAIN mem = Tables /\ DOMAIN pg = Tables
      /\ pg.attestations = ToSet(mem.attestations)
      /\ \A s \in Tables \ {"accounts", "attestations"} : pg[s] = mem[s]
  BY DEF StoresInv
<1>3. DOMAIN mem' = Tables /\ DOMAIN pg' = Tables
  BY <1>1, <1>2
<1>4. \A s \in Tables \ {"accounts"} : mem'[s] = mem[s] /\ pg'[s] = pg[s]
  BY <1>1, <1>2
<1>5. "accounts" \in Tables /\ "attestations" \in Tables
  BY DEF Tables
<1>6. pg'.accounts = p /\ mem'.accounts = m
  BY <1>1, <1>2, <1>5
<1>7. \A s \in Tables : TableOK(s, mem'[s])
  BY <1>4 DEF StoresInv, TableOK
<1>8. \A s \in Tables : TableOK(s, mem[s])'
  BY <1>7 DEF TableOK
<1>9. pg'.attestations = ToSet(mem'.attestations)
  BY <1>2, <1>4, <1>5
<1>10. \A s \in Tables \ {"accounts", "attestations"} : pg'[s] = mem'[s]
  BY <1>2, <1>4
<1>11. Twinned(pg'.accounts, mem'.accounts, twin') /\ UniqueEmails(pg'.accounts) /\ table' \in Tables
  BY <1>1, <1>6 DEF StoresInv
<1> QED
  BY <1>3, <1>8, <1>9, <1>10, <1>11 DEF StoresInv

(* The calls.                                                              *)
LEMMA SameAnswers ==
  ASSUME NEW p, NEW m, p = m, Say(p, m, FALSE)
  PROVE  AnswersAgree'
BY DEF Say, AnswersAgree

LEMMA AnswersOf ==
  ASSUME NEW p, NEW m, NEW r \in BOOLEAN, Say(p, m, r),
         r => p = FALSE /\ m = TRUE, ~r => p = m
  PROVE  AnswersAgree'
<1>1. said'[1] = p /\ said'[2] = m /\ said'[3] = r
  BY DEF Say
<1>2. CASE r = TRUE
  BY <1>1, <1>2 DEF AnswersAgree
<1>3. CASE r = FALSE
  BY <1>1, <1>3 DEF AnswersAgree
<1> QED
  BY <1>2, <1>3

LEMMA CreateAccountOnBoth ==
  ASSUME StoresInv, DoCreateAccount
  PROVE  StoresInv'
<1>1. PICK e \in Emails, plan \in Plans, pw \in {None, "hash"} :
        LET c == CreateAccount(pg.accounts, e, plan, pw)
            d == Mem!CreateAccount(mem.accounts, e, plan, pw) IN
        /\ Update("accounts", c.accounts, d)
        /\ twin' = IF c.ok THEN Append(twin, Len(d)) ELSE twin
        /\ Say(c.ok, TRUE, Mem!FindAccountByEmail(mem.accounts, e) # 0)
  BY DEF DoCreateAccount
<1> DEFINE p == pg.accounts
           m == mem.accounts
           c == CreateAccount(p, e, plan, pw)
           d == Mem!CreateAccount(m, e, plan, pw)
           k == Mem!FindAccountByEmail(m, e)
           v == IF c.ok THEN Append(twin, Len(d)) ELSE twin
<1>2. Update("accounts", c.accounts, d) /\ twin' = v /\ Say(c.ok, TRUE, k # 0)
  BY <1>1
<1>3. Twinned(p, m, twin) /\ UniqueEmails(p)
  BY <1>2 DEF StoresInv, Update
<1> HIDE DEF p, m
<1>4. /\ Twinned(c.accounts, d, v) /\ UniqueEmails(c.accounts)
      /\ k = 0 => c.ok = TRUE
      /\ k # 0 => c.ok = FALSE
  <2>1. CreatedAlike(p, m, twin, e, plan, pw)
    BY <1>3, CreateAccountAgrees
  <2> QED
    BY <2>1, Zenon DEF CreatedAlike
<1> HIDE DEF c, d, k, v
<1>5. AnswersAgree'
  <2> DEFINE r == k # 0
             ok == c.ok
  <2>1. r \in BOOLEAN /\ Say(ok, TRUE, r)
    BY <1>2
  <2>2. /\ r => ok = FALSE /\ TRUE = TRUE
        /\ ~r => ok = TRUE
    BY <1>4
  <2> HIDE DEF r, ok
  <2> QED
    BY <2>1, <2>2, AnswersOf
<1>6. Twinned(c.accounts, d, twin')
  BY <1>2, <1>4
<1> DEFINE q == c.accounts
<1>7. Update("accounts", q, d) /\ Twinned(q, d, twin') /\ UniqueEmails(q)
  BY <1>2, <1>4, <1>6
<1> HIDE DEF q
<1> QED
  BY <1>5, <1>7, AccountUpdateKeeps

LEMMA UpsertAccountOnBoth ==
  ASSUME StoresInv, DoUpsertAccount
  PROVE  StoresInv'
<1>1. PICK e \in Emails, plan \in Plans :
        LET c == UpsertAccountByEmail(pg.accounts, e, plan)
            d == Mem!UpsertAccountByEmail(mem.accounts, e, plan)
            v == IF c.inserted THEN Append(twin, Len(d.accounts)) ELSE twin IN
        /\ Update("accounts", c.accounts, d.accounts)
        /\ twin' = v
        /\ Say(<<v[c.id], c.inserted>>, <<d.id, d.inserted>>, FALSE)
  BY DEF DoUpsertAccount
<1> DEFINE p == pg.accounts
           m == mem.accounts
           c == UpsertAccountByEmail(p, e, plan)
           d == Mem!UpsertAccountByEmail(m, e, plan)
           v == IF c.inserted THEN Append(twin, Len(d.accounts)) ELSE twin
<1>2. /\ Update("accounts", c.accounts, d.accounts) /\ twin' = v
      /\ Say(<<v[c.id], c.inserted>>, <<d.id, d.inserted>>, FALSE)
  BY <1>1
<1>3. Twinned(p, m, twin) /\ UniqueEmails(p)
  BY <1>2 DEF StoresInv, Update
<1> HIDE DEF p, m
<1>4. /\ Twinned(c.accounts, d.accounts, v) /\ UniqueEmails(c.accounts)
      /\ v[c.id] = d.id /\ c.inserted = d.inserted
  <2>1. UpsertedAlike(p, m, twin, e, plan)
    BY <1>3, UpsertAccountAgrees
  <2> QED
    BY <2>1, Zenon DEF UpsertedAlike
<1> HIDE DEF c, d, v
<1>5. AnswersAgree'
  BY <1>2, <1>4, SameAnswers
<1> DEFINE q == c.accounts
           u == d.accounts
<1>6. Update("accounts", q, u) /\ Twinned(q, u, twin') /\ UniqueEmails(q)
  BY <1>2, <1>4
<1> HIDE DEF q, u
<1> QED
  BY <1>5, <1>6, AccountUpdateKeeps

LEMMA SetAccountOnBoth ==
  ASSUME StoresInv, DoSetAccount
  PROVE  StoresInv'
<1> DEFINE p == pg.accounts
           m == mem.accounts
<1>1. Say(0, 0, FALSE) /\ twin' = twin
  BY DEF DoSetAccount
<1>2. AnswersAgree'
  BY <1>1, SameAnswers
<1>3. PICK a \in DOMAIN m \cup {0} :
        \/ \E c \in Customers, s \in Subscriptions \cup {None} :
             Update("accounts", SetAccountStripeIds(p, PgId(a), c, s), Mem!SetAccountStripeIds(m, a, c, s))
        \/ \E plan \in Plans :
             Update("accounts", SetAccountPlan(p, PgId(a), plan), Mem!SetAccountPlan(m, a, plan))
        \/ \E d \in BilledDays :
             Update("accounts", SetBilledThrough(p, PgId(a), d), Mem!SetBilledThrough(m, a, d))
  BY DEF DoSetAccount
<1>4. table = "accounts"
  BY <1>3 DEF Update
<1>5. Twinned(p, m, twin) /\ UniqueEmails(p)
  BY <1>4 DEF StoresInv
<1> DEFINE b == PgId(a)
<1>6. \A i \in DOMAIN p : i = b <=> twin[i] = a
  BY <1>5, PgIdFacts
<1> HIDE DEF p, m, b
<1>7. ASSUME NEW u, NEW v, Update("accounts", u, v), Twinned(u, v, twin) /\ (UniqueEmails(p) => UniqueEmails(u))
      PROVE  StoresInv'
  <2>1. Twinned(u, v, twin') /\ UniqueEmails(u)
    BY <1>1, <1>5, <1>7
  <2> QED
    BY <1>2, <1>7, <2>1, AccountUpdateKeeps
<1>8. ASSUME NEW c, NEW s,
             Update("accounts", SetAccountStripeIds(p, b, c, s), Mem!SetAccountStripeIds(m, a, c, s))
      PROVE  StoresInv'
  <2> DEFINE u == SetAccountStripeIds(p, b, c, s)
             v == Mem!SetAccountStripeIds(m, a, c, s)
  <2>1. Twinned(u, v, twin) /\ (UniqueEmails(p) => UniqueEmails(u))
    BY <1>5, <1>6, SetStripeIdsAgrees
  <2>2. Update("accounts", u, v)
    BY <1>8
  <2> HIDE DEF u, v
  <2> QED
    BY <1>7, <2>1, <2>2
<1>9. ASSUME NEW plan, Update("accounts", SetAccountPlan(p, b, plan), Mem!SetAccountPlan(m, a, plan))
      PROVE  StoresInv'
  <2> DEFINE u == SetAccountPlan(p, b, plan)
             v == Mem!SetAccountPlan(m, a, plan)
  <2>1. Twinned(u, v, twin) /\ (UniqueEmails(p) => UniqueEmails(u))
    BY <1>5, <1>6, SetPlanAgrees
  <2>2. Update("accounts", u, v)
    BY <1>9
  <2> HIDE DEF u, v
  <2> QED
    BY <1>7, <2>1, <2>2
<1>10. ASSUME NEW d, Update("accounts", SetBilledThrough(p, b, d), Mem!SetBilledThrough(m, a, d))
       PROVE  StoresInv'
  <2> DEFINE u == SetBilledThrough(p, b, d)
             v == Mem!SetBilledThrough(m, a, d)
  <2>1. Twinned(u, v, twin) /\ (UniqueEmails(p) => UniqueEmails(u))
    BY <1>5, <1>6, SetBilledAgrees
  <2>2. Update("accounts", u, v)
    BY <1>10
  <2> HIDE DEF u, v
  <2> QED
    BY <1>7, <2>1, <2>2
<1> QED
  BY <1>3, <1>8, <1>9, <1>10 DEF b

LEMMA CreateApiKeyOnBoth ==
  ASSUME StoresInv, DoCreateApiKey
  PROVE  StoresInv'
<1>1. pg.keys = mem.keys /\ IsTable(mem.keys, {})
  BY InvFacts
<1>2. Say(0, 0, FALSE) /\ twin' = twin
  BY DEF DoCreateApiKey
<1>3. PICK a \in Accounts, h \in Hashes :
        Update("keys", CreateApiKey(mem.keys, a, h), Mem!CreateApiKey(mem.keys, a, h))
  BY <1>1 DEF DoCreateApiKey
<1> DEFINE p == CreateApiKey(mem.keys, a, h)
           m == Mem!CreateApiKey(mem.keys, a, h)
<1>4. p = m /\ IsTable(m, {})
  BY <1>1, NewKeysAgree
<1>5. Update("keys", p, m)
  BY <1>3
<1> HIDE DEF p, m
<1>6. TableOK("keys", m) /\ "keys" \in Tables \ {"accounts"}
  BY <1>4 DEF TableOK, Tables
<1>7. AnswersAgree'
  BY <1>2, SameAnswers
<1> QED
  BY <1>2, <1>4, <1>5, <1>6, <1>7, UpdateKeeps

LEMMA RevokeApiKeyOnBoth ==
  ASSUME StoresInv, DoRevokeApiKey
  PROVE  StoresInv'
<1>1. pg.keys = mem.keys /\ IsTable(mem.keys, {})
  BY InvFacts
<1>2. PICK a \in Accounts, k \in 1 .. MaxRows["keys"] :
        LET p == RevokeApiKey(mem.keys, a, k)
            m == Mem!RevokeApiKey(mem.keys, a, k) IN
        Update("keys", p.keys, m.keys) /\ Say(p.updated, m.updated, FALSE) /\ twin' = twin
  BY <1>1 DEF DoRevokeApiKey
<1> DEFINE p == RevokeApiKey(mem.keys, a, k)
           m == Mem!RevokeApiKey(mem.keys, a, k)
<1>3. p = m /\ IsTable(p.keys, {})
  BY <1>1, RevokedKeysAgree
<1>4. Update("keys", p.keys, m.keys) /\ Say(p.updated, m.updated, FALSE) /\ twin' = twin
  BY <1>2
<1> HIDE DEF p, m
<1>5. TableOK("keys", m.keys) /\ "keys" \in Tables \ {"accounts"}
  BY <1>3 DEF TableOK, Tables
<1>6. AnswersAgree'
  BY <1>3, <1>4, SameAnswers
<1> QED
  BY <1>3, <1>4, <1>5, <1>6, UpdateKeeps

LEMMA InsertAttestationOnBoth ==
  ASSUME StoresInv, DoInsertAttestation
  PROVE  StoresInv'
<1>1. /\ pg.attestations = ToSet(mem.attestations) /\ RowsListed(mem.attestations)
      /\ Accounts \subseteq Nat
  BY InvFacts
<1>2. PICK c \in Contents, a \in Accounts, t \in Times :
        LET p == InsertStatement(ToSet(mem.attestations), NewRow(c, a, t))
            m == Mem!InsertAttestation(mem.attestations, NewRow(c, a, t)) IN
        Update("attestations", p.rows, m.rows) /\ Say(p.inserted, m.inserted, FALSE) /\ twin' = twin
  BY <1>1 DEF DoInsertAttestation
<1> DEFINE p == InsertStatement(ToSet(mem.attestations), NewRow(c, a, t))
           m == Mem!InsertAttestation(mem.attestations, NewRow(c, a, t))
<1>3. NewRow(c, a, t) \in Rows
  <2>1. a \in Nat /\ t \in Nat
    BY <1>1, StoresAssumption
  <2> QED
    BY <2>1 DEF NewRow, Rows
<1>4. p.rows = ToSet(m.rows) /\ p.inserted = m.inserted /\ RowsListed(m.rows)
  BY <1>1, <1>3, InsertedRowsAgree
<1>5. Update("attestations", p.rows, m.rows) /\ Say(p.inserted, m.inserted, FALSE) /\ twin' = twin
  BY <1>2
<1> HIDE DEF p, m
<1>6. TableOK("attestations", m.rows) /\ "attestations" \in Tables \ {"accounts"}
  BY <1>4 DEF TableOK, Tables
<1>7. AnswersAgree'
  BY <1>4, <1>5, SameAnswers
<1> QED
  BY <1>2, <1>4, <1>5, <1>6, <1>7, UpdateKeeps

LEMMA DeleteAttestationsOnBoth ==
  ASSUME StoresInv, DoDeleteAttestations
  PROVE  StoresInv'
<1> DEFINE rows == mem.attestations
<1>1. pg.attestations = ToSet(rows) /\ RowsListed(rows)
  BY InvFacts
<1>2. /\ Say(Cardinality(pg.attestations \ pg'.attestations), Len(rows) - Len(mem'.attestations), FALSE)
      /\ twin' = twin
  BY DEF DoDeleteAttestations
<1>3. PICK a \in Accounts, t \in Times :
        Update("attestations", DeleteAttestationsOlderThan(ToSet(rows), a, t),
                               Mem!DeleteAttestationsOlderThan(rows, a, t))
  BY <1>1 DEF DoDeleteAttestations
<1> DEFINE p == DeleteAttestationsOlderThan(ToSet(rows), a, t)
           m == Mem!DeleteAttestationsOlderThan(rows, a, t)
<1>4. p = ToSet(m) /\ RowsListed(m) /\ Cardinality(ToSet(rows) \ p) = Len(rows) - Len(m)
  BY <1>1, DeletedRowsAgree
<1>5. Update("attestations", p, m)
  BY <1>3
<1> HIDE DEF p, m
<1>6. TableOK("attestations", m) /\ "attestations" \in Tables \ {"accounts"}
  BY <1>4 DEF TableOK, Tables
<1>7. pg'.attestations = p /\ mem'.attestations = m
  BY <1>5, <1>6 DEF Update, StoresInv
<1> HIDE DEF rows
<1>8. AnswersAgree'
  BY <1>1, <1>2, <1>4, <1>7, SameAnswers
<1> QED
  BY <1>2, <1>4, <1>5, <1>6, <1>8, UpdateKeeps

LEMMA RecordUsageOnBoth ==
  ASSUME StoresInv, DoRecordUsage
  PROVE  StoresInv'
<1>1. pg.usage = mem.usage /\ UsageOK(mem.usage) /\ Accounts \subseteq Nat
  BY InvFacts
<1>2. Say(0, 0, FALSE) /\ twin' = twin
  BY DEF DoRecordUsage
<1>3. PICK a \in Accounts, t \in Times :
        Update("usage", RecordUsage(mem.usage, a, t), Mem!RecordUsage(mem.usage, a, t))
  BY <1>1 DEF DoRecordUsage
<1> DEFINE p == RecordUsage(mem.usage, a, t)
           m == Mem!RecordUsage(mem.usage, a, t)
<1>4. p = m /\ UsageOK(p)
  BY <1>1, RecordedUsageAgrees
<1>5. Update("usage", p, m)
  BY <1>3
<1> HIDE DEF p, m
<1>6. TableOK("usage", m) /\ "usage" \in Tables \ {"accounts"}
  BY <1>4 DEF TableOK, Tables
<1>7. AnswersAgree'
  BY <1>2, SameAnswers
<1> QED
  BY <1>2, <1>4, <1>5, <1>6, <1>7, UpdateKeeps

LEMMA CreateShareLinkOnBoth ==
  ASSUME StoresInv, DoCreateShareLink
  PROVE  StoresInv'
<1>1. pg.links = mem.links /\ LinksListed(mem.links) /\ Accounts \subseteq Nat
  BY InvFacts
<1>2. Say(0, 0, FALSE) /\ twin' = twin
  BY DEF DoCreateShareLink
<1>3. PICK a \in Accounts, ids \in SUBSET {IdOf[c] : c \in Contents}, t \in Times :
        LET link == NewLink(a, ids, t) IN
        Update("links", CreateShareLink(mem.links, link), Mem!CreateShareLink(mem.links, link))
  BY <1>1 DEF DoCreateShareLink
<1> DEFINE link == NewLink(a, ids, t)
           p == CreateShareLink(mem.links, link)
           m == Mem!CreateShareLink(mem.links, link)
<1>4. link \in LinkRows
  <2>1. a \in Nat /\ t \in Nat /\ ids \subseteq Nat
    BY <1>1, StoresAssumption, CloudTypesAssumption
  <2> QED
    BY <2>1 DEF NewLink, LinkRows
<1>5. Update("links", p, m)
  BY <1>3
<1> HIDE DEF link
<1>6. p = m /\ LinksListed(p)
  BY <1>1, <1>4, NewLinksAgree
<1> HIDE DEF p, m
<1>7. TableOK("links", m) /\ "links" \in Tables \ {"accounts"}
  BY <1>6 DEF TableOK, Tables
<1>8. AnswersAgree'
  BY <1>2, SameAnswers
<1> QED
  BY <1>2, <1>5, <1>6, <1>7, <1>8, UpdateKeeps

LEMMA RevokeShareLinkOnBoth ==
  ASSUME StoresInv, DoRevokeShareLink
  PROVE  StoresInv'
<1>1. pg.links = mem.links /\ LinksListed(mem.links)
  BY InvFacts
<1>2. PICK a \in Accounts, l \in 1 .. MaxRows["links"] :
        LET p == RevokeShareLink(mem.links, a, l)
            m == Mem!RevokeShareLink(mem.links, a, l) IN
        /\ Update("links", p.links, m.links)
        /\ Say(p.updated, m.updated,
               l \in DOMAIN mem.links /\ mem.links[l].account = a /\ mem.links[l].revoked)
        /\ twin' = twin
  BY <1>1 DEF DoRevokeShareLink
<1> DEFINE p == RevokeShareLink(mem.links, a, l)
           m == Mem!RevokeShareLink(mem.links, a, l)
           again == l \in DOMAIN mem.links /\ mem.links[l].account = a /\ mem.links[l].revoked
           x == p.links
           y == m.links
           u == p.updated
           v == m.updated
<1>3. x = y /\ LinksListed(y) /\ (again => u = FALSE /\ v = TRUE) /\ (~again => u = v)
  <2>1. RevokedAlike(mem.links, a, l)
    BY <1>1, RevokedLinksAgree
  <2> QED
    BY <2>1, Zenon DEF RevokedAlike
<1>4. Update("links", x, y) /\ Say(u, v, again) /\ twin' = twin
  BY <1>2
<1>5. again \in BOOLEAN
  OBVIOUS
<1> HIDE DEF p, m, x, y, u, v, again
<1>6. TableOK("links", y) /\ "links" \in Tables \ {"accounts"}
  BY <1>3 DEF TableOK, Tables
<1>7. AnswersAgree'
  BY <1>3, <1>4, <1>5, AnswersOf
<1> QED
  BY <1>3, <1>4, <1>6, <1>7, UpdateKeeps

LEMMA UpsertTelemetryOnBoth ==
  ASSUME StoresInv, DoUpsertTelemetry
  PROVE  StoresInv'
<1>1. pg.telemetry = mem.telemetry /\ EventsOK(mem.telemetry)
  BY InvFacts
<1>2. Say(0, 0, FALSE) /\ twin' = twin
  BY DEF DoUpsertTelemetry
<1>3. PICK i \in Installs, d \in Dates, n \in Counts, s \in Sinks :
        LET e == [install |-> i, day |-> d, count |-> n, sink |-> s] IN
        Update("telemetry", UpsertTelemetryEvent(mem.telemetry, e),
                            Mem!UpsertTelemetryEvent(mem.telemetry, e))
  BY <1>1 DEF DoUpsertTelemetry
<1> DEFINE e == [install |-> i, day |-> d, count |-> n, sink |-> s]
           p == UpsertTelemetryEvent(mem.telemetry, e)
           m == Mem!UpsertTelemetryEvent(mem.telemetry, e)
<1>4. e \in [install : Int, day : Int, count : Int, sink : Sinks]
  <2>1. i \in Int /\ d \in Int /\ n \in Int
    BY StoresAssumption, DatesAreDays
  <2> QED
    BY <2>1
<1>5. Update("telemetry", p, m)
  BY <1>3
<1> HIDE DEF e
<1>6. p = m /\ EventsOK(p)
  BY <1>1, <1>4, UpsertedTelemetryAgrees
<1> HIDE DEF p, m
<1>7. TableOK("telemetry", m) /\ "telemetry" \in Tables \ {"accounts"}
  BY <1>6 DEF TableOK, Tables
<1>8. AnswersAgree'
  BY <1>2, SameAnswers
<1> QED
  BY <1>2, <1>5, <1>6, <1>7, <1>8, UpdateKeeps

----------------------------------------------------------------------------
(* memory.rs, "must agree on observable behaviour": whatever calls are     *)
(* made of the two stores, they hold the same tables, answered the last    *)
(* call alike and answer every lookup and every page of a search alike,    *)
(* but where StoresAgree says they do not: a revocation or a creation that *)
(* is repeated, and a search continued over rows that have changed.        *)
THEOREM StoresAlwaysAgree == StoresSpec => []StoresAgree
<1>1. StoresInit => StoresInv
  BY InitInv
<1>2. StoresInv /\ [StoresNext]_storesVars => StoresInv'
  <2> SUFFICES ASSUME StoresInv, [StoresNext]_storesVars PROVE StoresInv'
    OBVIOUS
  <2>1. CASE StoresNext
    <3>1. CASE DoCreateAccount \/ DoUpsertAccount \/ DoSetAccount
      BY <3>1, CreateAccountOnBoth, UpsertAccountOnBoth, SetAccountOnBoth
    <3>2. CASE DoCreateApiKey \/ DoRevokeApiKey
      BY <3>2, CreateApiKeyOnBoth, RevokeApiKeyOnBoth
    <3>3. CASE DoInsertAttestation \/ DoDeleteAttestations
      BY <3>3, InsertAttestationOnBoth, DeleteAttestationsOnBoth
    <3>4. CASE DoRecordUsage \/ DoUpsertTelemetry
      BY <3>4, RecordUsageOnBoth, UpsertTelemetryOnBoth
    <3>5. CASE DoCreateShareLink \/ DoRevokeShareLink
      BY <3>5, CreateShareLinkOnBoth, RevokeShareLinkOnBoth
    <3> QED
      BY <2>1, <3>1, <3>2, <3>3, <3>4, <3>5 DEF StoresNext
  <2>2. CASE UNCHANGED storesVars
    BY <2>2 DEF storesVars, StoresInv, TableOK, AnswersAgree, LinksListed
  <2> QED
    BY <2>1, <2>2
<1>3. StoresInv => StoresAgree
  BY InvAgrees
<1> QED
  BY <1>1, <1>2, <1>3, PTL DEF StoresSpec
=============================================================================
