------------------------------- MODULE Accounts -----------------------------
(***************************************************************************)
(* Accounts and their API keys: signup (handlers/quickstart.rs), the       *)
(* extractor that authenticates a request by its x-api-key (auth.rs), and  *)
(* the requests that read an account, make a key and revoke one            *)
(* (handlers/account.rs).  Each statement is a step.                       *)
(*                                                                         *)
(* The password and the key that a request generates are named by it.      *)
(***************************************************************************)
EXTENDS CloudTables

CONSTANTS
  Signups,     \* requests to sign up
  EmailOf,     \* the email of each, trimmed and in lower case
  Callers      \* requests that carry an API key

VARIABLES
  signup,      \* each request to sign up
  caller       \* each request with a key

accountVars == <<signup, caller>>

AccountsTypeOK ==
  /\ \A s \in Signups :
       /\ signup[s].status \in {"idle", "find", "create", "key", "201", "400", "500"}
       /\ signup[s].account \in 0 .. Len(accounts)
  /\ \A v \in Callers :
       /\ caller[v].status \in {"idle", "list", "refetch", "authed", "done", "401", "404", "500"}
       /\ caller[v].status # "idle" => caller[v].key \in DOMAIN keys
       /\ caller[v].account \in 0 .. Len(accounts)

AccountsInit ==
  /\ signup = [s \in Signups |-> [status |-> "idle", account |-> 0]]
  /\ caller = [v \in Callers |-> [status |-> "idle", key |-> 0, account |-> 0]]

----------------------------------------------------------------------------
(* signup                                                                  *)
Step(s, status) == signup' = [signup EXCEPT ![s].status = status]

Begin(s) ==
  /\ signup[s].status = "idle"
  /\ Step(s, "find")
  /\ UNCHANGED <<caller, tables>>

FindEmail(s) ==
  /\ signup[s].status = "find"
  /\ \E i \in FindAccountByEmail(accounts, EmailOf[s]) :
       Step(s, IF i = 0 THEN "create" ELSE "400")
  /\ UNCHANGED <<caller, tables>>

UpsertsInstead(s) ==                                          \* mutant
  [ok |-> TRUE, accounts |-> UpsertAccountByEmail(accounts, EmailOf[s], "team").accounts]
Created(s) == CreateAccount(accounts, EmailOf[s], "team", s)

MakeAccount(s) ==
  /\ signup[s].status = "create"
  /\ accounts' = Created(s).accounts
  /\ signup' = [signup EXCEPT ![s] =
       IF Created(s).ok THEN [status |-> "key", account |-> Len(accounts')]
       ELSE [@ EXCEPT !.status = "500"]]
  /\ UNCHANGED <<caller, keys, rows, usage, links>>

MakeFirstKey(s) ==
  /\ signup[s].status = "key"
  /\ keys' = CreateApiKey(keys, signup[s].account, s)
  /\ Step(s, "201") \/ Step(s, "500")   \* made, but the answer is lost
  /\ UNCHANGED <<caller, accounts, rows, usage, links>>

(* A statement fails, the connection is lost or the process dies.          *)
SignupFails(s) ==
  /\ signup[s].status \in {"find", "create", "key"}
  /\ Step(s, "500")
  /\ UNCHANGED <<caller, tables>>

----------------------------------------------------------------------------
(* authenticate: the active hashes are listed once, each is tried, and the *)
(* account of the one that matches is looked up.                           *)
Move(v, status) == caller' = [caller EXCEPT ![v].status = status]
HashOf(v) == keys[caller[v].key].hash

Present(v) ==
  /\ caller[v].status = "idle"
  /\ \E i \in DOMAIN keys : caller' = [caller EXCEPT ![v].status = "list", ![v].key = i]
  /\ UNCHANGED <<signup, tables>>

ListHashes(v) ==
  /\ caller[v].status = "list"
  /\ Move(v, IF HashOf(v) \in ListActiveHashedKeys(keys) THEN "refetch" ELSE "401")
  /\ UNCHANGED <<signup, tables>>

AsListed(v) == {keys[caller[v].key].account}                  \* mutant
Refetched(v) == FindAccountByHashedKey(keys, HashOf(v))

Refetch(v) ==
  /\ caller[v].status = "refetch"
  /\ \E a \in Refetched(v) :
       caller' = [caller EXCEPT ![v].status = IF a = 0 THEN "401" ELSE "authed",
                                ![v].account = a]
  /\ UNCHANGED <<signup, tables>>

----------------------------------------------------------------------------
(* The requests of an authenticated caller                                 *)
Authed(v) == caller[v].status = "authed"

MakeKey(v) ==
  /\ Authed(v)
  /\ keys' = CreateApiKey(keys, caller[v].account, v)
  /\ Move(v, "done")
  /\ UNCHANGED <<signup, accounts, rows, usage, links>>

RevokeKey(v) ==
  /\ Authed(v)
  /\ \E i \in DOMAIN keys :
       LET answer == RevokeApiKey(keys, caller[v].account, i) IN
       /\ keys' = answer.keys
       /\ Move(v, IF answer.updated THEN "done" ELSE "404")
  /\ UNCHANGED <<signup, accounts, rows, usage, links>>

(* get, usage and list_keys answer from the tables and change nothing.     *)
ReadAccount(v) ==
  /\ Authed(v)
  /\ Move(v, "done")
  /\ UNCHANGED <<signup, tables>>

CallFails(v) ==
  /\ caller[v].status \in {"list", "refetch", "authed"}
  /\ Move(v, "500")
  /\ UNCHANGED <<signup, tables>>

AccountsNext ==
  \/ \E s \in Signups \cap actors :
       Begin(s) \/ FindEmail(s) \/ MakeAccount(s) \/ MakeFirstKey(s) \/ SignupFails(s)
  \/ \E v \in Callers \cap actors :
       \/ Present(v) \/ ListHashes(v) \/ Refetch(v)
       \/ MakeKey(v) \/ RevokeKey(v) \/ ReadAccount(v) \/ CallFails(v)
=============================================================================
