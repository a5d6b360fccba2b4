----------------------------- MODULE CloudTables ----------------------------
(***************************************************************************)
(* The state that the handlers of attestly-cloud share: the tables of the  *)
(* database and the clock.  A handler is a sequence of statements, each of *)
(* them a step; between two of them any other handler may run, the request *)
(* may be dropped with its client's connection, and the process may die.   *)
(***************************************************************************)
EXTENDS PgDb

CONSTANTS
  Scenes,      \* what the database holds when the service starts, and who acts
  MaxTime      \* bound: the last tick of the clock

VARIABLES
  actors,      \* bound: who acts in this behaviour
  now,         \* the clock
  accounts, keys, rows, usage, links   \* the tables; rows is attestations

ASSUME ScenesAssumption ==
  \A scene \in Scenes :
    /\ scene.now \in Nat
    /\ AccountsOK(scene.accounts)
    /\ KeysOK(scene.keys, DOMAIN scene.accounts)
    /\ LinksOK(scene.links)
    /\ RowsOK(scene.rows) /\ \A x \in scene.rows : x.account \in DOMAIN scene.accounts
    /\ scene.rotten \subseteq Contents
    /\ UsageOK(scene.usage) /\ \A k \in DOMAIN scene.usage : k[1] \in DOMAIN scene.accounts

tables == <<accounts, keys, rows, usage, links>>

TablesTypeOK ==
  /\ now \in Nat
  /\ AccountsOK(accounts)
  /\ KeysOK(keys, DOMAIN accounts)
  /\ LinksOK(links)
  /\ RowsOK(rows)
  /\ UsageOK(usage)

TablesInit(scene) ==
  /\ actors = scene.actors
  /\ now = scene.now
  /\ accounts = scene.accounts
  /\ keys = scene.keys
  /\ rows = scene.rows
  /\ usage = scene.usage
  /\ links = scene.links

Tick == "clock" \in actors /\ now < MaxTime /\ now' = now + 1
=============================================================================
