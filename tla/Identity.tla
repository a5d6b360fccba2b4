------------------------------- MODULE Identity -----------------------------
(***************************************************************************)
(* load_or_create of an agent's identity from a FileIdentityStore          *)
(* (attestly-core/src/identity.rs), by processes that share the directory. *)
(* A missing file is created: a key is generated, written to a temporary   *)
(* file with a name of its own, and renamed; a file that is there but does *)
(* not parse is an error.  A call may fail, or its process die, anywhere.  *)
(*                                                                         *)
(* A call names the key it generates.                                      *)
(***************************************************************************)
CONSTANTS
  Calls,       \* calls of load_or_create for one agent
  Earlier,     \* the key of an identity that was saved before
  NoKey        \* what the key of a missing file is

ASSUME IdentityAssumption == NoKey \notin Calls /\ Earlier \notin Calls /\ NoKey # Earlier

VARIABLES
  keyFile,     \* the identity's file
  tmp,         \* the temporary file of each call
  step,        \* where each call is
  key,         \* the key it has
  rivals       \* calls that were creating one too when it got its key

identityVars == <<keyFile, tmp, step, key, rivals>>

Absent == [key |-> NoKey, state |-> "absent"]
Saved(k) == [key |-> k, state |-> "whole"]
Damaged == [key |-> NoKey, state |-> "damaged"]   \* edited by hand, or not hex

IdentityTypeOK ==
  /\ keyFile \in {Absent, Damaged} \cup {Saved(k) : k \in Calls \cup {Earlier}}
  /\ tmp \in [Calls -> {"absent", "damaged", "whole"}]
  /\ step \in [Calls -> {"idle", "write", "rename", "chmod", "ok", "err"}]
  /\ key \in [Calls -> Calls \cup {Earlier, NoKey}]
  /\ rivals \in [Calls -> SUBSET Calls]

IdentityInit ==
  /\ keyFile \in {Absent, Damaged, Saved(Earlier)}
  /\ tmp = [c \in Calls |-> "absent"]
  /\ step = [c \in Calls |-> "idle"]
  /\ key = [c \in Calls |-> NoKey]
  /\ rivals = [c \in Calls |-> {}]

Creating == {c \in Calls : step[c] \in {"write", "rename"}}

(* c has the key that is, from this step on, in the file.                  *)
Gets(c, k) ==
  /\ key' = [key EXCEPT ![c] = k]
  /\ rivals' = [rivals EXCEPT ![c] = Creating \ {c}]

GoOn(c, s) == step' = [step EXCEPT ![c] = s]

----------------------------------------------------------------------------
ReplacesDamaged == keyFile.state # "whole"   \* mutant
Missing == keyFile.state = "absent"

Load(c) ==
  /\ step[c] = "idle"
  /\ \/ Missing /\ GoOn(c, "write") /\ UNCHANGED <<key, rivals>>
     \/ ~Missing /\ keyFile.state = "damaged" /\ GoOn(c, "err") /\ UNCHANGED <<key, rivals>>
     \/ ~Missing /\ keyFile.state = "whole" /\ GoOn(c, "ok") /\ Gets(c, keyFile.key)
  /\ UNCHANGED <<keyFile, tmp>>

(* save: fs::write of the temporary file, which may stop half way          *)
WriteTmp(c) ==
  /\ step[c] = "write"
  /\ \/ tmp' = [tmp EXCEPT ![c] = "whole"] /\ GoOn(c, "rename")
     \/ tmp' = [tmp EXCEPT ![c] = "damaged"] /\ GoOn(c, "err")
  /\ UNCHANGED <<keyFile, key, rivals>>

RenameTmp(c) ==
  /\ step[c] = "rename"
  /\ keyFile' = [key |-> c, state |-> tmp[c]]
  /\ tmp' = [tmp EXCEPT ![c] = "absent"]
  /\ GoOn(c, "chmod")
  /\ Gets(c, c)

RenameFails(c) ==
  /\ step[c] = "rename"
  /\ tmp' = [tmp EXCEPT ![c] = "absent"]
  /\ GoOn(c, "err")
  /\ UNCHANGED <<keyFile, key, rivals>>

(* set_owner_only; when it fails the file stays, and the call is an error. *)
SetOwnerOnly(c) ==
  /\ step[c] = "chmod"
  /\ GoOn(c, "ok") \/ GoOn(c, "err")
  /\ UNCHANGED <<keyFile, tmp, key, rivals>>

(* The process dies.                                                       *)
Die(c) ==
  /\ step[c] \in {"write", "rename", "chmod"}
  /\ GoOn(c, "err")
  /\ UNCHANGED <<keyFile, tmp, key, rivals>>

IdentityNext ==
  \E c \in Calls :
    Load(c) \/ WriteTmp(c) \/ RenameTmp(c) \/ RenameFails(c) \/ SetOwnerOnly(c) \/ Die(c)

IdentitySpec == IdentityInit /\ [][IdentityNext]_identityVars

----------------------------------------------------------------------------
(* The key that a call returns is the one in the file, where every later   *)
(* call finds it, or one put in its place by a call that was creating its  *)
(* own at that very time: an identity, once there, is never replaced by a  *)
(* call that comes later.  A file that does not parse is left to be looked *)
(* at, and a call never leaves one: it is there before any call has gone   *)
(* further than to look.                                                   *)
IdentityConverges ==
  /\ \A c \in Calls : step[c] = "ok" => keyFile.key \in {key[c]} \cup rivals[c]
  /\ keyFile.state = "damaged" => \A c \in Calls : step[c] \in {"idle", "err"}
=============================================================================
