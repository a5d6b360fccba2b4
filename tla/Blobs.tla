------------------------------- MODULE Blobs --------------------------------
(***************************************************************************)
(* FsBlobStore (blob/filesystem.rs): one file for each content, at a path  *)
(* named by its hash.  put writes a temporary file and renames it, but the *)
(* temporary name is the path with another extension: puts of one content  *)
(* share it.  File::create truncates the file that is there, and whoever   *)
(* has it open goes on writing to it, wherever it has been renamed to.     *)
(*                                                                         *)
(* A file is named by the request that created it, and either holds the    *)
(* whole content or does not.                                              *)
(***************************************************************************)
EXTENDS CloudTables

CONSTANTS
  Requests,      \* the puts of this run, each of which may create a file
  Past,          \* the files that earlier runs wrote
  Rotted         \* and those of them that rotted since

VARIABLES
  path,       \* the file at the path of each content
  tmp,        \* the file at its temporary path
  full,       \* the files that hold the whole content
  open,       \* the file each request writes to
  suspect     \* contents of which two puts overlapped, or that rotted on disk

blobVars == <<path, tmp, full, open, suspect>>

Files == Requests \cup {Past, Rotted}

ASSUME BlobsAssumption ==
  /\ None \notin Files
  /\ Past \notin Requests /\ Rotted \notin Requests /\ Past # Rotted

BlobsTypeOK ==
  /\ path \in [Contents -> Files \cup {None}]
  /\ tmp \in [Contents -> Requests \cup {None}]
  /\ full \subseteq Files
  /\ open \in [Requests -> Requests \cup {None}]
  /\ suspect \subseteq Contents

(* The blobs of the rows that the database holds when the service starts   *)
(* are whole, but for those that rotted on disk.                           *)
BlobsInit(rotten) ==
  /\ suspect = rotten
  /\ path = [c \in Contents |-> IF c \in rotten THEN Rotted
                               ELSE IF \E x \in rows : x.content = c THEN Past ELSE None]
  /\ tmp = [c \in Contents |-> None]
  /\ full = {Past}
  /\ open = [r \in Requests |-> None]

Stored(c) == path[c] # None
Whole(c) == Stored(c) /\ path[c] \in full

InPlace(r, c, writing) ==                                     \* mutant
  /\ path' = [path EXCEPT ![c] = r]
  /\ open' = [open EXCEPT ![r] = r]
  /\ full' = full \ {r}
  /\ UNCHANGED <<tmp, suspect>>

(* fs::File::create(tmp); writing says that another put of c is under way. *)
CreateTmp(r, c, writing) ==
  LET f == IF tmp[c] = None THEN r ELSE tmp[c] IN
  /\ tmp' = [tmp EXCEPT ![c] = f]
  /\ open' = [open EXCEPT ![r] = f]
  /\ full' = full \ {f}
  /\ suspect' = IF writing THEN suspect \cup {c} ELSE suspect
  /\ UNCHANGED path

WriteAll(r) ==
  /\ full' = full \cup {open[r]}
  /\ UNCHANGED <<path, tmp, open, suspect>>

(* fs::rename, of the file that is at the temporary path now               *)
CanRename(c) == tmp[c] # None

Close(r) == open' = [open EXCEPT ![r] = None]

RenameTmp(r, c) ==
  /\ path' = [path EXCEPT ![c] = tmp[c]]
  /\ tmp' = [tmp EXCEPT ![c] = None]
  /\ Close(r)
  /\ UNCHANGED <<full, suspect>>

(* A put that fails, or whose request is dropped, leaves its file behind.  *)
Abandon(r) == Close(r) /\ UNCHANGED <<path, tmp, full, suspect>>

(* The bytes hash to the key, so they are the content.                     *)
BlobVerifies(c) == Whole(c)
=============================================================================
