---------------------------- MODULE CloudRowProofs --------------------------
(***************************************************************************)
(* Theorems about Cloud, for any scenes and any number of requests: about  *)
(* the attestations it keeps, counts, sweeps and shows.                    *)
(***************************************************************************)
EXTENDS CloudProofs

----------------------------------------------------------------------------
(* Blobs: what a put has made by the time that it gets there.              *)
Early == {"none", "exists", "create"}   \* before a request has a file

SinkOK ==
  /\ sink \in [Clients -> [status : {"idle", "waiting", "returned", "rejected", "unavailable"},
                           attempt : Nat]]
  /\ \A k \in Clients : sink[k].status = "idle" => sink[k].attempt = 0
  /\ pc \in [Posted -> Points]
  /\ \A r \in Posted : r[2] > sink[r[1]].attempt => pc[r] = "none"

BlobTypes ==
  /\ path \in [Contents -> Files \cup {None}]
  /\ tmp \in [Contents -> Posted \cup {None}]
  /\ open \in [Requests -> Requests \cup {None}]
  /\ \A x \in rows : x.content \in Contents

(* A file is at most at one path, that of the content of its request.      *)
FilesApart ==
  \A c \in Contents :
    /\ tmp[c] # None =>
         Content(tmp[c]) = c /\ pc[tmp[c]] \notin Early /\ path[c] # tmp[c]
    /\ path[c] \in Requests =>
         path[c] \in Posted /\ Content(path[c]) = c /\ pc[path[c]] \notin Early

RowsStored ==
  /\ \A x \in rows : Stored(x.content)
  /\ \A r \in Posted : pc[r] = "insert" => Stored(Content(r))

(* A content of which no two puts have overlapped: the one that is under   *)
(* way has the temporary file to itself.                                   *)
OneWriter ==
  \A c \in Contents \ suspect :
    /\ Stored(c) => path[c] \in full
    /\ \A r \in Writers(c) :
         /\ \A q \in Writers(c) : q = r
         /\ tmp[c] # None /\ open[r] = tmp[c]
         /\ pc[r] = "rename" => tmp[c] \in full

BlobInv == SinkOK /\ BlobTypes /\ FilesApart /\ RowsStored /\ OneWriter

LEMMA SendKeeps ==
  ASSUME BlobInv, NEW k \in Clients, NEW n \in Nat, n \in 1 .. MaxAttempts[k],
         n = sink[k].attempt + 1, Send(k, n)
  PROVE  BlobInv'
<1> USE DEF BlobInv
<1> DEFINE q == <<k, n>>
<1>1. /\ q \in Posted /\ q[1] = k /\ q[2] = n
      /\ sink[k].attempt \in Nat
  BY PostedFacts DEF SinkOK
<1>2. pc[q] = "none"
  BY <1>1 DEF SinkOK
<1>3. PICK h \in {"exists", "422"} : pc' = [pc EXCEPT ![q] = h]
  BY DEF Send, GoTo
<1>4. /\ sink' = [sink EXCEPT ![k] = [status |-> "waiting", attempt |-> n]]
      /\ UNCHANGED <<path, tmp, full, open, suspect, rows>>
  BY DEF Send, blobVars, tables
<1> HIDE DEF q
<1>5. pc'[q] = h /\ \A r \in Posted : r # q => pc'[r] = pc[r]
  BY <1>1, <1>3 DEF SinkOK
<1>6. SinkOK'
  <2>1. sink' \in [Clients -> [status : {"idle", "waiting", "returned", "rejected", "unavailable"},
                              attempt : Nat]]
    BY <1>4 DEF SinkOK
  <2>2. sink'[k].status = "waiting" /\ sink'[k].attempt = n
        /\ \A j \in Clients : j # k => sink'[j] = sink[j]
    BY <1>4 DEF SinkOK
  <2>3. pc' \in [Posted -> Points]
    BY <1>1, <1>3 DEF SinkOK, Points, Ended
  <2>4. ASSUME NEW r \in Posted, r[2] > sink'[r[1]].attempt PROVE pc'[r] = "none"
    <3>1. r # q /\ r[2] > sink[r[1]].attempt
      BY <1>1, <2>2, <2>4, PostedFacts DEF SinkOK
    <3> QED
      BY <3>1, <1>5 DEF SinkOK
  <2> QED
    BY <2>1, <2>2, <2>3, <2>4 DEF SinkOK
<1>7. BlobTypes'
  BY <1>4 DEF BlobTypes
<1>8. FilesApart'
  BY <1>2, <1>4, <1>5 DEF FilesApart, BlobTypes, Content, Early
<1>9. RowsStored'
  BY <1>4, <1>5 DEF RowsStored, Stored, Content
<1>10. OneWriter'
  <2>1. \A c : Writers(c)' = Writers(c)
    BY <1>2, <1>5 DEF Writers, Content
  <2>2. \A r \in Posted : pc'[r] = "rename" => pc[r] = "rename"
    BY <1>5
  <2> SUFFICES ASSUME NEW c \in Contents \ suspect
               PROVE  /\ Stored(c) => path[c] \in full
                      /\ \A r \in Writers(c) :
                           /\ \A x \in Writers(c) : x = r
                           /\ tmp[c] # None /\ open[r] = tmp[c]
                           /\ pc'[r] = "rename" => tmp[c] \in full
    BY <1>4, <2>1 DEF OneWriter, Stored
  <2> QED
    BY <2>2 DEF OneWriter, Writers
<1> QED
  BY <1>6, <1>7, <1>8, <1>9, <1>10

LEMMA SettleKeeps ==
  ASSUME BlobInv, NEW k \in Clients, sink[k].status = "waiting",
         NEW status \in {"returned", "rejected", "unavailable"}, Settle(k, status)
  PROVE  BlobInv'
<1> USE DEF BlobInv
<1>1. /\ sink' = [sink EXCEPT ![k].status = status]
      /\ UNCHANGED <<pc, path, tmp, full, open, suspect, rows>>
  BY DEF Settle, blobVars, tables
<1>2. SinkOK'
  <2>1. \A j \in Clients : sink'[j].attempt = sink[j].attempt
                           /\ (sink'[j].status = "idle" => sink[j].status = "idle")
    BY <1>1 DEF SinkOK
  <2>2. sink' \in [Clients -> [status : {"idle", "waiting", "returned", "rejected", "unavailable"},
                              attempt : Nat]]
    BY <1>1 DEF SinkOK
  <2>3. \A r \in Posted : r[2] > sink'[r[1]].attempt => pc[r] = "none"
    BY <2>1, PostedFacts DEF SinkOK
  <2> QED
    BY <1>1, <2>1, <2>2, <2>3 DEF SinkOK
<1>3. BlobTypes' /\ FilesApart' /\ RowsStored' /\ OneWriter'
  BY <1>1 DEF BlobTypes, FilesApart, RowsStored, OneWriter, Stored, Writers
<1> QED
  BY <1>2, <1>3

(* Steps of a request that leave the files as they are, but that it may    *)
(* close its own, and stop writing.                                        *)
LEMMA MoveKeeps ==
  ASSUME BlobInv, NEW r \in Posted, NEW point \in Points \ {"none", "write", "rename"},
         GoTo(r, point), pc[r] # "none",
         UNCHANGED <<sink, path, tmp, full, suspect>>,
         Close(r) \/ UNCHANGED open,
         point \in Early => pc[r] \in Early,
         point = "insert" => Stored(Content(r)),
         \A x \in rows' :
           x \in rows \/ (x.content = Content(r) /\ Stored(Content(r)))
  PROVE  BlobInv'
<1> USE DEF BlobInv
<1>1. pc'[r] = point /\ \A q \in Posted : q # r => pc'[q] = pc[q]
  BY DEF GoTo, SinkOK
<1>2. SinkOK'
  <2>1. pc' \in [Posted -> Points]
    BY DEF GoTo, SinkOK
  <2> QED
    BY <1>1, <2>1 DEF SinkOK
<1>3. r \in Requests /\ Content(r) \in Contents
  BY PostedFacts
<1>4. open' \in [Requests -> Requests \cup {None}]
      /\ \A q \in Requests : q # r => open'[q] = open[q]
  BY <1>3 DEF Close, BlobTypes
<1>5. BlobTypes'
  BY <1>3, <1>4 DEF BlobTypes
<1>6. FilesApart'
  <2>1. \A q \in Posted : pc[q] \notin Early => pc'[q] \notin Early
    BY <1>1
  <2>2. \A q \in Posted : Content(q)' = Content(q)
    BY DEF Content
  <2> QED
    BY <2>1, <2>2, PostedFacts DEF FilesApart, BlobTypes, Content
<1>7. RowsStored'
  BY <1>1 DEF RowsStored, Stored, Content
<1>8. OneWriter'
  <2>1. \A c : \A q \in Writers(c)' : q \in Writers(c) /\ q # r /\ pc'[q] = pc[q]
    BY <1>1 DEF Writers, Content
  <2> SUFFICES ASSUME NEW c \in Contents \ suspect
               PROVE  /\ Stored(c) => path[c] \in full
                      /\ \A q \in Writers(c)' :
                           /\ \A x \in Writers(c)' : x = q
                           /\ tmp[c] # None /\ open'[q] = tmp[c]
                           /\ pc'[q] = "rename" => tmp[c] \in full
    BY DEF OneWriter, Stored
  <2>2. Stored(c) => path[c] \in full
    BY DEF OneWriter
  <2>3. ASSUME NEW q \in Writers(c)'
        PROVE  /\ \A x \in Writers(c)' : x = q
               /\ tmp[c] # None /\ open'[q] = tmp[c]
               /\ pc'[q] = "rename" => tmp[c] \in full
    <3>1. q \in Writers(c) /\ q # r /\ pc'[q] = pc[q]
      BY <2>1, <2>3
    <3>2. open'[q] = open[q]
      BY <1>4, <3>1, PostedFacts DEF Writers
    <3> QED
      BY <2>1, <3>1, <3>2 DEF OneWriter
  <2> QED
    BY <2>2, <2>3
<1> QED
  BY <1>2, <1>5, <1>6, <1>7, <1>8

LEMMA CreateKeeps ==
  ASSUME BlobInv, NEW r \in Posted, Create(r)
  PROVE  BlobInv'
<1> USE DEF BlobInv
<1> DEFINE d == Content(r)
           f == IF tmp[d] = None THEN r ELSE tmp[d]
<1>1. /\ pc[r] = "create" /\ pc' = [pc EXCEPT ![r] = "write"]
      /\ tmp' = [tmp EXCEPT ![d] = f] /\ open' = [open EXCEPT ![r] = f]
      /\ full' = full \ {f}
      /\ suspect' = IF Writers(d) # {} THEN suspect \cup {d} ELSE suspect
      /\ UNCHANGED <<path, sink, rows>>
  BY DEF Create, CreateTmp, GoTo, tables
<1>2. r \in Requests /\ d \in Contents
  BY PostedFacts
<1>3. pc'[r] = "write" /\ \A q \in Posted : q # r => pc'[q] = pc[q]
  BY <1>1 DEF SinkOK
<1>4. f \in Posted /\ Content(f) = d /\ f # None /\ (f = r \/ pc[f] \notin Early) /\ path[d] # f
  <2>1. CASE tmp[d] = None
    BY <1>1, <1>2, <2>1, PostedFacts DEF FilesApart, Early
  <2>2. CASE tmp[d] # None
    BY <1>2, <2>2, PostedFacts DEF FilesApart, BlobTypes
  <2> QED
    BY <2>1, <2>2
<1> HIDE DEF f, d
<1>5. tmp'[d] = f /\ (\A c \in Contents : c # d => tmp'[c] = tmp[c])
      /\ open'[r] = f /\ (\A q \in Requests : q # r => open'[q] = open[q])
  BY <1>1, <1>2 DEF BlobTypes
<1>6. SinkOK'
  <2>1. pc' \in [Posted -> Points]
    BY <1>1 DEF SinkOK, Points, Put
  <2>2. \A q \in Posted : q[2] > sink'[q[1]].attempt => pc'[q] = "none"
    BY <1>1, <1>3 DEF SinkOK
  <2> QED
    BY <1>1, <2>1, <2>2 DEF SinkOK
<1>7. BlobTypes'
  <2>1. tmp' \in [Contents -> Posted \cup {None}]
    BY <1>1, <1>4 DEF BlobTypes
  <2>2. open' \in [Requests -> Requests \cup {None}]
    BY <1>1, <1>4, PostedFacts DEF BlobTypes
  <2> QED
    BY <1>1, <2>1, <2>2 DEF BlobTypes
<1>8. FilesApart'
  <2>1. \A q \in Posted : pc[q] \notin Early \/ q = r => pc'[q] \notin Early
    BY <1>3 DEF Early
  <2>2. ASSUME NEW c \in Contents, tmp'[c] # None
        PROVE  Content(tmp'[c]) = c /\ pc'[tmp'[c]] \notin Early /\ path[c] # tmp'[c]
    <3>1. CASE c = d
      BY <1>4, <1>5, <2>1, <3>1
    <3>2. CASE c # d
      <4>1. tmp'[c] = tmp[c] /\ tmp[c] \in Posted
        BY <1>5, <2>2, <3>2 DEF BlobTypes
      <4> QED
        BY <2>1, <2>2, <4>1 DEF FilesApart
    <3> QED
      BY <3>1, <3>2
  <2>3. ASSUME NEW c \in Contents, path[c] \in Requests
        PROVE  path[c] \in Posted /\ Content(path[c]) = c /\ pc'[path[c]] \notin Early
    BY <2>1, <2>3 DEF FilesApart
  <2> QED
    BY <1>1, <2>2, <2>3 DEF FilesApart, Content
<1>9. RowsStored'
  BY <1>1, <1>3 DEF RowsStored, Stored, Content
<1>10. OneWriter'
  <2> SUFFICES ASSUME NEW c \in Contents \ suspect'
               PROVE  /\ Stored(c) => path[c] \in full'
                      /\ \A q \in Writers(c)' :
                           /\ \A x \in Writers(c)' : x = q
                           /\ tmp'[c] # None /\ open'[q] = tmp'[c]
                           /\ pc'[q] = "rename" => tmp'[c] \in full'
    BY <1>1 DEF OneWriter, Stored
  <2>1. c \notin suspect
    BY <1>1
  <2>2. path[c] # f
    <3>1. ASSUME path[c] = f PROVE Content(f) = c
      BY <1>4, <3>1, PostedFacts DEF FilesApart
    <3> QED
      BY <1>4, <3>1
  <2>3. Stored(c) => path[c] \in full'
    BY <1>1, <2>1, <2>2 DEF OneWriter
  <2>4. ASSUME NEW q \in Writers(c)'
        PROVE  /\ \A x \in Writers(c)' : x = q
               /\ tmp'[c] # None /\ open'[q] = tmp'[c]
               /\ pc'[q] = "rename" => tmp'[c] \in full'
    <3>1. CASE c = d
      <4>1. Writers(d) = {}
        BY <1>1, <3>1
      <4>2. \A x \in Writers(c)' : x = r
        BY <1>3, <3>1, <4>1 DEF Writers, Content
      <4> QED
        BY <1>3, <1>4, <1>5, <2>4, <3>1, <4>2
    <3>2. CASE c # d
      <4>1. \A x \in Writers(c)' : x \in Writers(c) /\ x # r /\ pc'[x] = pc[x]
        BY <1>3, <3>2 DEF Writers, Content, d
      <4>2. open'[q] = open[q] /\ tmp'[c] = tmp[c]
        BY <1>5, <2>4, <3>2, <4>1, PostedFacts DEF Writers
      <4>3. tmp[c] # None /\ tmp[c] # f
        BY <1>4, <2>1, <2>4, <3>2, <4>1 DEF OneWriter, FilesApart
      <4> QED
        BY <1>1, <2>1, <2>4, <4>1, <4>2, <4>3 DEF OneWriter
    <3> QED
      BY <3>1, <3>2
  <2> QED
    BY <2>3, <2>4
<1> QED
  BY <1>6, <1>7, <1>8, <1>9, <1>10

LEMMA WriteKeeps ==
  ASSUME BlobInv, NEW r \in Posted, Write(r)
  PROVE  BlobInv'
<1> USE DEF BlobInv
<1>1. /\ pc[r] = "write" /\ pc' = [pc EXCEPT ![r] = "rename"]
      /\ full' = full \cup {open[r]}
      /\ UNCHANGED <<path, tmp, open, suspect, sink, rows>>
  BY DEF Write, WriteAll, GoTo, tables
<1>2. pc'[r] = "rename" /\ \A q \in Posted : q # r => pc'[q] = pc[q]
  BY <1>1 DEF SinkOK
<1>3. SinkOK'
  <2>1. pc' \in [Posted -> Points]
    BY <1>1 DEF SinkOK, Points, Put
  <2> QED
    BY <1>1, <1>2, <2>1 DEF SinkOK
<1>4. BlobTypes'
  BY <1>1 DEF BlobTypes
<1>5. FilesApart'
  <2>1. \A q \in Posted : pc[q] \notin Early => pc'[q] \notin Early
    BY <1>2 DEF Early
  <2> QED
    BY <1>1, <2>1 DEF FilesApart, BlobTypes, Content
<1>6. RowsStored'
  BY <1>1, <1>2 DEF RowsStored, Stored, Content
<1>7. OneWriter'
  <2>1. \A c : Writers(c)' = Writers(c)
    BY <1>1, <1>2 DEF Writers, Content
  <2> SUFFICES ASSUME NEW c \in Contents \ suspect
               PROVE  /\ Stored(c) => path[c] \in full'
                      /\ \A q \in Writers(c) :
                           /\ \A x \in Writers(c) : x = q
                           /\ tmp[c] # None /\ open[q] = tmp[c]
                           /\ pc'[q] = "rename" => tmp[c] \in full'
    BY <1>1, <2>1 DEF OneWriter, Stored
  <2>2. \A q \in Writers(c) : q # r => pc'[q] = pc[q]
    BY <1>2 DEF Writers
  <2> QED
    BY <1>1, <2>2 DEF OneWriter
<1> QED
  BY <1>3, <1>4, <1>5, <1>6, <1>7

LEMMA RenameKeeps ==
  ASSUME BlobInv, NEW r \in Posted, Rename(r)
  PROVE  BlobInv'
<1> USE DEF BlobInv
<1> DEFINE d == Content(r)
<1>1. /\ pc[r] = "rename" /\ pc' = [pc EXCEPT ![r] = "insert"]
      /\ tmp[d] # None
      /\ path' = [path EXCEPT ![d] = tmp[d]] /\ tmp' = [tmp EXCEPT ![d] = None]
      /\ open' = [open EXCEPT ![r] = None]
      /\ UNCHANGED <<full, suspect, sink, rows>>
  BY DEF Rename, CanRename, RenameTmp, Close, GoTo, tables
<1>2. r \in Requests /\ d \in Contents /\ r \in Writers(d)
  BY <1>1, PostedFacts DEF Writers
<1> HIDE DEF d
<1>3. pc'[r] = "insert" /\ \A q \in Posted : q # r => pc'[q] = pc[q]
  BY <1>1 DEF SinkOK
<1>4. /\ path'[d] = tmp[d] /\ tmp'[d] = None
      /\ \A c \in Contents : c # d => path'[c] = path[c] /\ tmp'[c] = tmp[c]
      /\ \A q \in Requests : q # r => open'[q] = open[q]
  BY <1>1, <1>2 DEF BlobTypes
<1>5. SinkOK'
  <2>1. pc' \in [Posted -> Points]
    BY <1>1 DEF SinkOK, Points
  <2> QED
    BY <1>1, <1>3, <2>1 DEF SinkOK
<1>6. tmp[d] \in Posted /\ tmp[d] \in Requests
  BY <1>1, <1>2, PostedFacts DEF BlobTypes
<1>7. BlobTypes'
  <2>1. path' \in [Contents -> Files \cup {None}]
    BY <1>1, <1>6 DEF BlobTypes, Files
  <2>2. tmp' \in [Contents -> Posted \cup {None}]
    BY <1>1 DEF BlobTypes
  <2>3. open' \in [Requests -> Requests \cup {None}]
    BY <1>1 DEF BlobTypes
  <2> QED
    BY <1>1, <2>1, <2>2, <2>3 DEF BlobTypes
<1>8. FilesApart'
  <2>1. \A q \in Posted : pc[q] \notin Early => pc'[q] \notin Early
    BY <1>3 DEF Early
  <2>2. ASSUME NEW c \in Contents, tmp'[c] # None
        PROVE  Content(tmp'[c]) = c /\ pc'[tmp'[c]] \notin Early /\ path'[c] # tmp'[c]
    <3>1. c # d
      BY <1>4, <2>2
    <3>2. tmp'[c] = tmp[c] /\ path'[c] = path[c] /\ tmp[c] \in Posted
      BY <1>4, <2>2, <3>1 DEF BlobTypes
    <3> QED
      BY <2>1, <2>2, <3>2 DEF FilesApart
  <2>3. ASSUME NEW c \in Contents, path'[c] \in Requests
        PROVE  path'[c] \in Posted /\ Content(path'[c]) = c /\ pc'[path'[c]] \notin Early
    <3>1. CASE c = d
      BY <1>1, <1>2, <1>4, <1>6, <2>1, <3>1 DEF FilesApart
    <3>2. CASE c # d
      BY <1>4, <2>1, <2>3, <3>2 DEF FilesApart
    <3> QED
      BY <3>1, <3>2
  <2> QED
    BY <2>2, <2>3 DEF FilesApart, Content
<1>9. \A c \in Contents : Stored(c) => path'[c] # None
  BY <1>1, <1>4 DEF Stored
<1>10. RowsStored'
  <2>1. \A x \in rows' : path'[x.content] # None
    BY <1>1, <1>9 DEF RowsStored, BlobTypes
  <2>2. ASSUME NEW q \in Posted, pc'[q] = "insert" PROVE path'[Content(q)] # None
    <3>1. CASE q = r
      BY <1>1, <1>4, <3>1 DEF d
    <3>2. CASE q # r
      BY <1>3, <1>9, <2>2, <3>2, PostedFacts DEF RowsStored
    <3> QED
      BY <3>1, <3>2
  <2> QED
    BY <2>1, <2>2 DEF RowsStored, Stored, Content
<1>11. OneWriter'
  <2>1. \A c : \A x \in Writers(c)' : x \in Writers(c) /\ x # r /\ pc'[x] = pc[x]
    BY <1>3 DEF Writers, Content
  <2> SUFFICES ASSUME NEW c \in Contents \ suspect
               PROVE  /\ path'[c] # None => path'[c] \in full
                      /\ \A q \in Writers(c)' :
                           /\ \A x \in Writers(c)' : x = q
                           /\ tmp'[c] # None /\ open'[q] = tmp'[c]
                           /\ pc'[q] = "rename" => tmp'[c] \in full
    BY <1>1 DEF OneWriter, Stored
  <2>2. CASE c = d
    <3>1. \A x \in Writers(c) : x = r
      BY <1>2, <2>2 DEF OneWriter
    <3>2. Writers(c)' = {}
      BY <2>1, <3>1
    <3>3. tmp[c] \in full
      BY <1>1, <1>2, <2>2 DEF OneWriter
    <3> QED
      BY <1>4, <2>2, <3>2, <3>3
  <2>3. CASE c # d
    <3>1. path'[c] = path[c] /\ tmp'[c] = tmp[c]
      BY <1>4, <2>3
    <3>2. path'[c] # None => path'[c] \in full
      BY <3>1 DEF OneWriter, Stored
    <3>3. \A q \in Writers(c)' : open'[q] = open[q]
      BY <1>4, <2>1, PostedFacts DEF Writers
    <3> QED
      BY <2>1, <3>1, <3>2, <3>3 DEF OneWriter
  <2> QED
    BY <2>2, <2>3
<1> QED
  BY <1>5, <1>7, <1>8, <1>10, <1>11

(* Steps of the others: no row is added.                                   *)
LEMMA FewerRowsKeep ==
  ASSUME BlobInv, UNCHANGED <<sink, pc, path, tmp, full, open, suspect>>, rows' \subseteq rows
  PROVE  BlobInv'
<1>1. SinkOK' /\ BlobTypes' /\ FilesApart' /\ RowsStored'
  BY DEF BlobInv, SinkOK, BlobTypes, FilesApart, RowsStored, Stored, Content
<1>2. OneWriter'
  BY DEF BlobInv, OneWriter, Stored, Writers, Content
<1> QED
  BY <1>1, <1>2 DEF BlobInv

LEMMA IngestKeeps ==
  ASSUME BlobInv, IngestNext
  PROVE  BlobInv'
<1>1. ASSUME NEW k \in Clients, Emit(k) \/ Return(k) \/ Rejected(k) \/ TryAgain(k) \/ GiveUp(k)
      PROVE  BlobInv'
  <2>1. MaxAttempts[k] \in Nat \ {0} /\ sink[k].attempt \in Nat
    BY IngestAssumption DEF BlobInv, SinkOK
  <2>2. CASE Emit(k)
    <3>1. sink[k].attempt = 0 /\ 1 \in 1 .. MaxAttempts[k]
      BY <2>1, <2>2 DEF BlobInv, SinkOK, Emit
    <3> QED
      BY <2>2, <3>1, SendKeeps DEF Emit
  <2>3. CASE TryAgain(k)
    <3>1. sink[k].attempt + 1 \in 1 .. MaxAttempts[k] /\ Send(k, sink[k].attempt + 1)
      BY <2>1, <2>3 DEF TryAgain
    <3> QED
      BY <2>1, <3>1, SendKeeps
  <2>4. CASE Return(k) \/ Rejected(k) \/ GiveUp(k)
    <3>1. sink[k].status = "waiting"
          /\ \E status \in {"returned", "rejected", "unavailable"} : Settle(k, status)
      BY <2>4 DEF Return, Rejected, GiveUp
    <3> QED
      BY <3>1, SettleKeeps
  <2> QED
    BY <1>1, <2>2, <2>3, <2>4
<1>2. ASSUME NEW r \in Posted,
             \/ TryExists(r) \/ RenameFails(r) \/ Insert(r) \/ Select(r) \/ Meter(r) \/ Fail(r)
      PROVE  BlobInv'
  <2>1. CASE TryExists(r)
    <3>1. \E point \in {"insert", "create"} :
             GoTo(r, point) /\ (point = "insert" => Stored(Content(r)))
      BY <2>1 DEF TryExists
    <3>2. UNCHANGED <<sink, path, tmp, full, suspect, open, rows>> /\ pc[r] = "exists"
      BY <2>1 DEF TryExists, blobVars, tables
    <3> QED
      BY <3>1, <3>2, MoveKeeps DEF Points, Put, Ended, Early
  <2>2. CASE RenameFails(r) \/ Fail(r)
    <3>1. pc[r] # "none" /\ GoTo(r, "failed") /\ Close(r)
          /\ UNCHANGED <<sink, path, tmp, full, suspect, rows>>
      BY <2>2 DEF RenameFails, Fail, Abandon, InFlight, tables
    <3> QED
      BY <3>1, MoveKeeps DEF Points, Put, Ended, Early
  <2>3. CASE Insert(r)
    <3>1. pc[r] = "insert" /\ GoTo(r, "select")
          /\ UNCHANGED <<sink, path, tmp, full, suspect, open>>
      BY <2>3 DEF Insert, blobVars
    <3>2. Stored(Content(r))
      BY <3>1 DEF BlobInv, RowsStored
    <3>3. \A x \in rows' : x \in rows \/ x.content = Content(r)
      BY <2>3 DEF Insert, InsertStatement, NewRow
    <3> QED
      BY <3>1, <3>2, <3>3, MoveKeeps DEF Points, Put, Ended, Early
  <2>4. CASE Select(r)
    <3>1. pc[r] = "select"
          /\ \E point \in {"failed", "meter", "200"} : GoTo(r, point)
      BY <2>4 DEF Select, Outcome
    <3>2. UNCHANGED <<sink, path, tmp, full, suspect, open, rows>>
      BY <2>4 DEF Select, blobVars, tables
    <3> QED
      BY <3>1, <3>2, MoveKeeps DEF Points, Put, Ended, Early
  <2>5. CASE Meter(r)
    <3>1. pc[r] = "meter" /\ \E point \in {"201", "failed"} : GoTo(r, point)
      BY <2>5 DEF Meter
    <3>2. UNCHANGED <<sink, path, tmp, full, suspect, open, rows>>
      BY <2>5 DEF Meter, blobVars
    <3> QED
      BY <3>1, <3>2, MoveKeeps DEF Points, Put, Ended, Early
  <2> QED
    BY <1>2, <2>1, <2>2, <2>3, <2>4, <2>5
<1> QED
  BY <1>1, <1>2, CreateKeeps, WriteKeeps, RenameKeeps DEF IngestNext

LEMMA BlobInvHolds == CloudSpec => []BlobInv
<1>1. CloudInit => BlobInv
  <2> SUFFICES ASSUME CloudInit PROVE BlobInv
    OBVIOUS
  <2>1. PICK scene \in Scenes : TablesInit(scene) /\ BlobsInit(scene.rotten)
    BY DEF CloudInit
  <2>2. /\ sink = [k \in Clients |-> [status |-> "idle", attempt |-> 0]]
        /\ pc = [r \in Posted |-> "none"]
    BY DEF CloudInit, IngestInit
  <2>3. SinkOK
    BY <2>2, PostedFacts DEF SinkOK, Points
  <2>4. \A x \in rows : x.content \in Contents
    BY <2>1, ScenesAssumption, RowFacts DEF TablesInit
  <2>5. /\ \A c \in Contents : /\ path[c] \in {Past, Rotted, None}
                               /\ path[c] # None /\ c \notin suspect => path[c] \in full
                               /\ tmp[c] = None
        /\ path = [c \in Contents |-> path[c]]
        /\ \A x \in rows : path[x.content] # None
    BY <2>1, <2>4, BlobsAssumption DEF BlobsInit, Files
  <2>6. BlobTypes
    BY <2>1, <2>4, <2>5 DEF BlobTypes, BlobsInit, Files
  <2>7. FilesApart
    BY <2>5, PostedFacts DEF FilesApart
  <2>8. RowsStored
    BY <2>2, <2>5 DEF RowsStored, Stored
  <2>9. \A c : Writers(c) = {}
    BY <2>2 DEF Writers
  <2>10. OneWriter
    BY <2>5, <2>9 DEF OneWriter, Stored
  <2> QED
    BY <2>3, <2>6, <2>7, <2>8, <2>10 DEF BlobInv
<1>2. BlobInv /\ [CloudNext]_cloudVars => BlobInv'
  <2> SUFFICES ASSUME BlobInv, [CloudNext]_cloudVars PROVE BlobInv'
    OBVIOUS
  <2>1. CASE Ingesting
    BY <2>1, IngestKeeps DEF Ingesting
  <2>2. CASE Sweeping \/ Reading \/ Serving \/ Charging
    BY <2>2, SweepingFrame, ReadingFrame, ServingFrame, ChargingFrame, FewerRowsKeep
       DEF blobVars, ingestVars
  <2>6. CASE Ticking \/ UNCHANGED cloudVars
    BY <2>6, FewerRowsKeep DEF Ticking, cloudVars, tables, blobVars, ingestVars
  <2> QED
    BY <2>1, <2>2, <2>6 DEF CloudNext
<1> QED
  BY <1>1, <1>2, PTL DEF CloudSpec

(* Every attestation that is listed can be read back, however many puts of *)
(* it were dropped, failed or made again: a row always has a blob, and the *)
(* blob is whole unless two puts of it overlapped or the disk lost it.     *)
THEOREM ReceiptsCanBeRead == CloudSpec => []StoredWhole
<1>1. BlobInv => StoredWhole
  BY DEF BlobInv, RowsStored, OneWriter, BlobTypes, StoredWhole, Whole, Stored
<1> QED
  BY <1>1, BlobInvHolds, PTL

----------------------------------------------------------------------------
(* Retention: the accounts that a pass has listed keep their retention.    *)
SweepInv ==
  /\ sweep.began \in Nat /\ sweep.began <= now
  /\ sweep.status # "asleep" =>
       /\ AccountsOK(sweep.list) /\ sweep.next \in DOMAIN sweep.list
       /\ \A i \in DOMAIN sweep.list :
            i \in DOMAIN accounts /\ sweep.list[i].retention = accounts[i].retention

SweepingOn == {"status", "list", "next", "began"}

LEMMA SweepGoesOn ==
  ASSUME TablesInv, SweepInv, TablesGrow, UNCHANGED sweep, now' \in Nat, now <= now'
  PROVE  SweepInv'
BY DEF TablesInv, DataOK, SweepInv, TablesGrow, SameAccounts

LEMMA SweepInvHolds == CloudSpec => [](SweepInv /\ DOMAIN sweep = SweepingOn)
<1> DEFINE Inv == SweepInv /\ DOMAIN sweep = SweepingOn
<1>1. CloudInit => Inv
  <2> SUFFICES ASSUME CloudInit PROVE Inv
    OBVIOUS
  <2>1. sweep = Asleep
    BY DEF CloudInit, RetentionInit
  <2>2. now \in Nat
    BY ScenesAssumption DEF CloudInit, TablesInit
  <2> QED
    BY <2>1, <2>2 DEF Asleep, SweepInv, SweepingOn
<1>2. TablesInv /\ Inv /\ [CloudNext]_cloudVars => Inv'
  <2> SUFFICES ASSUME TablesInv, Inv, [CloudNext]_cloudVars PROVE Inv'
    OBVIOUS
  <2>1. TablesGrow
    BY EachStepGrows
  <2>2. now \in Nat
    BY DEF TablesInv, DataOK
  <2>3. CASE Sweeping
    <3>1. UNCHANGED <<accounts, now>>
      BY <2>3, SweepingFrame
    <3>2. SweepInv /\ DOMAIN sweep = SweepingOn
      OBVIOUS
    <3> HIDE DEF Inv
    <3>3. ASSUME sweep' = Asleep PROVE Inv'
      BY <2>2, <3>1, <3>3 DEF Asleep, SweepInv, SweepingOn, Inv
    <3>4. CASE BeginPass
      <4>1. sweep' = [status |-> "delete", list |-> accounts, next |-> 1, began |-> now]
            /\ accounts # <<>>
        BY <3>4 DEF BeginPass
      <4>2. 1 \in DOMAIN accounts
        BY <4>1, AccountFacts DEF TablesInv
      <4> QED
        BY <2>2, <3>1, <4>1, <4>2 DEF SweepInv, SweepingOn, Inv, TablesInv
    <3>5. CASE DeleteExpired
      <4>1. sweep' = [sweep EXCEPT !.status = "mark"] /\ sweep.status = "delete"
        BY <3>5 DEF DeleteExpired
      <4> QED
        BY <3>1, <3>2, <4>1 DEF SweepInv, SweepingOn, Inv
    <3>6. CASE MarkSwept /\ sweep.next # Len(sweep.list)
      <4>1. sweep' = [sweep EXCEPT !.status = "delete", !.next = @ + 1] /\ sweep.status = "mark"
        BY <3>6 DEF MarkSwept
      <4>2. sweep.next + 1 \in DOMAIN sweep.list
        BY <3>2, <3>6, <4>1, AccountFacts DEF SweepInv
      <4> QED
        BY <3>1, <3>2, <4>1, <4>2 DEF SweepInv, SweepingOn, Inv
    <3> QED
      BY <2>3, <3>3, <3>4, <3>5, <3>6 DEF Sweeping, RetentionNext, MarkSwept, StatementFails,
                                          AfterError
  <2>4. CASE ~Sweeping
    <3>1. UNCHANGED sweep /\ (now' = now \/ now' = now + 1)
      BY <2>4, IngestingFrame, ReadingFrame, ServingFrame, ChargingFrame, TickingFrame
         DEF CloudNext, cloudVars, sweepVars
    <3> QED
      BY <2>1, <2>2, <3>1, SweepGoesOn
  <2> QED
    BY <2>3, <2>4
<1> QED
  BY <1>1, <1>2, TablesInvHolds, PTL DEF CloudSpec

LEMMA CutoffIsPast ==
  ASSUME NEW x \in Int, NEW began \in Nat, NEW t \in Nat, began <= t, NEW days \in Nat,
         x < began - days * DayLength
  PROVE  x < t - days * DayLength
<1>1. days * DayLength \in Nat
  BY CloudTypesAssumption
<1> QED
  BY <1>1

(* However long a pass takes, and whoever signs up or pays in the middle   *)
(* of it: what it deletes is out of date by the retention that its account *)
(* has now.                                                                *)
THEOREM RetentionIsAwaited == CloudSpec => NoneTooSoon
<1>1. TablesInv /\ SweepInv /\ [CloudNext]_cloudVars =>
        [\A x \in rows : x \in rows' \/ OutOfDate(x)]_cloudVars
  <2> SUFFICES ASSUME TablesInv, SweepInv, [CloudNext]_cloudVars, NEW x \in rows
               PROVE  x \in rows' \/ OutOfDate(x)
    OBVIOUS
  <2>1. x.account \in Nat /\ x.at \in Nat /\ now \in Nat
    BY RowFacts DEF TablesInv, DataOK
  <2>2. CASE Sweeping
    <3>1. CASE DeleteExpired
      <4> DEFINE a == sweep.next
      <4>1. /\ rows' = DeleteAttestationsOlderThan(rows, a, Cutoff(a))
            /\ sweep.status = "delete"
        BY <3>1 DEF DeleteExpired
      <4>2. x \in rows' \/ (x.account = a /\ x.at < Cutoff(a))
        BY <4>1 DEF DeleteAttestationsOlderThan
      <4>3. a \in DOMAIN accounts /\ sweep.list[a].retention = accounts[a].retention
            /\ sweep.began \in Nat /\ sweep.began <= now
        BY <4>1 DEF SweepInv
      <4>4. accounts[a].retention \in Nat
        BY <4>3 DEF TablesInv, AccountsOK
      <4> QED
        BY <2>1, <4>2, <4>3, <4>4, CutoffIsPast DEF Cutoff, OutOfDate
    <3>2. CASE ~DeleteExpired
      BY <2>2, <3>2 DEF Sweeping, RetentionNext, BeginPass, MarkSwept, StatementFails, tables
    <3> QED
      BY <3>1, <3>2
  <2>3. CASE Ingesting
    <3>1. rows' = rows \/ \E r \in Posted : Insert(r)
      <4>1. ASSUME NEW k \in Clients, Emit(k) \/ Return(k) \/ Rejected(k) \/ TryAgain(k) \/ GiveUp(k)
            PROVE  rows' = rows
        BY <4>1 DEF Emit, Return, Rejected, TryAgain, GiveUp, Send, Settle, tables
      <4>2. ASSUME NEW r \in Posted,
                   \/ TryExists(r) \/ Create(r) \/ Write(r) \/ Rename(r) \/ RenameFails(r)
                   \/ Select(r) \/ Meter(r) \/ Fail(r)
            PROVE  rows' = rows
        BY <4>2 DEF TryExists, Create, Write, Rename, RenameFails, Select, Meter, Fail, tables
      <4> QED
        BY <2>3, <4>1, <4>2 DEF Ingesting, IngestNext
    <3>2. ASSUME NEW r \in Posted, Insert(r) PROVE x \in rows'
      BY <3>2 DEF Insert, InsertStatement
    <3> QED
      BY <3>1, <3>2
  <2>4. CASE ~Ingesting /\ ~Sweeping
    BY <2>4, ReadingFrame, ServingFrame, ChargingFrame, TickingFrame DEF CloudNext, cloudVars, tables
  <2> QED
    BY <2>2, <2>3, <2>4
<1> QED
  BY <1>1, TablesInvHolds, SweepInvHolds, PTL DEF CloudSpec, NoneTooSoon

----------------------------------------------------------------------------
(* Usage: how far a request has come, and what it has done by then.        *)
Unwritten == {"none", "exists", "create", "write", "rename", "insert"}

EffectInv ==
  /\ effect \in [Posted -> {"none", "row", "metered"}]
  /\ \A r \in Posted : /\ pc[r] \in Unwritten => effect[r] = "none"
                       /\ pc[r] = "meter" => effect[r] = "row"
                       /\ pc[r] = "select" => effect[r] # "metered"

LEMMA EffectGoesOn ==
  ASSUME EffectInv, SinkOK, NEW r \in Posted, NEW point \in Points, GoTo(r, point),
         NEW e \in {"none", "row", "metered"}, effect' = [effect EXCEPT ![r] = e],
         point \in Unwritten => e = "none", point = "meter" => e = "row",
         point = "select" => e # "metered"
  PROVE  EffectInv'
<1>1. pc'[r] = point /\ \A q \in Posted : q # r => pc'[q] = pc[q]
  BY DEF GoTo, SinkOK
<1>2. effect'[r] = e /\ \A q \in Posted : q # r => effect'[q] = effect[q]
  BY DEF EffectInv
<1>3. effect' \in [Posted -> {"none", "row", "metered"}]
  BY DEF EffectInv
<1> QED
  BY <1>1, <1>2, <1>3 DEF EffectInv

LEMMA EffectStays ==
  ASSUME EffectInv, SinkOK, NEW r \in Posted, NEW point \in Points, GoTo(r, point),
         UNCHANGED effect,
         point \in Unwritten => effect[r] = "none", point = "meter" => effect[r] = "row",
         point # "select"
  PROVE  EffectInv'
<1>1. effect' = [effect EXCEPT ![r] = effect[r]] /\ effect[r] \in {"none", "row", "metered"}
  BY DEF EffectInv
<1> QED
  BY <1>1, EffectGoesOn

LEMMA IngestKeepsEffect ==
  ASSUME EffectInv, SinkOK, IngestNext
  PROVE  EffectInv'
<1>1. ASSUME NEW k \in Clients, NEW n \in 1 .. MaxAttempts[k], n > sink[k].attempt, Send(k, n)
      PROVE  EffectInv'
  <2> DEFINE q == <<k, n>>
  <2>1. q \in Posted /\ pc[q] = "none"
    BY <1>1, PostedFacts DEF SinkOK
  <2>2. PICK point \in {"exists", "422"} : GoTo(q, point)
    BY <1>1 DEF Send
  <2>3. effect[q] = "none" /\ UNCHANGED effect
    BY <1>1, <2>1 DEF EffectInv, Unwritten, Send
  <2> HIDE DEF q
  <2> QED
    BY <2>1, <2>2, <2>3, EffectStays DEF Points, Ended
<1>2. ASSUME NEW k \in Clients, Emit(k) \/ TryAgain(k)
      PROVE  EffectInv'
  <2>1. sink[k].attempt \in Nat /\ (sink[k].status = "idle" => sink[k].attempt = 0)
        /\ MaxAttempts[k] \in Nat \ {0}
    BY IngestAssumption DEF SinkOK
  <2>2. CASE Emit(k)
    BY <1>1, <2>1, <2>2 DEF Emit
  <2>3. CASE TryAgain(k)
    BY <1>1, <2>1, <2>3 DEF TryAgain
  <2> QED
    BY <1>2, <2>2, <2>3
<1>3. ASSUME NEW k \in Clients, Return(k) \/ Rejected(k) \/ GiveUp(k)
      PROVE  EffectInv'
  BY <1>3 DEF Return, Rejected, GiveUp, Settle, EffectInv
<1>4. ASSUME NEW r \in Posted,
             TryExists(r) \/ Create(r) \/ Write(r) \/ Rename(r)
      PROVE  EffectInv'
  <2>1. pc[r] \in Unwritten /\ UNCHANGED effect
    BY <1>4 DEF TryExists, Create, Write, Rename, Unwritten
  <2>2. PICK point \in {"create", "write", "rename", "insert"} : GoTo(r, point)
    BY <1>4 DEF TryExists, Create, Write, Rename
  <2> QED
    BY <2>1, <2>2, EffectStays DEF EffectInv, Points, Put
<1>5. ASSUME NEW r \in Posted, RenameFails(r) \/ Fail(r)
      PROVE  EffectInv'
  BY <1>5, EffectStays DEF RenameFails, Fail, Points, Ended, Unwritten
<1>6. ASSUME NEW r \in Posted, Insert(r)
      PROVE  EffectInv'
  <2>1. PICK e \in {"none", "row"} : effect' = [effect EXCEPT ![r] = e]
    BY <1>6 DEF Insert
  <2>2. GoTo(r, "select")
    BY <1>6 DEF Insert
  <2>3. "select" \in Points /\ "select" \notin Unwritten
    BY DEF Points, Unwritten
  <2> QED
    BY <2>1, <2>2, <2>3, EffectGoesOn
<1>7. ASSUME NEW r \in Posted, Select(r)
      PROVE  EffectInv'
  <2>1. PICK point \in {"failed", Outcome(r)} : GoTo(r, point)
    BY <1>7 DEF Select
  <2>2. /\ point \in Points /\ point \notin Unwritten /\ point # "select"
        /\ point = "meter" => effect[r] = "row"
    BY <2>1 DEF Outcome, Points, Ended, Unwritten
  <2> QED
    BY <1>7, <2>1, <2>2, EffectStays DEF Select
<1>8. ASSUME NEW r \in Posted, Meter(r)
      PROVE  EffectInv'
  <2>1. PICK point \in {"201", "failed"} : GoTo(r, point)
    BY <1>8 DEF Meter
  <2> QED
    BY <1>8, <2>1, EffectGoesOn DEF Meter, Points, Ended, Unwritten
<1> QED
  BY <1>2, <1>3, <1>4, <1>5, <1>6, <1>7, <1>8 DEF IngestNext

----------------------------------------------------------------------------
Inserted == {r \in Posted : effect[r] # "none"}

UsageInv ==
  /\ EffectInv
  /\ IsFiniteSet(Inserted)
  /\ filed \in [Posted -> Nat]
  /\ \A k \in DOMAIN swept : swept[k] \in Int
  /\ \A k : Balanced(k)

LEMMA CountsAreNat ==
  ASSUME TablesInv, UsageInv, NEW k
  PROVE  /\ IsFiniteSet(Lacking(k)) /\ Cardinality(Lacking(k)) \in Nat
         /\ IsFiniteSet(Excess(k)) /\ Cardinality(Excess(k)) \in Nat
         /\ IsFiniteSet(RowsOn(k)) /\ Cardinality(RowsOn(k)) \in Nat
         /\ UsageOn(k) \in Nat
         /\ Deleted(k) \in Int
<1>1. Lacking(k) \subseteq Inserted /\ Excess(k) \subseteq Inserted
  BY DEF Lacking, Excess, Supplanted, Inserted
<1>2. RowsOn(k) \subseteq rows
  BY DEF RowsOn
<1>3. /\ IsFiniteSet(Lacking(k)) /\ IsFiniteSet(Excess(k))
  BY <1>1, FS_Subset DEF UsageInv
<1>4. IsFiniteSet(RowsOn(k))
  BY <1>2, FS_Subset DEF TablesInv, DataOK, RowsOK
<1>5. UsageOn(k) \in Nat
  BY DEF UsageOn, TablesInv, DataOK, UsageOK
<1>6. Deleted(k) \in Int
  BY DEF Deleted, UsageInv
<1> QED
  BY <1>3, <1>4, <1>5, <1>6, FS_CardinalityType

(* Only what is inserted has its own instant in the balance, and only what *)
(* is counted the instant that it was counted on.                          *)
LEMMA BalanceStays ==
  ASSUME UsageInv, EffectInv', UNCHANGED <<rows, usage, effect, swept>>,
         filed' \in [Posted -> Nat],
         \A r \in Posted : /\ effect[r] # "none" => filed'[r] = filed[r]
                           /\ effect[r] = "metered" => at'[r] = at[r]
  PROVE  UsageInv'
<1>1. \A r \in Posted : /\ effect[r] # "none" => FiledOn(r)' = FiledOn(r)
                        /\ effect[r] = "metered" => CountedOn(r)' = CountedOn(r)
                        /\ Supplanted(r)' = Supplanted(r)
  BY DEF FiledOn, CountedOn, Supplanted, Account
<1>2. ASSUME NEW k PROVE Balanced(k)'
  <2>1. Lacking(k)' = Lacking(k)
    <3>1. \A r \in Posted : (effect[r] = "row" \/ Supplanted(r)) => effect[r] # "none"
      BY DEF Supplanted
    <3> QED
      BY <1>1, <3>1 DEF Lacking
  <2>2. Excess(k)' = Excess(k)
    <3>1. \A r \in Posted : Supplanted(r) => effect[r] = "metered"
      BY DEF Supplanted
    <3> QED
      BY <1>1, <3>1 DEF Excess
  <2>3. UsageOn(k)' = UsageOn(k) /\ RowsOn(k)' = RowsOn(k) /\ Deleted(k)' = Deleted(k)
    BY DEF UsageOn, RowsOn, DayOf, Deleted
  <2> QED
    BY <2>1, <2>2, <2>3 DEF UsageInv, Balanced
<1>3. IsFiniteSet(Inserted')
  BY DEF UsageInv, Inserted
<1> QED
  BY <1>2, <1>3 DEF UsageInv

(* The statement inserts the row, and it is not counted yet.               *)
LEMMA InsertBalances ==
  ASSUME TablesInv, SinkOK, UsageInv, EffectInv', NEW r \in Posted, Insert(r), UNCHANGED swept
  PROVE  UsageInv'
<1> DEFINE x == NewRow(Content(r), Account(r), at[r])
           b == DayOf(x)
<1>1. /\ effect[r] = "none" /\ effect \in [Posted -> {"none", "row", "metered"}]
      /\ at \in [Posted -> Nat] /\ filed \in [Posted -> Nat]
  BY DEF Insert, UsageInv, EffectInv, Unwritten, TablesInv, DataOK
<1>2. usage' = usage /\ at' = at /\ x.content = Content(r) /\ b = CountedOn(r)
  BY DEF Insert, NewRow, DayOf, CountedOn
<1>3. CASE SelectById(rows, IdOf[x.content]) # {}
  <2>1. /\ rows' = rows /\ effect' = [effect EXCEPT ![r] = "none"]
        /\ filed' = [filed EXCEPT ![r] = 0]
    BY <1>3 DEF Insert, InsertStatement
  <2>2. effect' = effect
    BY <1>1, <2>1
  <2>3. filed' \in [Posted -> Nat] /\ \A q \in Posted : q # r => filed'[q] = filed[q]
    BY <1>1, <2>1
  <2> HIDE DEF x
  <2> QED
    BY <1>1, <1>2, <2>1, <2>2, <2>3, BalanceStays
<1>4. CASE SelectById(rows, IdOf[x.content]) = {}
  <2>1. /\ rows' = rows \cup {x} /\ effect' = [effect EXCEPT ![r] = "row"]
        /\ filed' = [filed EXCEPT ![r] = at[r]]
    BY <1>4 DEF Insert, InsertStatement
  <2>2. x \notin rows
    BY <1>4 DEF SelectById
  <2> HIDE DEF x
  <2>3. effect'[r] = "row" /\ \A q \in Posted : q # r => effect'[q] = effect[q]
    BY <1>1, <2>1
  <2>4. /\ filed' \in [Posted -> Nat] /\ filed'[r] = at[r]
        /\ \A q \in Posted : q # r => filed'[q] = filed[q]
    BY <1>1, <2>1
  <2>5. Inserted' = Inserted \cup {r}
    BY <2>3 DEF Inserted
  <2>6. IsFiniteSet(Inserted')
    BY <2>5, FS_AddElement DEF UsageInv
  <2>7. /\ FiledOn(r)' = b /\ ~Supplanted(r) /\ ~Supplanted(r)'
        /\ \A q \in Posted : q # r => /\ FiledOn(q)' = FiledOn(q)
                                      /\ CountedOn(q)' = CountedOn(q)
                                      /\ Supplanted(q)' = Supplanted(q)
    BY <1>1, <1>2, <2>3, <2>4 DEF FiledOn, CountedOn, Supplanted, Account
  <2> HIDE DEF b
  <2>8. ASSUME NEW k
        PROVE  Balanced(k)'
    <3>1. UsageOn(k)' = UsageOn(k) /\ Deleted(k)' = Deleted(k)
      BY <1>2 DEF UsageOn, Deleted
    <3>2. Excess(k)' = Excess(k)
      BY <2>7 DEF Excess
    <3>3. CASE k = b
      <4>1. Lacking(k)' = Lacking(k) \cup {r} /\ r \notin Lacking(k)
        BY <1>1, <2>3, <2>7, <3>3 DEF Lacking
      <4>2. RowsOn(k)' = RowsOn(k) \cup {x} /\ x \notin RowsOn(k)
        BY <2>1, <2>2, <3>3 DEF RowsOn, DayOf, b
      <4>3. /\ Cardinality(Lacking(k)') = Cardinality(Lacking(k)) + 1
            /\ Cardinality(RowsOn(k)') = Cardinality(RowsOn(k)) + 1
        BY <4>1, <4>2, CountsAreNat, FS_AddElement
      <4> QED
        BY <3>1, <3>2, <4>3, CountsAreNat DEF UsageInv, Balanced
    <3>4. CASE k # b
      <4>1. Lacking(k)' = Lacking(k)
        BY <1>1, <2>3, <2>7, <3>4 DEF Lacking
      <4>2. RowsOn(k)' = RowsOn(k)
        BY <2>1, <3>4 DEF RowsOn, DayOf, b
      <4> QED
        BY <3>1, <3>2, <4>1, <4>2 DEF UsageInv, Balanced
    <3> QED
      BY <3>3, <3>4
  <2> QED
    BY <2>4, <2>6, <2>8 DEF UsageInv
<1> QED
  BY <1>3, <1>4

(* The statement counts it, on the day of the row that SELECT has found.   *)
LEMMA MeterBalances ==
  ASSUME TablesInv, SinkOK, UsageInv, EffectInv', NEW r \in Posted, Meter(r), UNCHANGED swept
  PROVE  UsageInv'
<1> DEFINE v == RecordUsage(usage, Account(r), at[r])
           b == CountedOn(r)
<1>1. /\ effect[r] = "row" /\ effect \in [Posted -> {"none", "row", "metered"}]
      /\ at[r] \in Nat /\ UsageOK(usage) /\ Account(r) \in Nat
  BY PostedFacts DEF Meter, UsageInv, EffectInv, TablesInv, DataOK
<1>2. /\ rows' = rows /\ at' = at /\ filed' = filed /\ usage' = v
      /\ effect' = [effect EXCEPT ![r] = "metered"]
  BY DEF Meter, ReceivedAt
<1>3. \A k : UsageOn(k)' = UsageOn(k) + (IF k = b THEN 1 ELSE 0)
  <2>1. \A k : CountOn(v, k) = CountOn(usage, k) + (IF k = b THEN 1 ELSE 0)
    BY <1>1, RecordUsageCounts DEF CountedOn
  <2> HIDE DEF v, b
  <2>2. \A k : CountOn(usage', k) = CountOn(usage, k) + (IF k = b THEN 1 ELSE 0)
    BY <1>2, <2>1
  <2> QED
    BY <2>2 DEF CountOn, UsageOn
<1> HIDE DEF v
<1>4. effect'[r] = "metered" /\ \A q \in Posted : q # r => effect'[q] = effect[q]
  BY <1>1, <1>2
<1>5. IsFiniteSet(Inserted')
  <2>1. Inserted' = Inserted
    BY <1>1, <1>4 DEF Inserted
  <2> QED
    BY <2>1 DEF UsageInv
<1>6. /\ ~Supplanted(r)
      /\ Supplanted(r)' <=> at[r] # filed[r]
      /\ \A q \in Posted : q # r => Supplanted(q)' = Supplanted(q)
      /\ \A q : FiledOn(q)' = FiledOn(q) /\ CountedOn(q)' = CountedOn(q)
  BY <1>1, <1>2, <1>4 DEF Supplanted, FiledOn, CountedOn, Account
<1> DEFINE f == FiledOn(r)
<1>7. at[r] = filed[r] => b = f
  BY DEF FiledOn, CountedOn
<1> HIDE DEF b, f
<1>8. ASSUME NEW k
      PROVE  Balanced(k)'
  <2>1. RowsOn(k)' = RowsOn(k) /\ Deleted(k)' = Deleted(k)
    BY <1>2 DEF RowsOn, DayOf, Deleted
  <2>2. Cardinality(Lacking(k)') =
          Cardinality(Lacking(k)) - (IF k = f /\ at[r] = filed[r] THEN 1 ELSE 0)
    <3>1. CASE k = f /\ at[r] = filed[r]
      <4>1. Lacking(k)' = Lacking(k) \ {r} /\ r \in Lacking(k)
        BY <1>1, <1>4, <1>6, <3>1 DEF Lacking, f
      <4> QED
        BY <3>1, <4>1, CountsAreNat, FS_RemoveElement
    <3>2. CASE ~(k = f /\ at[r] = filed[r])
      <4>1. Lacking(k)' = Lacking(k)
        BY <1>1, <1>4, <1>6, <3>2 DEF Lacking, f
      <4>2. Cardinality(Lacking(k)) \in Nat
        BY CountsAreNat
      <4> QED
        BY <3>2, <4>1, <4>2
    <3> QED
      BY <3>1, <3>2
  <2>3. Cardinality(Excess(k)') =
          Cardinality(Excess(k)) + (IF k = b /\ at[r] # filed[r] THEN 1 ELSE 0)
    <3>1. CASE k = b /\ at[r] # filed[r]
      <4>1. Excess(k)' = Excess(k) \cup {r} /\ r \notin Excess(k)
        BY <1>1, <1>4, <1>6, <3>1 DEF Excess, b
      <4> QED
        BY <3>1, <4>1, CountsAreNat, FS_AddElement
    <3>2. CASE ~(k = b /\ at[r] # filed[r])
      <4>1. Excess(k)' = Excess(k)
        BY <1>1, <1>4, <1>6, <3>2 DEF Excess, b
      <4>2. Cardinality(Excess(k)) \in Nat
        BY CountsAreNat
      <4> QED
        BY <3>2, <4>1, <4>2
    <3> QED
      BY <3>1, <3>2
  <2>4. Balanced(k)
    BY DEF UsageInv
  <2>5. UsageOn(k)' = UsageOn(k) + (IF k = b THEN 1 ELSE 0)
    BY <1>3
  <2> QED
    BY <1>7, <2>1, <2>2, <2>3, <2>4, <2>5, CountsAreNat DEF Balanced
<1> QED
  BY <1>2, <1>5, <1>8 DEF UsageInv

(* What the sweeper deletes it takes note of, and nothing off usage.       *)
LEMMA DeleteBalances ==
  ASSUME TablesInv, UsageInv, EffectInv', DeleteExpired, UNCHANGED <<usage, effect, filed, at>>
  PROVE  UsageInv'
<1> DEFINE kept == DeleteAttestationsOlderThan(rows, sweep.next, Cutoff(sweep.next))
           gone == rows \ kept
           goneOn(k) == {x \in gone : DayOf(x) = k}
           days == {DayOf(x) : x \in gone}
<1>1. /\ rows' = kept
      /\ swept' = [k \in DOMAIN swept \cup days |-> Deleted(k) + Cardinality(goneOn(k))]
  BY DEF DeleteExpired
<1>2. kept \subseteq rows
  BY DEF DeleteAttestationsOlderThan
<1>3. IsFiniteSet(rows)
  BY DEF TablesInv, DataOK, RowsOK
<1> HIDE DEF kept
<1>4. \A k : IsFiniteSet(goneOn(k)) /\ Cardinality(goneOn(k)) \in Nat
  <2>1. \A k : goneOn(k) \subseteq rows
    OBVIOUS
  <2> HIDE DEF goneOn
  <2> QED
    BY <1>3, <2>1, FS_Subset, FS_CardinalityType
<1>5. \A k : k \notin days => goneOn(k) = {}
  OBVIOUS
<1>6. \A k : goneOn(k) \subseteq RowsOn(k) /\ RowsOn(k)' = RowsOn(k) \ goneOn(k)
  BY <1>1, <1>2 DEF RowsOn, DayOf
<1> HIDE DEF gone, goneOn, days
<1>7. \A k : Deleted(k)' = Deleted(k) + Cardinality(goneOn(k))
  <2> SUFFICES ASSUME NEW k PROVE Deleted(k)' = Deleted(k) + Cardinality(goneOn(k))
    OBVIOUS
  <2>1. CASE k \in DOMAIN swept \cup days
    BY <1>1, <2>1 DEF Deleted
  <2>2. CASE k \notin DOMAIN swept \cup days
    <3>1. goneOn(k) = {} /\ Cardinality({}) = 0
      BY <1>5, <2>2, FS_EmptySet
    <3>2. Deleted(k)' = 0 /\ Deleted(k) = 0
      BY <1>1, <2>2 DEF Deleted
    <3> QED
      BY <3>1, <3>2
  <2> QED
    BY <2>1, <2>2
<1>8. \A k \in DOMAIN swept' : swept'[k] \in Int
  BY <1>1, <1>4, CountsAreNat
<1>9. ASSUME NEW k
      PROVE  Balanced(k)'
  <2>1. /\ Lacking(k)' = Lacking(k) /\ Excess(k)' = Excess(k) /\ UsageOn(k)' = UsageOn(k)
    BY DEF Lacking, Excess, FiledOn, CountedOn, Supplanted, UsageOn, Account
  <2>2. Cardinality(RowsOn(k)') = Cardinality(RowsOn(k)) - Cardinality(goneOn(k))
    <3>1. Cardinality(RowsOn(k) \ goneOn(k))
            = Cardinality(RowsOn(k)) - Cardinality(RowsOn(k) \cap goneOn(k))
      BY CountsAreNat, FS_Difference
    <3>2. RowsOn(k) \cap goneOn(k) = goneOn(k)
      BY <1>6
    <3> QED
      BY <1>6, <3>1, <3>2
  <2>3. Balanced(k)
    BY DEF UsageInv
  <2>4. Cardinality(goneOn(k)) \in Nat /\ Deleted(k)' = Deleted(k) + Cardinality(goneOn(k))
    BY <1>4, <1>7
  <2> QED
    BY <2>1, <2>2, <2>3, <2>4, CountsAreNat DEF Balanced
<1>10. IsFiniteSet(Inserted')
  BY DEF UsageInv, Inserted
<1> QED
  BY <1>8, <1>9, <1>10 DEF UsageInv

(* What the service starts with is taken for swept as far as it lacks rows.*)
LEMMA UsageInit ==
  ASSUME CloudInit
  PROVE  UsageInv
<1>1. PICK scene \in Scenes : TablesInit(scene)
  BY DEF CloudInit
<1>2. /\ pc = [r \in Posted |-> "none"] /\ effect = [r \in Posted |-> "none"]
      /\ filed = [r \in Posted |-> 0]
  BY DEF CloudInit, IngestInit
<1>3. EffectInv
  BY <1>2 DEF EffectInv, Unwritten
<1>4. Inserted = {} /\ \A k : Lacking(k) = {} /\ Excess(k) = {}
  BY <1>2 DEF Inserted, Lacking, Excess, Supplanted
<1>5. IsFiniteSet({}) /\ Cardinality({}) = 0
  BY FS_EmptySet
<1>6. UsageOK(usage) /\ IsFiniteSet(rows)
  BY <1>1, ScenesAssumption DEF TablesInit, RowsOK
<1> DEFINE days == DOMAIN usage \cup {DayOf(x) : x \in rows}
<1>7. swept = [k \in days |-> UsageOn(k) - Cardinality(RowsOn(k))]
  BY DEF CloudInit, RetentionInit
<1>8. \A k : k \notin days => k \notin DOMAIN usage /\ RowsOn(k) = {}
  BY DEF RowsOn
<1> HIDE DEF days
<1>9. \A k : UsageOn(k) \in Nat /\ Cardinality(RowsOn(k)) \in Nat
  <2>1. \A k : RowsOn(k) \subseteq rows
    BY DEF RowsOn
  <2>2. \A k : Cardinality(RowsOn(k)) \in Nat
    BY <1>6, <2>1, FS_Subset, FS_CardinalityType
  <2> QED
    BY <1>6, <2>2 DEF UsageOn, UsageOK
<1>10. ASSUME NEW k PROVE Balanced(k)
  <2>1. CASE k \in days
    <3>1. Deleted(k) = UsageOn(k) - Cardinality(RowsOn(k))
      BY <1>7, <2>1 DEF Deleted
    <3> QED
      BY <1>4, <1>5, <1>9, <3>1 DEF Balanced
  <2>2. CASE k \notin days
    <3>1. Deleted(k) = 0 /\ UsageOn(k) = 0 /\ RowsOn(k) = {}
      BY <1>7, <1>8, <2>2 DEF Deleted, UsageOn
    <3> QED
      BY <1>4, <1>5, <3>1 DEF Balanced
  <2> QED
    BY <2>1, <2>2
<1>11. \A k \in DOMAIN swept : swept[k] \in Int
  BY <1>7, <1>9
<1>12. filed \in [Posted -> Nat]
  BY <1>2
<1> QED
  BY <1>3, <1>4, <1>5, <1>10, <1>11, <1>12 DEF UsageInv

(* A request moves its instant only before it has counted.                 *)
LEMMA InstantStays ==
  ASSUME UsageInv, TablesInv, NEW r \in Posted,
         pc[r] \in {"exists", "rename", "select"}, NEW t, at' = [at EXCEPT ![r] = t]
  PROVE  \A q \in Posted : effect[q] = "metered" => at'[q] = at[q]
<1>1. effect[r] # "metered" /\ at \in [Posted -> Nat]
  BY DEF UsageInv, EffectInv, Unwritten, TablesInv, DataOK
<1> QED
  BY <1>1

LEMMA UsageInvHolds == CloudSpec => []UsageInv
<1>1. CloudInit => UsageInv
  BY UsageInit
<1>2. TablesInv /\ BlobInv /\ UsageInv /\ [CloudNext]_cloudVars => UsageInv'
  <2> SUFFICES ASSUME TablesInv, BlobInv, UsageInv, [CloudNext]_cloudVars PROVE UsageInv'
    OBVIOUS
  <2>1. SinkOK /\ EffectInv /\ filed \in [Posted -> Nat]
    BY DEF BlobInv, UsageInv
  <2>2. CASE Ingesting
    <3>1. UNCHANGED swept /\ IngestNext
      BY <2>2, IngestingFrame DEF Ingesting, sweepVars
    <3>2. EffectInv'
      BY <2>1, <3>1, IngestKeepsEffect
    <3>3. ASSUME UNCHANGED <<rows, usage, effect, filed>>,
                 \A r \in Posted : effect[r] = "metered" => at'[r] = at[r]
          PROVE  UsageInv'
      BY <2>1, <3>1, <3>2, <3>3, BalanceStays
    <3>4. ASSUME NEW k \in Clients, Emit(k) \/ Return(k) \/ Rejected(k) \/ TryAgain(k) \/ GiveUp(k)
          PROVE  UsageInv'
      BY <3>3, <3>4 DEF Emit, Return, Rejected, TryAgain, GiveUp, Send, Settle, tables
    <3>5. ASSUME NEW r \in Posted,
                 TryExists(r) \/ Create(r) \/ Write(r) \/ Rename(r) \/ RenameFails(r)
                 \/ Select(r) \/ Fail(r)
          PROVE  UsageInv'
      <4>1. UNCHANGED <<rows, usage, effect, filed>>
        BY <3>5 DEF TryExists, Create, Write, Rename, RenameFails, Select, Fail, tables
      <4>2. UNCHANGED at \/ (/\ pc[r] \in {"exists", "rename", "select"}
                             /\ \E t : at' = [at EXCEPT ![r] = t])
        BY <3>5 DEF TryExists, Create, Write, Rename, RenameFails, Select, Fail
      <4> QED
        BY <3>3, <4>1, <4>2, InstantStays
    <3>6. ASSUME NEW r \in Posted, Insert(r) \/ Meter(r)
          PROVE  UsageInv'
      BY <2>1, <3>1, <3>2, <3>6, InsertBalances, MeterBalances
    <3> QED
      BY <3>1, <3>4, <3>5, <3>6 DEF IngestNext
  <2>3. CASE Sweeping
    <3>1. UNCHANGED <<usage, pc, effect, filed, at>>
      BY <2>3, SweepingFrame DEF ingestVars
    <3>2. EffectInv'
      BY <2>1, <3>1 DEF EffectInv
    <3>3. CASE DeleteExpired
      BY <3>1, <3>2, <3>3, DeleteBalances
    <3>4. CASE BeginPass \/ MarkSwept \/ StatementFails
      BY <2>1, <3>1, <3>2, <3>4, BalanceStays DEF BeginPass, MarkSwept, StatementFails, tables
    <3> QED
      BY <2>3, <3>3, <3>4 DEF Sweeping, RetentionNext
  <2>4. CASE ~Ingesting /\ ~Sweeping
    <3>1. UNCHANGED <<rows, usage, pc, effect, swept, filed, at>>
      BY <2>4, ReadingFrame, ServingFrame, ChargingFrame, TickingFrame
         DEF CloudNext, cloudVars, tables, ingestVars, sweepVars
    <3>2. EffectInv'
      BY <2>1, <3>1 DEF EffectInv
    <3> QED
      BY <2>1, <3>1, <3>2, BalanceStays
  <2> QED
    BY <2>2, <2>3, <2>4
<1> QED
  BY <1>1, <1>2, TablesInvHolds, BlobInvHolds, PTL DEF CloudSpec

(* However often an attestation is posted, by however many requests, and   *)
(* whichever of them fail: the usage of each account and day has each row  *)
(* received then once, but for those whose request has yet to count it,    *)
(* ended before it could, or counted it on the day of a later row of its   *)
(* id; and it keeps those that the sweeper deletes.                        *)
THEOREM UsageIsAccounted == CloudSpec => []UsageAccounted
<1>1. UsageInv => UsageAccounted
  BY DEF UsageInv, UsageAccounted
<1> QED
  BY <1>1, UsageInvHolds, PTL

----------------------------------------------------------------------------
(* Search: what a client has still to see is behind its cursor.            *)
RowRecords == [content : Contents, account : Nat, at : Nat]

Seen(x) == \E i \in DOMAIN walk.seen : walk.seen[i] = x

Descends(s) == \A i, j \in DOMAIN s : i < j => Before(s[j], s[i])

WalkInv ==
  /\ DOMAIN walk = DOMAIN NoWalk
  /\ walk.seen \in Seq(RowRecords) /\ Descends(walk.seen)
  /\ walk.start \subseteq RowRecords
  /\ walk.status = "idle" => walk = NoWalk
  /\ walk.status = "more" =>
       /\ walk.seen # <<>> /\ walk.cursor = walk.seen[Len(walk.seen)]
       /\ \A x \in walk.start : /\ Matches(x, walk.account, Filter)
                                /\ Seen(x) \/ Before(x, walk.cursor)
  /\ walk.status = "done" => \A x \in walk.start : Seen(x)

LEMMA BeforeThat ==
  ASSUME NEW x \in RowRecords, NEW y \in RowRecords, NEW z \in RowRecords,
         Before(x, y), Before(y, z)
  PROVE  Before(x, z)
<1>1. \A w \in RowRecords : w.at \in Nat /\ IdOf[w.content] \in Nat
  BY CloudTypesAssumption DEF RowRecords
<1> QED
  BY <1>1 DEF Before

(* A page after those that were seen, all of it beyond the last of them    *)
LEMMA PagesDescend ==
  ASSUME NEW s \in Seq(RowRecords), Descends(s), NEW p \in Seq(RowRecords), Descends(p),
         s # <<>> => \A i \in DOMAIN p : Before(p[i], s[Len(s)])
  PROVE  /\ s \o p \in Seq(RowRecords) /\ Descends(s \o p)
         /\ \A i \in DOMAIN s : \E k \in DOMAIN (s \o p) : (s \o p)[k] = s[i]
         /\ \A i \in DOMAIN p : \E k \in DOMAIN (s \o p) : (s \o p)[k] = p[i]
         /\ p # <<>> => s \o p # <<>> /\ (s \o p)[Len(s \o p)] = p[Len(p)]
<1> DEFINE t == s \o p
           m == Len(s)
           n == Len(p)
<1>1. m \in Nat /\ n \in Nat /\ DOMAIN s = 1 .. m /\ DOMAIN p = 1 .. n
      /\ (s # <<>> <=> m # 0) /\ (p # <<>> <=> n # 0)
  OBVIOUS
<1>2. /\ t \in Seq(RowRecords) /\ Len(t) = m + n
      /\ \A i \in 1 .. m : t[i] = s[i]
      /\ \A i \in m + 1 .. m + n : t[i] = p[i - m]
  OBVIOUS
<1> HIDE DEF t, m, n
<1>3. DOMAIN t = 1 .. m + n
  BY <1>1, <1>2
<1>4. \A i \in 1 .. m : s[i] \in RowRecords /\ i \in DOMAIN s
  BY <1>1
<1>5. \A i \in 1 .. n : p[i] \in RowRecords /\ i \in DOMAIN p
  BY <1>1
<1>6. \A i \in 1 .. n : i + m \in DOMAIN t /\ t[i + m] = p[i]
  BY <1>1, <1>2, <1>3
<1>7. ASSUME NEW i \in DOMAIN t, NEW j \in DOMAIN t, i < j
      PROVE  Before(t[j], t[i])
  <2>1. CASE j <= m
    <3>1. i \in 1 .. m /\ j \in 1 .. m
      BY <1>1, <1>3, <1>7, <2>1
    <3> QED
      BY <1>2, <1>4, <1>7, <3>1 DEF Descends
  <2>2. CASE i > m
    <3>1. i - m \in 1 .. n /\ j - m \in 1 .. n /\ i - m < j - m
          /\ i \in m + 1 .. m + n /\ j \in m + 1 .. m + n
      BY <1>1, <1>3, <1>7, <2>2
    <3> QED
      BY <1>2, <1>5, <3>1 DEF Descends
  <2>3. CASE i <= m /\ j > m
    <3>1. i \in 1 .. m /\ m \in 1 .. m /\ j - m \in 1 .. n /\ j \in m + 1 .. m + n
      BY <1>1, <1>3, <2>3
    <3>2. Before(p[j - m], s[m])
      BY <1>1, <1>5, <3>1 DEF m
    <3>3. i = m \/ Before(s[m], s[i])
      BY <1>4, <3>1 DEF Descends
    <3> QED
      BY <1>2, <1>4, <1>5, <3>1, <3>2, <3>3, BeforeThat
  <2> QED
    BY <1>1, <1>3, <2>1, <2>2, <2>3
<1>8. \A i \in DOMAIN s : i \in DOMAIN t /\ t[i] = s[i]
  BY <1>1, <1>2, <1>3
<1>9. p # <<>> => n \in 1 .. n /\ t # <<>> /\ t[m + n] = p[n]
  <2> SUFFICES ASSUME p # <<>> PROVE n \in 1 .. n /\ t # <<>> /\ t[m + n] = p[n]
    OBVIOUS
  <2>1. n \in 1 .. n /\ m + n # 0
    BY <1>1
  <2>2. t[m + n] = p[n]
    BY <1>1, <1>6, <2>1
  <2> QED
    BY <1>2, <2>1, <2>2
<1> QED
  BY <1>1, <1>2, <1>6, <1>7, <1>8, <1>9 DEF Descends, t, m, n

(* One more page; w is the walk before it, or the walk that begins.        *)
LEMMA PageKeepsWalk ==
  ASSUME TablesInv, NEW w, TakePage(w),
         DOMAIN w = DOMAIN NoWalk,
         w.seen \in Seq(RowRecords), Descends(w.seen),
         w.start \subseteq RowRecords,
         w.seen # <<>> => w.cursor = w.seen[Len(w.seen)] /\ w.cursor # None,
         w.seen = <<>> => w.cursor = None,
         \A x \in w.start :
           /\ Matches(x, w.account, Filter)
           /\ (\E i \in DOMAIN w.seen : w.seen[i] = x) \/ Beyond(x, w.cursor)
  PROVE  WalkInv'
<1> DEFINE s == w.seen
           a == w.account
           cursor == w.cursor
           S == {r \in rows : Matches(r, a, Filter) /\ Beyond(r, cursor)}
           page == SearchAttestations(rows, a, Filter, PageLimit, cursor)
           p == page.rows
           c == page.next
           t == s \o p
<1>1. walk' = [w EXCEPT !.status = IF c = None THEN "done" ELSE "more",
                        !.start = @ \cap rows, !.seen = t, !.cursor = c]
  BY DEF TakePage
<1>2. RowsOK(rows) /\ PageLimit \in Nat \ {0}
  BY ReadersAssumption DEF TablesInv, DataOK
<1>3. /\ s \in Seq(RowRecords) /\ Descends(s)
      /\ s # <<>> => cursor = s[Len(s)] /\ cursor # None
      /\ s = <<>> => cursor = None
      /\ \A x \in w.start : /\ Matches(x, a, Filter)
                            /\ (\E i \in DOMAIN s : s[i] = x) \/ Beyond(x, cursor)
  OBVIOUS
<1> HIDE DEF s, a, cursor
<1>4. /\ p \in Seq(S)
      /\ \A i, j \in DOMAIN p : i < j => Before(p[j], p[i])
      /\ c = None => \A x \in S : \E i \in DOMAIN p : p[i] = x
      /\ c # None => /\ Len(p) = PageLimit /\ c = p[PageLimit]
                     /\ \A x \in S : (\E i \in DOMAIN p : p[i] = x) \/ Before(x, c)
  BY <1>2, SearchFacts
<1> HIDE DEF page, p, c
<1>5. /\ p \in Seq(RowRecords) /\ Descends(p)
      /\ \A i \in DOMAIN p : p[i] \in S /\ Beyond(p[i], cursor)
  <2>1. S \subseteq RowRecords /\ \A x \in S : Beyond(x, cursor)
    BY <1>2 DEF RowsOK, RowRecords
  <2> HIDE DEF S
  <2>2. \A i \in DOMAIN p : p[i] \in S
    BY <1>4
  <2> QED
    BY <1>4, <2>1, <2>2 DEF Descends
<1>6. s # <<>> => \A i \in DOMAIN p : Before(p[i], s[Len(s)])
  BY <1>3, <1>5 DEF Beyond
<1>7. /\ t \in Seq(RowRecords) /\ Descends(t)
      /\ \A i \in DOMAIN s : \E k \in DOMAIN t : t[k] = s[i]
      /\ \A i \in DOMAIN p : \E k \in DOMAIN t : t[k] = p[i]
      /\ p # <<>> => t # <<>> /\ t[Len(t)] = p[Len(p)]
  BY <1>3, <1>5, <1>6, PagesDescend
<1>8. c # None => p # <<>> /\ c = p[Len(p)]
  <2> HIDE DEF S
  <2> QED
    BY <1>2, <1>4
<1> HIDE DEF t
<1>9. ASSUME NEW x \in w.start \cap rows
      PROVE  (\E k \in DOMAIN t : t[k] = x) \/ (c # None /\ Before(x, c))
  <2>1. (\E i \in DOMAIN s : s[i] = x) \/ x \in S
    BY <1>3, <1>9
  <2> HIDE DEF S
  <2> QED
    BY <1>4, <1>7, <2>1
<1> HIDE DEF S
<1>10. /\ walk'.status = IF c = None THEN "done" ELSE "more"
       /\ walk'.start = w.start \cap rows /\ walk'.seen = t /\ walk'.cursor = c
       /\ walk'.account = a /\ DOMAIN walk' = DOMAIN NoWalk
  BY <1>1 DEF NoWalk, a
<1> QED
  BY <1>3, <1>7, <1>8, <1>9, <1>10 DEF WalkInv, Seen

LEMMA WalkInvHolds == CloudSpec => []WalkInv
<1>1. CloudInit => WalkInv
  <2> SUFFICES ASSUME CloudInit PROVE WalkInv
    OBVIOUS
  <2>1. walk = NoWalk
    BY DEF CloudInit, ReadersInit
  <2> QED
    BY <2>1 DEF WalkInv, NoWalk, Descends
<1>2. TablesInv /\ WalkInv /\ [CloudNext]_cloudVars => WalkInv'
  <2> SUFFICES ASSUME TablesInv, WalkInv, [CloudNext]_cloudVars PROVE WalkInv'
    OBVIOUS
  <2>1. CASE UNCHANGED walk
    BY <2>1 DEF WalkInv, Seen
  <2>2. ASSUME NEW a \in Owners, FirstPage(a)
        PROVE  WalkInv'
    <3> DEFINE w == [NoWalk EXCEPT !.account = a, !.start = Found(a)]
    <3>1. TakePage(w)
      BY <2>2 DEF FirstPage
    <3>2. w.account = a /\ w.start = Found(a) /\ w.seen = <<>> /\ w.cursor = None
          /\ DOMAIN w = DOMAIN NoWalk
      BY DEF NoWalk
    <3>3. Found(a) \subseteq RowRecords /\ \A x \in Found(a) : Matches(x, a, Filter)
      BY DEF Found, RowRecords, TablesInv, DataOK, RowsOK
    <3> HIDE DEF w
    <3>4. <<>> \in Seq(RowRecords) /\ Descends(<<>>)
      BY DEF Descends
    <3> QED
      BY <3>1, <3>2, <3>3, <3>4, PageKeepsWalk DEF Beyond
  <2>3. CASE NextPage
    <3>1. walk.status = "more" /\ TakePage(walk)
      BY <2>3 DEF NextPage
    <3>2. walk.cursor # None
      <4>1. walk.cursor \in RowRecords
        <5>1. Len(walk.seen) \in DOMAIN walk.seen
          BY <3>1 DEF WalkInv
        <5> QED
          BY <3>1, <5>1 DEF WalkInv
      <4> QED
        BY <4>1, CloudTypesAssumption DEF RowRecords
    <3> QED
      BY <3>1, <3>2, PageKeepsWalk DEF WalkInv, Seen, Beyond
  <2>4. CASE Reading
    <3>1. ASSUME NEW v,
                 \/ \E l \in DOMAIN links : Open(v, l)
                 \/ \E a \in Owners : Export(v, a) \/ \E id \in Ids : GetOne(v, a, id)
                 \/ Resolve(v) \/ FetchRow(v) \/ FetchBlob(v) \/ ExportLine(v) \/ Answer(v)
          PROVE  UNCHANGED walk
      BY <3>1 DEF Open, Export, GetOne, Resolve, FetchRow, FetchBlob, ExportLine, Answer, Read
    <3>2. ASSUME \/ \E a \in Owners : ShareFilter(a) \/ \E id, jd \in Ids : ShareIds(a, <<id, jd>>)
                 \/ CheckId \/ CreateLink
                 \/ \E a \in Owners, l \in DOMAIN links : Revoke(a, l)
          PROVE  UNCHANGED walk
      BY <3>2 DEF ShareFilter, ShareIds, CheckId, CreateLink, Revoke, Make, readVars
    <3> QED
      BY <2>1, <2>2, <2>3, <2>4, <3>1, <3>2 DEF Reading, ReadersNext
  <2>5. CASE ~Reading
    BY <2>1, <2>5, IngestingFrame, SweepingFrame, ServingFrame, ChargingFrame, TickingFrame
       DEF CloudNext, cloudVars, readVars
  <2> QED
    BY <2>4, <2>5
<1> QED
  BY <1>1, <1>2, TablesInvHolds, PTL DEF CloudSpec

(* However many pages it takes, and whatever is inserted and deleted from  *)
(* one to the next: the client sees each attestation once and newest       *)
(* first, and misses none that matched when it began and that no page      *)
(* found deleted.                                                          *)
THEOREM WalksAreComplete == CloudSpec => []WalkComplete
<1>1. WalkInv => WalkComplete
  BY DEF WalkInv, WalkComplete, Descends, Seen, ToSet
<1> QED
  BY <1>1, WalkInvHolds, PTL

----------------------------------------------------------------------------
(* Pages: t are the links, n is the time.                                  *)
Named(t, r, id) ==
  r.kind = "share" => \E i \in DOMAIN t[r.link].ids : t[r.link].ids[i] = id

Ours(t, r, x) == x \in RowRecords /\ x.account = r.account /\ Named(t, r, IdOf[x.content])

IdsLeft(t, r, ids) == ids \in Seq(Nat) /\ \A i \in DOMAIN ids : Named(t, r, ids[i])

PageOK(t, r) ==
  /\ IsTable(r.page, {"row", "whole"})
  /\ \A i \in DOMAIN r.page : Ours(t, r, r.page[i].row) /\ r.page[i].whole

RowFound(t, r) ==
  \E x, ids : r.todo = <<x>> \o ids /\ Ours(t, r, x) /\ IdsLeft(t, r, ids)

ExportLeft(r) == r.todo \in Seq({x \in RowRecords : x.account = r.account})

ReaderOK(t, n, r) ==
  /\ DOMAIN r = DOMAIN Idle
  /\ r.kind = "share" => r.link \in DOMAIN t
  /\ PageOK(t, r)
  /\ r.status = "resolve" =>
       r.kind = "share" /\ (r.dead => t[r.link].revoked \/ n >= t[r.link].expires)
  /\ r.status = "row" => r.kind # "export" /\ IdsLeft(t, r, r.todo)
  /\ r.status = "blob" => IF r.kind = "export" THEN ExportLeft(r) ELSE RowFound(t, r)
  /\ r.dead => r.status \in {"resolve", "404"}

MakerOK == DOMAIN maker = DOMAIN NoMaker /\ maker.ids \in Seq(Nat)

PagesInv ==
  /\ LinksOK(links)
  /\ MakerOK
  /\ reader = [v \in Reader |-> reader[v]]
  /\ \A v \in Reader : ReaderOK(links, now, reader[v])

(* Who has read what, when links are made and revoked and time passes      *)
LEMMA ReaderStays ==
  ASSUME NEW t, NEW u, LinksOK(t), SameLinks(t, u), NEW n \in Nat, NEW m \in Nat, n <= m,
         NEW r, ReaderOK(t, n, r)
  PROVE  ReaderOK(u, m, r)
<1>1. ASSUME NEW id, Named(t, r, id) PROVE Named(u, r, id)
  BY <1>1 DEF Named, SameLinks, ReaderOK
<1>2. PageOK(u, r)
  BY <1>1 DEF PageOK, Ours, ReaderOK
<1>3. \A ids : IdsLeft(t, r, ids) => IdsLeft(u, r, ids)
  BY <1>1 DEF IdsLeft
<1>4. RowFound(t, r) => RowFound(u, r)
  BY <1>1, <1>3 DEF RowFound, Ours
<1>5. r.status = "resolve" /\ r.dead => u[r.link].revoked \/ m >= u[r.link].expires
  <2> SUFFICES ASSUME r.status = "resolve", r.dead, ~ u[r.link].revoked
               PROVE  m >= u[r.link].expires
    OBVIOUS
  <2>1. r.link \in DOMAIN t
    BY DEF ReaderOK
  <2>2. ~ t[r.link].revoked /\ u[r.link].expires = t[r.link].expires
    BY <2>1 DEF SameLinks
  <2>3. n >= t[r.link].expires
    BY <2>2 DEF ReaderOK
  <2>4. t[r.link].expires \in Int
    BY <2>1 DEF LinksOK
  <2> QED
    BY <2>2, <2>3, <2>4
<1> QED
  BY <1>2, <1>3, <1>4, <1>5 DEF ReaderOK, SameLinks

LEMMA NothingYet ==
  ASSUME NEW t, NEW r, r.page = <<>>
  PROVE  PageOK(t, r)
<1>1. <<>> \in Seq({}) /\ DOMAIN (<<>>) = {}
  OBVIOUS
<1>2. IsTable(<<>>, {"row", "whole"})
  BY <1>1, SeqIsTable
<1> QED
  BY <1>1, <1>2 DEF PageOK

LEMMA TheRest ==
  ASSUME NEW t, NEW r, NEW ids, IdsLeft(t, r, ids), ids # <<>>
  PROVE  IdsLeft(t, r, Tail(ids)) /\ Named(t, r, Head(ids)) /\ Head(ids) \in Nat
<1>1. /\ Tail(ids) \in Seq(Nat) /\ Head(ids) \in Nat /\ Len(Tail(ids)) = Len(ids) - 1
      /\ \A i \in 1 .. Len(Tail(ids)) : Tail(ids)[i] = ids[i + 1]
  BY HeadTailProperties DEF IdsLeft
<1>2. Len(ids) \in Nat \ {0} /\ DOMAIN ids = 1 .. Len(ids) /\ Head(ids) = ids[1]
  BY DEF IdsLeft
<1>3. ASSUME NEW i \in DOMAIN Tail(ids) PROVE Named(t, r, Tail(ids)[i])
  <2>1. i \in 1 .. Len(Tail(ids)) /\ i + 1 \in DOMAIN ids
    BY <1>1, <1>2, <1>3
  <2> QED
    BY <1>1, <2>1 DEF IdsLeft
<1>4. Named(t, r, ids[1])
  BY <1>2 DEF IdsLeft
<1> QED
  BY <1>1, <1>2, <1>3, <1>4 DEF IdsLeft

LEMMA OneThenTheRest ==
  ASSUME NEW x, NEW S, NEW ids \in Seq(S)
  PROVE  LET s == <<x>> \o ids IN s # <<>> /\ Head(s) = x /\ Tail(s) = ids
<1> DEFINE T == S \cup {x}
           s == <<x>> \o ids
<1>1. ids \in Seq(T) /\ <<x>> \in Seq(T)
  OBVIOUS
<1> HIDE DEF T
<1>2. /\ s \in Seq(T) /\ Len(s) = 1 + Len(ids)
      /\ \A i \in 1 .. 1 + Len(ids) : s[i] = IF i <= 1 THEN <<x>>[1] ELSE ids[i - 1]
  <2>1. Len(<<x>>) = 1 /\ \A i \in 1 .. 1 : <<x>>[i] = <<x>>[1]
    OBVIOUS
  <2> QED
    BY <1>1, <2>1, ConcatProperties
<1>3. Len(ids) \in Nat /\ <<x>>[1] = x
  BY <1>1
<1> HIDE DEF s
<1>4. s # <<>>
  BY <1>2, <1>3
<1>5. Head(s) = x
  <2>1. 1 \in 1 .. 1 + Len(ids)
    BY <1>3
  <2> QED
    BY <1>2, <1>3, <1>4, <2>1
<1>6. /\ Tail(s) \in Seq(T) /\ Len(Tail(s)) = Len(s) - 1
      /\ \A i \in 1 .. Len(Tail(s)) : Tail(s)[i] = s[i + 1]
  BY <1>2, <1>4, HeadTailProperties
<1>7. Tail(s) = ids
  <2>1. Len(Tail(s)) = Len(ids)
    BY <1>2, <1>3, <1>6
  <2>2. \A i \in 1 .. Len(ids) : Tail(s)[i] = ids[i]
    BY <1>2, <1>3, <1>6, <2>1
  <2> QED
    BY <1>1, <1>6, <2>1, <2>2, SeqEqual
<1> QED
  BY <1>4, <1>5, <1>7 DEF s

(* A request goes on: it is of the same kind, account and link.            *)
GoesOn(r, q) ==
  /\ DOMAIN q = DOMAIN r
  /\ q.kind = r.kind /\ q.link = r.link /\ q.account = r.account /\ q.dead = r.dead

LEMMA StillNamed ==
  ASSUME NEW t, NEW r, NEW q, GoesOn(r, q)
  PROVE  /\ \A id : Named(t, q, id) <=> Named(t, r, id)
         /\ \A x : Ours(t, q, x) <=> Ours(t, r, x)
         /\ \A ids : IdsLeft(t, q, ids) <=> IdsLeft(t, r, ids)
<1>1. \A id : Named(t, q, id) <=> Named(t, r, id)
  BY DEF Named, GoesOn
<1> QED
  BY <1>1 DEF GoesOn, Ours, IdsLeft

LEMMA SamePage ==
  ASSUME NEW t, NEW r, NEW q, GoesOn(r, q), PageOK(t, r), q.page = r.page
  PROVE  PageOK(t, q)
BY StillNamed DEF PageOK

LEMMA OneMoreShown ==
  ASSUME NEW t, NEW r, NEW q, GoesOn(r, q), PageOK(t, r), NEW x, Ours(t, r, x), Whole(x.content),
         q.page = Append(r.page, Shown(x))
  PROVE  PageOK(t, q)
<1> DEFINE s == Shown(x)
           C == {"row", "whole"}
<1>1. C \subseteq DOMAIN s /\ s.row = x /\ s.whole
  BY DEF Shown
<1>2. IsTable(r.page, C)
  BY DEF PageOK
<1> HIDE DEF s, C
<1>3. /\ IsTable(q.page, C)
      /\ q.page[Len(r.page) + 1] = s
      /\ \A i \in DOMAIN r.page : q.page[i] = r.page[i]
      /\ \A i \in DOMAIN q.page : i \in DOMAIN r.page \/ i = Len(r.page) + 1
  BY <1>1, <1>2, AppendIsTable DEF s
<1>4. ASSUME NEW i \in DOMAIN q.page
      PROVE  Ours(t, q, q.page[i].row) /\ q.page[i].whole
  <2>1. CASE i \in DOMAIN r.page
    BY <1>3, <2>1, StillNamed DEF PageOK
  <2>2. CASE i = Len(r.page) + 1
    BY <1>1, <1>3, <2>2, StillNamed
  <2> QED
    BY <1>3, <2>1, <2>2
<1> QED
  BY <1>3, <1>4 DEF PageOK, C

(* An answer, without more than there was                                  *)
LEMMA AnswerKeeps ==
  ASSUME NEW t, NEW n, NEW r, ReaderOK(t, n, r), NEW status \in {"200", "404", "422"},
         r.dead => status = "404"
  PROVE  ReaderOK(t, n, [r EXCEPT !.status = status])
<1> DEFINE q == [r EXCEPT !.status = status]
<1>1. DOMAIN r = DOMAIN Idle
  BY DEF ReaderOK
<1>2. GoesOn(r, q) /\ q.page = r.page /\ q.status = status
  BY <1>1 DEF GoesOn, Idle
<1> HIDE DEF q
<1>3. PageOK(t, q)
  BY <1>2, SamePage DEF ReaderOK
<1> QED
  BY <1>1, <1>2, <1>3 DEF ReaderOK, GoesOn, q

LEMMA RefusalKeeps ==
  ASSUME NEW t, NEW n, NEW r, ReaderOK(t, n, r), ~ r.dead
  PROVE  ReaderOK(t, n, [r EXCEPT !.status = "422", !.page = <<>>, !.todo = <<>>])
<1> DEFINE q == [r EXCEPT !.status = "422", !.page = <<>>, !.todo = <<>>]
<1>1. DOMAIN r = DOMAIN Idle
  BY DEF ReaderOK
<1>2. GoesOn(r, q) /\ q.page = <<>> /\ q.status = "422"
  BY <1>1 DEF GoesOn, Idle
<1> HIDE DEF q
<1>3. PageOK(t, q)
  BY <1>2, NothingYet
<1> QED
  BY <1>1, <1>2, <1>3 DEF ReaderOK, GoesOn, q

LEMMA RowsKeep ==
  ASSUME NEW t, NEW n, NEW r, ReaderOK(t, n, r), ~ r.dead, NEW q, GoesOn(r, q), PageOK(t, q),
         \/ q.status = "row" /\ q.kind # "export" /\ IdsLeft(t, r, q.todo)
         \/ /\ q.status = "blob" /\ q.kind # "export"
            /\ \E x, ids : q.todo = <<x>> \o ids /\ Ours(t, r, x) /\ IdsLeft(t, r, ids)
         \/ q.status = "blob" /\ q.kind = "export" /\ ExportLeft(q)
  PROVE  ReaderOK(t, n, q)
<1>1. \A ids : IdsLeft(t, r, ids) => IdsLeft(t, q, ids)
  BY StillNamed
<1>2. (\E x, ids : q.todo = <<x>> \o ids /\ Ours(t, r, x) /\ IdsLeft(t, r, ids)) => RowFound(t, q)
  BY StillNamed DEF RowFound
<1> QED
  BY <1>1, <1>2 DEF ReaderOK, GoesOn

LEMMA OpenKeeps ==
  ASSUME NEW v \in Reader, NEW l \in DOMAIN links, Open(v, l), PagesInv
  PROVE  \E q : Read(v, q) /\ ReaderOK(links, now, q)
<1> DEFINE q == [Idle EXCEPT !.kind = "share", !.status = "resolve", !.link = l,
                             !.account = links[l].account, !.dead = Dead(l)]
<1>1. Read(v, q)
  BY DEF Open
<1>2. /\ DOMAIN q = DOMAIN Idle /\ q.kind = "share" /\ q.link = l /\ q.page = <<>>
      /\ q.status = "resolve" /\ (q.dead <=> Dead(l))
  BY DEF Idle
<1> HIDE DEF q
<1>3. PageOK(links, q)
  BY <1>2, NothingYet
<1>4. ReaderOK(links, now, q)
  BY <1>2, <1>3 DEF ReaderOK, Dead
<1> QED
  BY <1>1, <1>4

LEMMA ExportKeeps ==
  ASSUME NEW v \in Reader, NEW a, Export(v, a), TablesInv
  PROVE  \E q : Read(v, q) /\ ReaderOK(links, now, q)
<1> DEFINE l == ListAllAttestations(rows, a)
           q == [Idle EXCEPT !.kind = "export", !.status = "blob", !.account = a, !.todo = l]
           S == {x \in rows : x.account = a}
           T == {x \in RowRecords : x.account = a}
<1>1. Read(v, q)
  BY DEF Export
<1>2. l \in Seq(S)
  BY ListAllFacts DEF TablesInv, DataOK
<1>3. S \subseteq T
  BY DEF TablesInv, DataOK, RowsOK, RowRecords
<1> HIDE DEF l, S, T
<1>4. l \in Seq(T)
  BY <1>2, <1>3
<1>5. /\ DOMAIN q = DOMAIN Idle /\ q.kind = "export" /\ q.page = <<>> /\ q.account = a
      /\ q.status = "blob" /\ q.todo = l /\ q.dead = FALSE
  BY DEF Idle
<1> HIDE DEF q
<1>6. PageOK(links, q)
  BY <1>5, NothingYet
<1>7. ReaderOK(links, now, q)
  BY <1>4, <1>5, <1>6 DEF ReaderOK, ExportLeft, T
<1> QED
  BY <1>1, <1>7

LEMMA GetOneKeeps ==
  ASSUME NEW v \in Reader, NEW a, NEW id \in Ids, GetOne(v, a, id)
  PROVE  \E q : Read(v, q) /\ ReaderOK(links, now, q)
<1> DEFINE q == [Idle EXCEPT !.kind = "get", !.status = "row", !.account = a, !.todo = <<id>>]
<1>1. Read(v, q)
  BY DEF GetOne
<1>2. id \in Nat
  BY CloudTypesAssumption DEF Ids
<1>3. <<id>> \in Seq(Nat)
  BY <1>2
<1>4. /\ DOMAIN q = DOMAIN Idle /\ q.kind = "get" /\ q.page = <<>>
      /\ q.status = "row" /\ q.todo = <<id>> /\ q.dead = FALSE
  BY DEF Idle
<1> HIDE DEF q
<1>5. PageOK(links, q)
  BY <1>4, NothingYet
<1>6. ReaderOK(links, now, q)
  BY <1>3, <1>4, <1>5 DEF ReaderOK, IdsLeft, Named
<1> QED
  BY <1>1, <1>6

LEMMA ResolveKeeps ==
  ASSUME NEW v \in Reader, Resolve(v), PagesInv
  PROVE  \E q : Read(v, q) /\ ReaderOK(links, now, q)
<1> DEFINE r == reader[v]
           k == r.link
           q == [r EXCEPT !.status = "row", !.todo = links[k].ids]
<1>1. ReaderOK(links, now, r) /\ r.status = "resolve" /\ LinksOK(links)
  BY DEF PagesInv, Resolve
<1>2. k \in DOMAIN links /\ r.kind = "share"
  BY <1>1 DEF ReaderOK
<1>3. FetchShareLink(links, k) = {k}
  BY <1>2 DEF FetchShareLink, FetchOptional
<1>4. k # 0
  <2>1. IsTable(links, {"account", "ids", "expires", "revoked"})
    BY <1>1 DEF LinksOK
  <2> QED
    BY <1>2, <2>1, TableFacts
<1>5. Read(v, IF Dead(k) THEN [r EXCEPT !.status = "404"] ELSE q)
  BY <1>3, <1>4 DEF Resolve, Refused, Unresolved
<1>6. CASE Dead(k)
  BY <1>1, <1>5, <1>6, AnswerKeeps
<1>7. CASE ~Dead(k)
  <2>1. ~ r.dead
    BY <1>1, <1>2, <1>7 DEF ReaderOK, Dead
  <2>2. IdsLeft(links, r, links[k].ids)
    BY <1>1, <1>2 DEF IdsLeft, Named, LinksOK
  <2>3. /\ GoesOn(r, q) /\ q.page = r.page /\ q.kind = "share"
        /\ q.status = "row" /\ q.todo = links[k].ids
    BY <1>1, <1>2 DEF ReaderOK, Idle, GoesOn
  <2> HIDE DEF q, r
  <2>4. PageOK(links, q)
    BY <1>1, <2>3, SamePage DEF ReaderOK
  <2>5. ReaderOK(links, now, q)
    BY <1>1, <2>1, <2>2, <2>3, <2>4, RowsKeep
  <2> QED
    BY <1>5, <1>7, <2>5
<1> QED
  BY <1>6, <1>7

LEMMA FetchRowKeeps ==
  ASSUME NEW v \in Reader, FetchRow(v), PagesInv, TablesInv
  PROVE  \E q : Read(v, q) /\ ReaderOK(links, now, q)
<1> DEFINE r == reader[v]
           found == FetchAttestation(rows, r.account, Head(r.todo))
<1>1. ReaderOK(links, now, r) /\ r.status = "row" /\ r.todo # <<>>
  BY DEF PagesInv, FetchRow
<1>2. DOMAIN r = DOMAIN Idle /\ ~ r.dead /\ r.kind # "export" /\ IdsLeft(links, r, r.todo)
      /\ PageOK(links, r)
  BY <1>1 DEF ReaderOK
<1>3. /\ found = {} => Read(v, IF r.kind = "get" THEN [r EXCEPT !.status = "404"]
                               ELSE [r EXCEPT !.todo = Tail(r.todo)])
      /\ found # {} => \E x \in found :
           Read(v, [r EXCEPT !.status = "blob", !.todo = <<x>> \o Tail(r.todo)])
  BY DEF FetchRow
<1>4. \A x \in found : x \in rows /\ x.account = r.account /\ IdOf[x.content] = Head(r.todo)
  BY DEF FetchAttestation, SelectById
<1>5. IdsLeft(links, r, Tail(r.todo)) /\ Named(links, r, Head(r.todo))
  BY <1>1, <1>2, TheRest
<1>6. CASE found = {} /\ r.kind = "get"
  BY <1>1, <1>2, <1>3, <1>6, AnswerKeeps
<1>7. CASE found = {} /\ r.kind # "get"
  <2> DEFINE q == [r EXCEPT !.todo = Tail(r.todo)]
  <2>1. GoesOn(r, q) /\ q.page = r.page /\ q.status = "row" /\ q.todo = Tail(r.todo)
    BY <1>1, <1>2 DEF GoesOn, Idle
  <2>2. Read(v, q)
    BY <1>3, <1>7
  <2> HIDE DEF q, r
  <2>3. PageOK(links, q)
    BY <1>2, <2>1, SamePage
  <2>4. ReaderOK(links, now, q)
    BY <1>1, <1>2, <1>5, <2>1, <2>3, RowsKeep DEF GoesOn
  <2> QED
    BY <2>2, <2>4
<1>8. CASE found # {}
  <2> DEFINE q(x) == [r EXCEPT !.status = "blob", !.todo = <<x>> \o Tail(r.todo)]
  <2>1. PICK x \in found : Read(v, q(x))
    BY <1>3, <1>8
  <2>2. /\ GoesOn(r, q(x)) /\ q(x).page = r.page /\ q(x).status = "blob"
        /\ q(x).todo = <<x>> \o Tail(r.todo)
    BY <1>1, <1>2 DEF GoesOn, Idle
  <2>3. Ours(links, r, x)
    BY <1>4, <1>5 DEF Ours, RowRecords, TablesInv, DataOK, RowsOK
  <2> HIDE DEF q, r
  <2>4. PageOK(links, q(x))
    BY <1>2, <2>2, SamePage
  <2>5. q(x).kind # "export"
    BY <1>2, <2>2 DEF GoesOn
  <2>6. ReaderOK(links, now, q(x))
    BY <1>1, <1>2, <1>5, <2>2, <2>3, <2>4, <2>5, RowsKeep
  <2> QED
    BY <2>1, <2>6
<1> QED
  BY <1>6, <1>7, <1>8

LEMMA FetchBlobKeeps ==
  ASSUME NEW v \in Reader, FetchBlob(v), PagesInv
  PROVE  \E q : Read(v, q) /\ ReaderOK(links, now, q)
<1> DEFINE r == reader[v]
           x == Head(r.todo)
           q == [r EXCEPT !.page = Append(r.page, Shown(x)), !.todo = Tail(r.todo), !.status = "row"]
<1>1. ReaderOK(links, now, r) /\ r.status = "blob" /\ r.kind # "export"
  BY DEF PagesInv, FetchBlob
<1>2. DOMAIN r = DOMAIN Idle /\ ~ r.dead /\ RowFound(links, r) /\ PageOK(links, r)
  BY <1>1 DEF ReaderOK
<1>3. Read(v, IF BlobVerifies(x.content) THEN q
              ELSE [r EXCEPT !.status = "422", !.page = <<>>, !.todo = <<>>])
  BY DEF FetchBlob
<1>4. Ours(links, r, x) /\ IdsLeft(links, r, Tail(r.todo))
  <2>1. PICK y, ids : r.todo = <<y>> \o ids /\ Ours(links, r, y) /\ IdsLeft(links, r, ids)
    BY <1>2 DEF RowFound
  <2>2. ids \in Seq(Nat)
    BY <2>1 DEF IdsLeft
  <2>3. x = y /\ Tail(r.todo) = ids
    BY <2>1, <2>2, OneThenTheRest
  <2> HIDE DEF r, x
  <2> QED
    BY <2>1, <2>3
<1>5. CASE ~BlobVerifies(x.content)
  BY <1>1, <1>2, <1>3, <1>5, RefusalKeeps
<1>6. CASE BlobVerifies(x.content)
  <2>1. /\ GoesOn(r, q) /\ q.page = Append(r.page, Shown(x)) /\ q.status = "row"
        /\ q.todo = Tail(r.todo)
    BY <1>2 DEF GoesOn, Idle
  <2>2. Read(v, q)
    BY <1>3, <1>6
  <2> HIDE DEF q, r, x
  <2>3. PageOK(links, q)
    BY <1>2, <1>4, <1>6, <2>1, OneMoreShown DEF BlobVerifies
  <2>4. ReaderOK(links, now, q)
    BY <1>1, <1>2, <1>4, <2>1, <2>3, RowsKeep DEF GoesOn
  <2> QED
    BY <2>2, <2>4
<1> QED
  BY <1>5, <1>6

LEMMA ExportLineKeeps ==
  ASSUME NEW v \in Reader, ExportLine(v), PagesInv
  PROVE  \E q : Read(v, q) /\ ReaderOK(links, now, q)
<1> DEFINE r == reader[v]
           x == Head(r.todo)
           p == IF BlobVerifies(x.content) THEN Append(r.page, Shown(x)) ELSE r.page
           q == [r EXCEPT !.todo = Tail(r.todo), !.page = p]
<1>1. ReaderOK(links, now, r) /\ r.status = "blob" /\ r.kind = "export" /\ r.todo # <<>>
  BY DEF PagesInv, ExportLine
<1>2. DOMAIN r = DOMAIN Idle /\ ~ r.dead /\ ExportLeft(r) /\ PageOK(links, r)
  BY <1>1 DEF ReaderOK
<1>3. Read(v, q)
  BY DEF ExportLine
<1>4. /\ x \in RowRecords /\ x.account = r.account
      /\ Tail(r.todo) \in Seq({y \in RowRecords : y.account = r.account})
  <2> DEFINE S == {y \in RowRecords : y.account = r.account}
  <2>1. r.todo \in Seq(S)
    BY <1>2 DEF ExportLeft
  <2> HIDE DEF S
  <2>2. Head(r.todo) \in S /\ Tail(r.todo) \in Seq(S)
    BY <1>1, <2>1, HeadTailProperties
  <2> QED
    BY <2>2 DEF S
<1>5. Ours(links, r, x)
  BY <1>1, <1>4 DEF Ours, Named
<1> HIDE DEF p
<1>6. /\ GoesOn(r, q) /\ q.page = p /\ q.status = "blob" /\ q.todo = Tail(r.todo)
  BY <1>1, <1>2 DEF GoesOn, Idle
<1> HIDE DEF q, r, x
<1>7. PageOK(links, q)
  <2>1. CASE BlobVerifies(x.content)
    BY <1>2, <1>5, <1>6, <2>1, OneMoreShown DEF BlobVerifies, p
  <2>2. CASE ~BlobVerifies(x.content)
    BY <1>2, <1>6, <2>2, SamePage DEF p
  <2> QED
    BY <2>1, <2>2
<1>8. ExportLeft(q) /\ q.kind = "export"
  BY <1>1, <1>4, <1>6 DEF ExportLeft, GoesOn
<1>9. ReaderOK(links, now, q)
  BY <1>1, <1>2, <1>6, <1>7, <1>8, RowsKeep
<1> QED
  BY <1>3, <1>9

(* One request reads; the others are where they were.                      *)
LEMMA ReadersKeep ==
  ASSUME PagesInv, NEW v \in Reader, \E q : Read(v, q) /\ ReaderOK(links, now, q), UNCHANGED now
  PROVE  PagesInv'
<1>1. PICK q : Read(v, q) /\ ReaderOK(links, now, q)
  OBVIOUS
<1>2. reader' = [reader EXCEPT ![v] = q] /\ UNCHANGED <<maker, links>>
  BY <1>1 DEF Read, tables
<1>3. reader' = [w \in Reader |-> reader'[w]]
      /\ reader'[v] = q /\ \A w \in Reader : w # v => reader'[w] = reader[w]
  BY <1>2 DEF PagesInv
<1> QED
  BY <1>1, <1>2, <1>3 DEF PagesInv, MakerOK

(* The maker's list of ids, which becomes that of a link                   *)
LEMMA ShareIdsKeeps ==
  ASSUME PagesInv, UNCHANGED now, NEW a, NEW id \in Ids, NEW jd \in Ids, ShareIds(a, <<id, jd>>)
  PROVE  PagesInv'
<1>1. maker' = [status |-> "check", account |-> a, ids |-> <<id, jd>>, checked |-> {}]
      /\ UNCHANGED <<reader, links>>
  BY DEF ShareIds, Make, tables
<1>2. <<id, jd>> \in Seq(Nat)
  <2>1. id \in Nat /\ jd \in Nat
    BY CloudTypesAssumption DEF Ids
  <2> QED
    BY <2>1
<1>3. MakerOK'
  BY <1>1, <1>2 DEF MakerOK, NoMaker
<1> QED
  BY <1>1, <1>3 DEF PagesInv

LEMMA ShareFilterKeeps ==
  ASSUME PagesInv, TablesInv, UNCHANGED now, NEW a, ShareFilter(a)
  PROVE  PagesInv'
<1>0. PICK cursor : cursor = None
  OBVIOUS
<1> DEFINE S == {r \in rows : Matches(r, a, Filter) /\ Beyond(r, cursor)}
           answer == SearchAttestations(rows, a, Filter, ShareLimit, cursor)
           page == answer.rows
           ids == [i \in DOMAIN page |-> IdOf[page[i].content]]
<1>1. maker' = [status |-> "check", account |-> a, ids |-> ids, checked |-> ToSet(ids)]
      /\ UNCHANGED <<reader, links>>
  BY <1>0 DEF ShareFilter, Make, tables
<1>2. page \in Seq(S)
  <2>1. RowsOK(rows) /\ ShareLimit \in Nat \ {0}
    BY ReadersAssumption DEF TablesInv, DataOK
  <2> DEFINE c == answer.next
  <2>2. /\ page \in Seq(S)
        /\ \A i, j \in DOMAIN page : i < j => Before(page[j], page[i])
        /\ c = None => \A x \in S : \E i \in DOMAIN page : page[i] = x
        /\ c # None => /\ Len(page) = ShareLimit /\ c = page[ShareLimit]
                       /\ \A x \in S : (\E i \in DOMAIN page : page[i] = x) \/ Before(x, c)
    BY <2>1, SearchFacts
  <2> QED
    BY <2>2
<1>3. \A x \in S : IdOf[x.content] \in Nat
  BY RowFacts DEF TablesInv, DataOK
<1> HIDE DEF S, answer, page
<1>4. ids \in Seq(Nat)
  <2>1. Len(page) \in Nat /\ DOMAIN page = 1 .. Len(page) /\ \A i \in 1 .. Len(page) : page[i] \in S
    BY <1>2
  <2> QED
    BY <1>3, <2>1
<1> HIDE DEF ids
<1>5. MakerOK'
  BY <1>1, <1>4 DEF MakerOK, NoMaker
<1> QED
  BY <1>1, <1>5 DEF PagesInv

LEMMA CheckIdKeeps ==
  ASSUME PagesInv, UNCHANGED now, CheckId
  PROVE  PagesInv'
<1>1. UNCHANGED <<reader, links>>
      /\ (maker' = NoMaker \/ \E id : maker' = [maker EXCEPT !.checked = @ \cup {id}])
  BY DEF CheckId, Make, tables
<1>2. CASE maker' = NoMaker
  BY <1>1, <1>2 DEF MakerOK, NoMaker, PagesInv
<1>3. CASE \E id : maker' = [maker EXCEPT !.checked = @ \cup {id}]
  <2>1. DOMAIN maker = DOMAIN NoMaker /\ maker.ids \in Seq(Nat)
    BY DEF PagesInv, MakerOK
  <2>2. DOMAIN maker' = DOMAIN maker /\ maker'.ids = maker.ids
    BY <1>3, <2>1 DEF NoMaker
  <2> QED
    BY <1>1, <2>1, <2>2 DEF MakerOK, PagesInv
<1> QED
  BY <1>1, <1>2, <1>3

(* The links grow, and the clock moves on.                                 *)
LEMMA LinksKeep ==
  ASSUME PagesInv, TablesInv, LinksOK(links'), SameLinks(links, links'), MakerOK',
         now' \in Nat, now <= now', UNCHANGED reader
  PROVE  PagesInv'
BY ReaderStays DEF PagesInv, TablesInv, DataOK

LEMMA CreateLinkStep ==
  ASSUME PagesInv, TablesInv, UNCHANGED now, CreateLink
  PROVE  PagesInv'
<1> DEFINE e == now + LinkDays * DayLength
<1>1. links' = CreateShareLink(links, NewLink(maker.account, maker.ids, e))
      /\ maker' = NoMaker /\ UNCHANGED reader
  BY DEF CreateLink
<1>2. now \in Nat /\ e \in Int
  <2>1. LinkDays \in Nat /\ DayLength \in Nat /\ now \in Nat
    BY ReadersAssumption, CloudTypesAssumption DEF TablesInv, DataOK
  <2> QED
    BY <2>1
<1>3. maker.ids \in Seq(Nat) /\ LinksOK(links)
  BY DEF PagesInv, MakerOK
<1> HIDE DEF e
<1>4. LinksOK(links') /\ SameLinks(links, links')
  BY <1>1, <1>2, <1>3, CreateLinkKeeps
<1>5. MakerOK'
  BY <1>1 DEF MakerOK, NoMaker
<1> QED
  BY <1>1, <1>2, <1>4, <1>5, LinksKeep

LEMMA RevokeLinkStep ==
  ASSUME PagesInv, TablesInv, UNCHANGED now, NEW a, NEW l, Revoke(a, l)
  PROVE  PagesInv'
<1>1. links' = RevokeShareLink(links, a, l).links /\ UNCHANGED <<reader, maker>>
  BY DEF Revoke, readVars
<1>2. now \in Nat /\ LinksOK(links)
  BY DEF TablesInv, DataOK, PagesInv
<1>3. LinksOK(links') /\ SameLinks(links, links')
  BY <1>1, <1>2, RevokeLinkKeeps
<1>4. MakerOK'
  BY <1>1 DEF MakerOK, PagesInv
<1> QED
  BY <1>1, <1>2, <1>3, <1>4, LinksKeep

LEMMA PagesInvHolds == CloudSpec => []PagesInv
<1>1. CloudInit => PagesInv
  <2> SUFFICES ASSUME CloudInit PROVE PagesInv
    OBVIOUS
  <2>1. LinksOK(links)
    BY ScenesAssumption DEF CloudInit, TablesInit
  <2>2. reader = [v \in Reader |-> Idle] /\ maker = NoMaker
    BY DEF CloudInit, ReadersInit
  <2>3. Idle.page = <<>>
    BY DEF Idle
  <2>4. PageOK(links, Idle)
    BY <2>3, NothingYet
  <2>5. ReaderOK(links, now, Idle)
    BY <2>4 DEF ReaderOK, Idle
  <2>6. MakerOK
    BY <2>2 DEF MakerOK, NoMaker
  <2> QED
    BY <2>1, <2>2, <2>5, <2>6 DEF PagesInv
<1>2. TablesInv /\ PagesInv /\ [CloudNext]_cloudVars => PagesInv'
  <2> SUFFICES ASSUME TablesInv, PagesInv, [CloudNext]_cloudVars PROVE PagesInv'
    OBVIOUS
  <2>1. CASE Reading
    <3>1. UNCHANGED now
      BY <2>1, ReadingFrame
    <3>2. ASSUME NEW v \in Reader,
                 \/ \E l \in DOMAIN links : Open(v, l)
                 \/ \E a \in Owners : Export(v, a) \/ \E id \in Ids : GetOne(v, a, id)
                 \/ Resolve(v) \/ FetchRow(v) \/ FetchBlob(v) \/ ExportLine(v)
          PROVE  PagesInv'
      <4>1. \E q : Read(v, q) /\ ReaderOK(links, now, q)
        BY <3>2, OpenKeeps, ExportKeeps, GetOneKeeps, ResolveKeeps, FetchRowKeeps, FetchBlobKeeps,
           ExportLineKeeps
      <4> QED
        BY <3>1, <4>1, ReadersKeep
    <3>3. ASSUME NEW v \in Reader, Answer(v)
          PROVE  PagesInv'
      <4>1. ReaderOK(links, now, reader[v]) /\ ~ reader[v].dead
        BY <3>3 DEF PagesInv, ReaderOK, Answer
      <4>2. Read(v, [reader[v] EXCEPT !.status = "200"])
        BY <3>3 DEF Answer
      <4>3. \E q : Read(v, q) /\ ReaderOK(links, now, q)
        BY <4>1, <4>2, AnswerKeeps
      <4> QED
        BY <3>1, <4>3, ReadersKeep
    <3>4. ASSUME NextPage \/ \E a \in Owners : FirstPage(a)
          PROVE  PagesInv'
      <4>1. UNCHANGED <<links, reader, maker>>
        BY <3>4 DEF NextPage, FirstPage, TakePage, tables
      <4> QED
        BY <3>1, <4>1 DEF PagesInv, MakerOK
    <3> QED
      BY <2>1, <3>1, <3>2, <3>3, <3>4, ShareFilterKeeps, ShareIdsKeeps, CheckIdKeeps,
         CreateLinkStep, RevokeLinkStep DEF Reading, ReadersNext
  <2>2. CASE ~Reading
    <3>1. UNCHANGED <<links, reader, maker>> /\ (now' = now \/ now' = now + 1)
      BY <2>2, IngestingFrame, SweepingFrame, ServingFrame, ChargingFrame, TickingFrame
         DEF CloudNext, cloudVars, tables, readVars
    <3>2. now' \in Nat /\ now <= now'
      BY <3>1 DEF TablesInv, DataOK
    <3>3. LinksOK(links') /\ SameLinks(links, links') /\ MakerOK'
      BY <3>1 DEF PagesInv, SameLinks, MakerOK
    <3> QED
      BY <3>1, <3>2, <3>3, LinksKeep
  <2> QED
    BY <2>1, <2>2
<1> QED
  BY <1>1, <1>2, TablesInvHolds, PTL DEF CloudSpec

(* Whatever is inserted, deleted, made and revoked between the statements  *)
(* of a request: what it shows is its account's, was whole when it was     *)
(* shown and, through a link, is named by the link; and a link that was    *)
(* dead when the request came shows nothing.                               *)
THEOREM PagesAreSound == CloudSpec => []PagesSound
<1>1. PagesInv => PagesSound
  <2> SUFFICES ASSUME PagesInv, NEW v \in Reader
               PROVE  LET r == reader[v] IN
                      /\ \A i \in DOMAIN r.page :
                           /\ r.page[i].row.account = r.account
                           /\ r.page[i].whole
                           /\ r.kind = "share" =>
                                IdOf[r.page[i].row.content] \in ToSet(links[r.link].ids)
                      /\ r.dead => r.status \in {"resolve", "404"}
    BY DEF PagesSound
  <2> QED
    BY DEF PagesInv, ReaderOK, PageOK, Ours, Named, ToSet
<1> QED
  BY <1>1, PagesInvHolds, PTL
----------------------------------------------------------------------------
(* What CloudTypeOK says beyond the invariants above                       *)
WritersOpen == \A r \in Posted : pc[r] \in {"write", "rename"} => open[r] # None

FilesInv == full \subseteq Files /\ suspect \subseteq Contents /\ WritersOpen

AttemptsInv ==
  /\ \A k \in Clients : /\ sink[k].attempt <= MaxAttempts[k]
                        /\ sink[k].attempt = 0 => sink[k].status = "idle"
  /\ \A r \in Posted : pc[r] = "none" => r[2] > sink[r[1]].attempt

SweepStates == sweep.status \in {"asleep", "delete", "mark"} /\ errors \in 0 .. MaxErrors

ReaderStates ==
  \A v \in Reader :
    /\ reader[v].status \in {"idle", "resolve", "row", "blob", "200", "404", "422"}
    /\ reader[v].dead => reader[v].kind = "share"

WalkStates == walk.status \in {"idle", "more", "done"} /\ (walk.status = "more" <=> walk.cursor # None)

MakerStates == maker.status \in {"idle", "check"} /\ maker.checked \subseteq ToSet(maker.ids)

TriesInv == \A e \in Events : hook[e].tries <= MaxDeliveries

StatesInv ==
  /\ FilesInv /\ AttemptsInv /\ SweepStates
  /\ ReaderStates /\ WalkStates /\ MakerStates /\ TriesInv

LEMMA PutStep ==
  ASSUME BlobInv, FilesInv, AttemptsInv, UNCHANGED sink,
         NEW r \in Posted, pc[r] # "none", NEW point \in Points \ {"none"}, GoTo(r, point),
         \/ UNCHANGED <<full, suspect, open>> /\ point \notin {"write", "rename"}
         \/ Abandon(r) /\ point \notin {"write", "rename"}
         \/ RenameTmp(r, Content(r)) /\ point \notin {"write", "rename"}
         \/ CreateTmp(r, Content(r), Writers(Content(r)) # {})
         \/ WriteAll(r) /\ pc[r] = "write"
  PROVE  FilesInv' /\ AttemptsInv'
<1>1. pc'[r] = point /\ \A q \in Posted : q # r => pc'[q] = pc[q]
  BY DEF GoTo, BlobInv, SinkOK
<1>2. r \in Requests /\ Content(r) \in Contents /\ None \notin Requests
  BY PostedFacts
<1>3. AttemptsInv'
  BY <1>1 DEF AttemptsInv
<1>4. open \in [Requests -> Requests \cup {None}]
  BY DEF BlobInv, BlobTypes
<1>5. /\ full' \subseteq Files /\ suspect' \subseteq Contents
      /\ \A q \in Posted : q # r => open'[q] = open[q]
      /\ point \in {"write", "rename"} => open'[r] # None
  <2>1. CASE UNCHANGED <<full, suspect, open>> /\ point \notin {"write", "rename"}
    BY <2>1 DEF FilesInv
  <2>2. CASE (Abandon(r) \/ RenameTmp(r, Content(r))) /\ point \notin {"write", "rename"}
    BY <1>2, <1>4, <2>2, PostedFacts DEF Abandon, RenameTmp, Close, FilesInv
  <2>3. CASE CreateTmp(r, Content(r), Writers(Content(r)) # {})
    <3> DEFINE c == Content(r)
               f == IF tmp[c] = None THEN r ELSE tmp[c]
    <3>1. f # None
      BY <1>2
    <3>2. /\ open' = [open EXCEPT ![r] = f] /\ full' \subseteq full
          /\ suspect' \subseteq suspect \cup {c}
      BY <2>3 DEF CreateTmp
    <3> QED
      BY <1>2, <1>4, <3>1, <3>2, PostedFacts DEF FilesInv
  <2>4. CASE WriteAll(r) /\ pc[r] = "write"
    <3>1. open[r] # None /\ open[r] \in Requests
      BY <1>2, <1>4, <2>4 DEF FilesInv, WritersOpen
    <3> QED
      BY <2>4, <3>1 DEF WriteAll, FilesInv, Files
  <2> QED
    BY <2>1, <2>2, <2>3, <2>4
<1>6. WritersOpen'
  BY <1>1, <1>5 DEF FilesInv, WritersOpen
<1> QED
  BY <1>3, <1>5, <1>6 DEF FilesInv

LEMMA SendStep ==
  ASSUME BlobInv, FilesInv, AttemptsInv,
         NEW k \in Clients, NEW n \in 1 .. MaxAttempts[k], n = sink[k].attempt + 1, Send(k, n)
  PROVE  FilesInv' /\ AttemptsInv'
<1> DEFINE q == <<k, n>>
<1>1. /\ q \in Posted /\ q[1] = k /\ q[2] = n
      /\ sink[k].attempt \in Nat /\ MaxAttempts[k] \in Nat
  BY PostedFacts, IngestAssumption DEF BlobInv, SinkOK
<1>2. PICK h \in {"exists", "422"} : pc' = [pc EXCEPT ![q] = h]
  BY DEF Send, GoTo
<1>3. /\ sink' = [sink EXCEPT ![k] = [status |-> "waiting", attempt |-> n]]
      /\ UNCHANGED <<full, suspect, open>>
  BY DEF Send, blobVars
<1> HIDE DEF q
<1>4. pc'[q] = h /\ \A r \in Posted : r # q => pc'[r] = pc[r]
  BY <1>1, <1>2 DEF BlobInv, SinkOK
<1>5. sink'[k].status = "waiting" /\ sink'[k].attempt = n
      /\ \A j \in Clients : j # k => sink'[j] = sink[j]
  BY <1>3 DEF BlobInv, SinkOK
<1>6. FilesInv'
  BY <1>3, <1>4 DEF FilesInv, WritersOpen
<1>7. \A j \in Clients : /\ sink'[j].attempt <= MaxAttempts[j]
                         /\ sink'[j].attempt = 0 => sink'[j].status = "idle"
  BY <1>1, <1>5 DEF AttemptsInv
<1>8. ASSUME NEW r \in Posted, pc'[r] = "none" PROVE r[2] > sink'[r[1]].attempt
  <2>1. r # q /\ pc[r] = "none" /\ r[1] \in Clients /\ r[2] \in Nat
    BY <1>4, <1>8, PostedFacts
  <2>2. r[2] > sink[r[1]].attempt
    BY <2>1 DEF AttemptsInv
  <2>3. r[1] = k => r[2] # n
    BY <1>1, <2>1, PostedFacts DEF q
  <2> QED
    BY <1>1, <1>5, <2>1, <2>2, <2>3
<1> QED
  BY <1>6, <1>7, <1>8 DEF AttemptsInv

LEMMA IngestStates ==
  ASSUME BlobInv, FilesInv, AttemptsInv, IngestNext
  PROVE  FilesInv' /\ AttemptsInv'
<1>1. ASSUME NEW k \in Clients, Emit(k) \/ Return(k) \/ Rejected(k) \/ TryAgain(k) \/ GiveUp(k)
      PROVE  FilesInv' /\ AttemptsInv'
  <2>1. /\ MaxAttempts[k] \in Nat \ {0} /\ sink[k].attempt \in Nat
        /\ sink[k].status = "idle" => sink[k].attempt = 0
        /\ sink[k].attempt = 0 => sink[k].status = "idle"
    BY IngestAssumption DEF BlobInv, SinkOK, AttemptsInv
  <2>2. CASE Emit(k)
    BY <2>1, <2>2, SendStep DEF Emit
  <2>3. CASE TryAgain(k)
    BY <2>1, <2>3, SendStep DEF TryAgain
  <2>4. CASE Return(k) \/ Rejected(k) \/ GiveUp(k)
    <3>1. PICK status : Settle(k, status) /\ sink[k].status = "waiting"
      BY <2>4 DEF Return, Rejected, GiveUp
    <3>2. UNCHANGED <<pc, full, suspect, open>> /\ sink' = [sink EXCEPT ![k].status = status]
      BY <3>1 DEF Settle, blobVars
    <3>3. \A j \in Clients : /\ sink'[j].attempt = sink[j].attempt
                             /\ j # k => sink'[j] = sink[j]
      BY <3>2 DEF BlobInv, SinkOK
    <3>4. sink[k].attempt # 0
      BY <2>1, <3>1
    <3>5. \A r \in Posted : r[1] \in Clients
      BY PostedFacts
    <3> QED
      BY <3>2, <3>3, <3>4, <3>5 DEF FilesInv, AttemptsInv, WritersOpen
  <2> QED
    BY <1>1, <2>2, <2>3, <2>4
<1>2. ASSUME NEW r \in Posted,
             \/ TryExists(r) \/ Create(r) \/ Write(r) \/ Rename(r) \/ RenameFails(r)
             \/ Insert(r) \/ Select(r) \/ Meter(r) \/ Fail(r)
      PROVE  FilesInv' /\ AttemptsInv'
  <2>1. UNCHANGED sink /\ pc[r] # "none"
    BY <1>2 DEF TryExists, Create, Write, Rename, RenameFails, Insert, Select, Meter, Fail, InFlight,
                Ended
  <2>2. \E point \in Points \ {"none"} :
          /\ GoTo(r, point)
          /\ \/ UNCHANGED <<full, suspect, open>> /\ point \notin {"write", "rename"}
             \/ Abandon(r) /\ point \notin {"write", "rename"}
             \/ RenameTmp(r, Content(r)) /\ point \notin {"write", "rename"}
             \/ CreateTmp(r, Content(r), Writers(Content(r)) # {})
             \/ WriteAll(r) /\ pc[r] = "write"
    <3>0. {"insert", "create", "write", "rename", "failed", "select", "meter", "200", "201"}
            \subseteq Points \ {"none"}
      BY DEF Points, Put, Ended
    <3>1. CASE TryExists(r)
      BY <3>0, <3>1 DEF TryExists, blobVars
    <3>2. CASE Create(r)
      BY <3>0, <3>2 DEF Create
    <3>3. CASE Write(r)
      BY <3>0, <3>3 DEF Write
    <3>4. CASE Rename(r)
      BY <3>0, <3>4 DEF Rename
    <3>5. CASE RenameFails(r) \/ Fail(r)
      BY <3>0, <3>5 DEF RenameFails, Fail
    <3>6. CASE Insert(r)
      BY <3>0, <3>6 DEF Insert, blobVars
    <3>7. CASE Select(r)
      BY <3>0, <3>7 DEF Select, Outcome, blobVars
    <3>8. CASE Meter(r)
      BY <3>0, <3>8 DEF Meter, blobVars
    <3> QED
      BY <1>2, <3>1, <3>2, <3>3, <3>4, <3>5, <3>6, <3>7, <3>8
  <2> QED
    BY <2>1, <2>2, PutStep
<1> QED
  BY <1>1, <1>2 DEF IngestNext

LEMMA ReadStates ==
  ASSUME PagesInv, ReaderStates, NEW v \in Reader,
         \/ \E l \in DOMAIN links : Open(v, l)
         \/ \E a \in Owners : Export(v, a) \/ \E id \in Ids : GetOne(v, a, id)
         \/ Resolve(v) \/ FetchRow(v) \/ FetchBlob(v) \/ ExportLine(v) \/ Answer(v)
  PROVE  ReaderStates'
<1> DEFINE Told(q) == /\ q.status \in {"idle", "resolve", "row", "blob", "200", "404", "422"}
                      /\ q.dead => q.kind = "share"
<1> HIDE DEF Told
<1>1. reader = [u \in Reader |-> reader[u]] /\ \A u \in Reader : Told(reader[u])
  BY DEF PagesInv, ReaderStates, Told
<1>2. DOMAIN reader[v] = DOMAIN Idle
  BY DEF PagesInv, ReaderOK
<1>3. \E q : Read(v, q) /\ Told(q)
  <2>1. CASE \E l \in DOMAIN links : Open(v, l)
    <3>1. PICK l, a, d : Read(v, [Idle EXCEPT !.kind = "share", !.status = "resolve", !.link = l,
                                              !.account = a, !.dead = d])
      BY <2>1 DEF Open
    <3>2. Told([Idle EXCEPT !.kind = "share", !.status = "resolve", !.link = l,
                            !.account = a, !.dead = d])
      BY DEF Told, Idle
    <3> QED
      BY <3>1, <3>2
  <2>2. CASE \E a \in Owners : Export(v, a) \/ \E id \in Ids : GetOne(v, a, id)
    <3>1. ASSUME NEW kind, NEW status \in {"row", "blob"}, NEW a, NEW ids
          PROVE  Told([Idle EXCEPT !.kind = kind, !.status = status, !.account = a, !.todo = ids])
      BY DEF Told, Idle
    <3>2. CASE \E a \in Owners : Export(v, a)
      BY <3>1, <3>2 DEF Export
    <3>3. CASE \E a \in Owners : \E id \in Ids : GetOne(v, a, id)
      <4>1. PICK a, ids : Read(v, [Idle EXCEPT !.kind = "get", !.status = "row", !.account = a,
                                               !.todo = ids])
        BY <3>3 DEF GetOne
      <4>2. Told([Idle EXCEPT !.kind = "get", !.status = "row", !.account = a, !.todo = ids])
        BY <3>1
      <4> QED
        BY <4>1, <4>2
    <3> QED
      BY <2>2, <3>2, <3>3
  <2>3. ASSUME NEW q, DOMAIN q = DOMAIN Idle, q.kind = reader[v].kind, q.dead = reader[v].dead,
               q.status \in {"row", "blob", "200", "404", "422"}
        PROVE  Told(q)
    BY <1>1, <2>3 DEF Told
  <2>4. CASE Resolve(v)
    <3>1. \E q : Read(v, q) /\ (\/ q = [reader[v] EXCEPT !.status = "404"]
                                \/ \E ids : q = [reader[v] EXCEPT !.status = "row", !.todo = ids])
      BY <2>4 DEF Resolve
    <3> QED
      BY <1>2, <2>3, <3>1 DEF Idle
  <2>5. CASE FetchRow(v)
    <3>1. \E q : Read(v, q) /\ (\/ q = [reader[v] EXCEPT !.status = "404"]
                                \/ \E ids : q = [reader[v] EXCEPT !.todo = ids]
                                \/ \E ids : q = [reader[v] EXCEPT !.status = "blob", !.todo = ids])
          /\ reader[v].status = "row"
      BY <2>5 DEF FetchRow
    <3> QED
      BY <1>2, <2>3, <3>1 DEF Idle
  <2>6. CASE FetchBlob(v)
    <3> DEFINE r == reader[v]
               p == Append(r.page, Shown(Head(r.todo)))
               shown == [r EXCEPT !.page = p, !.todo = Tail(r.todo), !.status = "row"]
               banner == [r EXCEPT !.status = "422", !.page = <<>>, !.todo = <<>>]
    <3>1. Read(v, shown) \/ Read(v, banner)
      BY <2>6 DEF FetchBlob
    <3>2. Told(shown) /\ Told(banner)
      BY <1>2, <2>3 DEF Idle
    <3> HIDE DEF shown, banner
    <3> QED
      BY <3>1, <3>2
  <2>7. CASE ExportLine(v)
    <3>1. \E q, p, ids : Read(v, q) /\ q = [reader[v] EXCEPT !.todo = ids, !.page = p]
      BY <2>7 DEF ExportLine
    <3>2. reader[v].status = "blob"
      BY <2>7 DEF ExportLine
    <3> QED
      BY <1>2, <2>3, <3>1, <3>2 DEF Idle
  <2>8. CASE Answer(v)
    BY <1>2, <2>3, <2>8 DEF Answer, Idle
  <2> QED
    BY <2>1, <2>2, <2>4, <2>5, <2>6, <2>7, <2>8
<1>4. \A u \in Reader : Told(reader'[u])
  BY <1>1, <1>3 DEF Read
<1> QED
  BY <1>4 DEF ReaderStates, Told

LEMMA ReadingStates ==
  ASSUME PagesInv, WalkInv, ReaderStates, WalkStates, MakerStates, ReadersNext
  PROVE  ReaderStates' /\ WalkStates' /\ MakerStates'
<1>1. ASSUME NEW v \in Reader,
             \/ \E l \in DOMAIN links : Open(v, l)
             \/ \E a \in Owners : Export(v, a) \/ \E id \in Ids : GetOne(v, a, id)
             \/ Resolve(v) \/ FetchRow(v) \/ FetchBlob(v) \/ ExportLine(v) \/ Answer(v)
      PROVE  ReaderStates' /\ UNCHANGED <<walk, maker>>
  BY <1>1, ReadStates
     DEF Open, Export, GetOne, Resolve, FetchRow, FetchBlob, ExportLine, Answer, Read
<1>2. ASSUME NextPage \/ \E a \in Owners : FirstPage(a)
      PROVE  WalkStates' /\ UNCHANGED <<reader, maker>>
  <2>1. PICK w : TakePage(w) /\ DOMAIN w = DOMAIN NoWalk
    BY <1>2 DEF NextPage, FirstPage, WalkInv, NoWalk
  <2>2. PICK next : next = SearchAttestations(rows, w.account, Filter, PageLimit, w.cursor).next
    OBVIOUS
  <2>3. /\ walk'.status = IF next = None THEN "done" ELSE "more"
        /\ walk'.cursor = next
        /\ UNCHANGED <<reader, maker>>
    BY <2>1, <2>2 DEF TakePage, NoWalk
  <2> QED
    BY <2>3 DEF WalkStates
<1>3. ASSUME \/ \E a \in Owners : ShareFilter(a) \/ \E id, jd \in Ids : ShareIds(a, <<id, jd>>)
             \/ CheckId \/ CreateLink
             \/ \E a \in Owners, l \in DOMAIN links : Revoke(a, l)
      PROVE  MakerStates' /\ UNCHANGED <<reader, walk>>
  <2>1. UNCHANGED <<reader, walk>>
    BY <1>3 DEF ShareFilter, ShareIds, CheckId, CreateLink, Revoke, Make, readVars
  <2>2. CASE maker' = NoMaker \/ maker' = maker
    BY <2>1, <2>2 DEF MakerStates, NoMaker
  <2>3. CASE \E a, ids : maker' = [status |-> "check", account |-> a, ids |-> ids, checked |-> {}]
    BY <2>1, <2>3 DEF MakerStates
  <2>4. CASE \E a, ids : maker' = [status |-> "check", account |-> a, ids |-> ids,
                                   checked |-> ToSet(ids)]
    BY <2>1, <2>4 DEF MakerStates
  <2>5. CASE \E id \in ToSet(maker.ids) : maker' = [maker EXCEPT !.checked = @ \cup {id}]
    <3>1. DOMAIN maker = DOMAIN NoMaker
      BY DEF PagesInv, MakerOK
    <3> QED
      BY <2>1, <2>5, <3>1 DEF MakerStates, NoMaker
  <2>6. ASSUME NEW a, ShareFilter(a)
        PROVE  \E ids : maker' = [status |-> "check", account |-> a, ids |-> ids,
                                  checked |-> ToSet(ids)]
    BY <2>6 DEF ShareFilter, Make
  <2>7. ASSUME NEW a, NEW ids, ShareIds(a, ids)
        PROVE  maker' = [status |-> "check", account |-> a, ids |-> ids, checked |-> {}]
    BY <2>7 DEF ShareIds, Make
  <2> QED
    BY <1>3, <2>1, <2>2, <2>3, <2>4, <2>5, <2>6, <2>7 DEF CheckId, Make, CreateLink, Revoke, readVars
<1> QED
  BY <1>1, <1>2, <1>3 DEF ReadersNext, ReaderStates, WalkStates, MakerStates

LEMMA HookTries ==
  ASSUME KeysInv, TriesInv, BillingNext
  PROVE  TriesInv'
<1>1. \A d \in Events : hook[d].tries \in Nat /\ DOMAIN hook[d] = HookColumns
  BY DEF KeysInv, HookOK
<1>2. ASSUME NEW e \in Events, NEW q, Hook(e, q), q.tries <= MaxDeliveries
      PROVE  TriesInv'
  BY <1>2 DEF Hook, KeysInv, TriesInv
<1>3. ASSUME NEW e \in Events, Deliver(e)
      PROVE  TriesInv'
  <2>1. MaxDeliveries \in Nat /\ hook[e].tries + 1 <= MaxDeliveries
    BY <1>1, <1>3, BillingAssumption DEF Deliver
  <2>2. CASE Route(e)
    <3>1. PICK status, acked : Hook(e, [hook[e] EXCEPT !.tries = @ + 1, !.status = status,
                                                       !.acked = acked])
      BY <2>2 DEF Route
    <3> QED
      BY <1>1, <1>2, <2>1, <3>1 DEF HookColumns
  <2>3. CASE \E h : Refuse(e, h)
    <3>1. Hook(e, [hook[e] EXCEPT !.tries = @ + 1])
      BY <2>3 DEF Refuse
    <3> QED
      BY <1>1, <1>2, <2>1, <3>1 DEF HookColumns
  <2> QED
    BY <1>3, <2>2, <2>3 DEF Deliver
<1>4. ASSUME NEW e \in Events,
             Upsert(e) \/ SetIds(e) \/ IssueKey(e) \/ FindCustomer(e) \/ Sync(e) \/ HookFails(e)
      PROVE  TriesInv'
  <2>1. ASSUME NEW q, Hook(e, q), q.tries = hook[e].tries
        PROVE  TriesInv'
    BY <1>2, <2>1 DEF TriesInv
  <2>2. ASSUME Acknowledge(e)
        PROVE  TriesInv'
    BY <1>1, <2>1, <2>2 DEF Acknowledge, HookColumns
  <2>3. ASSUME NEW status, Hook(e, [hook[e] EXCEPT !.status = status])
        PROVE  TriesInv'
    BY <1>1, <2>1, <2>3 DEF HookColumns
  <2>4. CASE Upsert(e)
    BY <1>1, <2>1, <2>4 DEF Upsert, HookColumns
  <2>5. CASE SetIds(e) \/ IssueKey(e) \/ Sync(e)
    BY <2>2, <2>3, <2>5 DEF SetIds, IssueKey, Sync
  <2>6. CASE FindCustomer(e)
    <3>1. Acknowledge(e) \/ \E i : Hook(e, [hook[e] EXCEPT !.status = "sync", !.account = i])
      BY <2>6 DEF FindCustomer
    <3> QED
      BY <1>1, <2>1, <2>2, <3>1 DEF HookColumns
  <2>7. CASE HookFails(e)
    BY <1>1, <2>1, <2>7 DEF HookFails, HookColumns
  <2> QED
    BY <1>4, <2>4, <2>5, <2>6, <2>7
<1>5. ASSUME NEW b, StartBill(b) \/ ReadUsage(b) \/ PostUsage(b) \/ MarkBilled(b) \/ BillFails(b)
      PROVE  TriesInv'
  BY <1>5 DEF StartBill, ReadUsage, PostUsage, MarkBilled, BillFails, Bill, TriesInv
<1> QED
  BY <1>3, <1>4, <1>5 DEF BillingNext

LEMMA StatesInvHolds == CloudSpec => []StatesInv
<1>1. CloudInit => StatesInv
  <2> SUFFICES ASSUME CloudInit PROVE StatesInv
    OBVIOUS
  <2>1. PICK scene \in Scenes : BlobsInit(scene.rotten)
    BY DEF CloudInit
  <2>2. FilesInv
    BY <2>1, ScenesAssumption DEF CloudInit, IngestInit, BlobsInit, FilesInv, WritersOpen, Files
  <2>3. AttemptsInv
    <3>1. /\ sink = [k \in Clients |-> [status |-> "idle", attempt |-> 0]]
      BY DEF CloudInit, IngestInit
    <3>2. \A r \in Posted : r[1] \in Clients /\ r[2] > 0
      BY IngestAssumption DEF Posted
    <3> QED
      BY <3>1, <3>2, IngestAssumption DEF AttemptsInv
  <2>4. SweepStates
    BY RetentionAssumption DEF CloudInit, RetentionInit, SweepStates, Asleep
  <2>5. ReaderStates /\ WalkStates /\ MakerStates
    BY DEF CloudInit, ReadersInit, ReaderStates, WalkStates, MakerStates, Idle, NoWalk, NoMaker
  <2>6. TriesInv
    BY BillingAssumption DEF CloudInit, BillingInit, TriesInv, Undelivered
  <2> QED
    BY <2>2, <2>3, <2>4, <2>5, <2>6 DEF StatesInv
<1>2. /\ BlobInv /\ SweepInv /\ DOMAIN sweep = SweepingOn /\ PagesInv /\ WalkInv /\ KeysInv
      /\ StatesInv /\ [CloudNext]_cloudVars
      => StatesInv'
  <2> SUFFICES ASSUME BlobInv, SweepInv, DOMAIN sweep = SweepingOn, PagesInv, WalkInv, KeysInv,
                      StatesInv, [CloudNext]_cloudVars
               PROVE  StatesInv'
    OBVIOUS
  <2>1. FilesInv' /\ AttemptsInv'
    <3>1. CASE Ingesting
      BY <3>1, IngestStates DEF Ingesting, StatesInv
    <3>2. CASE ~Ingesting
      <4>1. UNCHANGED <<blobVars, ingestVars>>
        BY <3>2, SweepingFrame, ReadingFrame, ServingFrame, ChargingFrame, TickingFrame
           DEF CloudNext, cloudVars, Ticking
      <4> QED
        BY <4>1 DEF StatesInv, FilesInv, AttemptsInv, WritersOpen, blobVars, ingestVars
    <3> QED
      BY <3>1, <3>2
  <2>2. SweepStates'
    <3>1. CASE Sweeping
      <4>1. sweep'.status \in {"asleep", "delete", "mark"}
        <5>1. \A h \in {"delete", "mark"} : [sweep EXCEPT !.status = h].status = h
          BY DEF SweepingOn
        <5>2. [sweep EXCEPT !.status = "delete", !.next = @ + 1].status = "delete"
          BY DEF SweepingOn
        <5>3. CASE BeginPass
          BY <5>3 DEF BeginPass
        <5>4. CASE DeleteExpired
          BY <5>1, <5>4 DEF DeleteExpired
        <5>5. CASE MarkSwept
          BY <5>2, <5>5 DEF MarkSwept, Asleep
        <5>6. CASE StatementFails
          BY <5>6 DEF StatementFails, AfterError, Asleep
        <5> QED
          BY <3>1, <5>3, <5>4, <5>5, <5>6 DEF Sweeping, RetentionNext
      <4>2. errors' = errors \/ (errors < MaxErrors /\ errors' = errors + 1)
        BY <3>1 DEF Sweeping, RetentionNext, BeginPass, DeleteExpired, MarkSwept, StatementFails
      <4> QED
        BY <4>1, <4>2, RetentionAssumption DEF StatesInv, SweepStates
    <3>2. CASE ~Sweeping
      <4>1. UNCHANGED sweepVars
        BY <3>2, IngestingFrame, ReadingFrame, ServingFrame, ChargingFrame, TickingFrame
           DEF CloudNext, cloudVars
      <4> QED
        BY <4>1 DEF StatesInv, SweepStates, sweepVars
    <3> QED
      BY <3>1, <3>2
  <2>3. ReaderStates' /\ WalkStates' /\ MakerStates'
    <3>1. CASE Reading
      BY <3>1, ReadingStates DEF Reading, StatesInv
    <3>2. CASE ~Reading
      <4>1. UNCHANGED readVars
        BY <3>2, IngestingFrame, SweepingFrame, ServingFrame, ChargingFrame, TickingFrame
           DEF CloudNext, cloudVars
      <4> QED
        BY <4>1 DEF StatesInv, ReaderStates, WalkStates, MakerStates, readVars
    <3> QED
      BY <3>1, <3>2
  <2>4. TriesInv'
    <3>1. CASE Charging
      BY <3>1, HookTries DEF Charging, StatesInv
    <3>2. CASE ~Charging
      <4>1. UNCHANGED billingVars
        BY <3>2, IngestingFrame, SweepingFrame, ServingFrame, ReadingFrame, TickingFrame
           DEF CloudNext, cloudVars
      <4> QED
        BY <4>1 DEF StatesInv, TriesInv, billingVars
    <3> QED
      BY <3>1, <3>2
  <2> QED
    BY <2>1, <2>2, <2>3, <2>4 DEF StatesInv
<1> QED
  BY <1>1, <1>2, BlobInvHolds, SweepInvHolds, PagesInvHolds, WalkInvHolds, KeysInvHolds, PTL
     DEF CloudSpec

(* What the tables, the blobs and the requests of the service may be: no   *)
(* statement breaks the schema, and no request is at a point, or names a   *)
(* row, that is not there.                                                 *)
THEOREM CloudTypesHold == CloudSpec => []CloudTypeOK
<1> DEFINE Inv == /\ TablesInv /\ KeysInv /\ SignupsInv /\ BlobInv /\ UsageInv
                  /\ SweepInv /\ PagesInv /\ StatesInv
<1>1. Inv => CloudTypeOK
  <2> SUFFICES ASSUME Inv PROVE CloudTypeOK
    OBVIOUS
  <2>1. TablesTypeOK
    BY DEF TablesTypeOK, TablesInv, DataOK, KeysInv, PagesInv
  <2>2. BlobsTypeOK
    BY PostedFacts DEF BlobsTypeOK, BlobInv, BlobTypes, StatesInv, FilesInv
  <2>3. IngestTypeOK
    BY DEF IngestTypeOK, BlobInv, SinkOK, StatesInv, AttemptsInv, TablesInv, DataOK,
          UsageInv, EffectInv
  <2>4. RetentionTypeOK
    BY DEF RetentionTypeOK, SweepInv, StatesInv, SweepStates
  <2>5. ReadersTypeOK
    BY DEF ReadersTypeOK, PagesInv, ReaderOK, StatesInv, ReaderStates, WalkStates, MakerStates
  <2>6. DOMAIN accounts = 1 .. Len(accounts) /\ Len(accounts) \in Nat
    BY AccountFacts DEF TablesInv
  <2>7. AccountsTypeOK
    BY <2>6 DEF AccountsTypeOK, SignupsInv, SignupStates, SignupOK, KeysInv, CallerOK
  <2>8. BillingTypeOK
    <3>1. ASSUME NEW e \in Events
          PROVE  /\ hook[e].status \in {"idle", "upsert", "ids", "key", "find", "sync"}
                 /\ hook[e].account \in 0 .. Len(accounts)
                 /\ hook[e].status \in {"ids", "key", "sync"} => hook[e].account # 0
                 /\ hook[e].tries \in 0 .. MaxDeliveries
      BY <2>6, BillingAssumption DEF KeysInv, HookOK, StatesInv, TriesInv
    <3>2. ASSUME NEW b \in Bills
          PROVE  /\ bill[b].status \in {"idle", "read", "post", "mark", "200", "400", "500"}
                 /\ bill[b].status \in {"read", "post", "mark"} => bill[b].next \in DOMAIN bill[b].list
                 /\ bill[b].units \in Nat /\ bill[b].total \in Nat /\ bill[b].posted \in Nat
      <4>1. BillOK(bill[b])
        BY DEF TablesInv, BillsOK
      <4>2. DOMAIN bill[b].list = 1 .. Len(bill[b].list) /\ Len(bill[b].list) \in Nat
        BY <4>1, AccountFacts DEF BillOK
      <4> QED
        BY <4>1, <4>2 DEF BillOK
    <3> QED
      BY <3>1, <3>2 DEF BillingTypeOK
  <2> QED
    BY <2>1, <2>2, <2>3, <2>4, <2>5, <2>7, <2>8 DEF CloudTypeOK
<1> HIDE DEF Inv
<1>2. CloudSpec => []Inv
  BY TablesInvHolds, KeysInvHolds, SignupsInvHolds, BlobInvHolds, UsageInvHolds, SweepInvHolds,
     PagesInvHolds, StatesInvHolds, PTL DEF Inv
<1> QED
  BY <1>1, <1>2, PTL
=============================================================================
