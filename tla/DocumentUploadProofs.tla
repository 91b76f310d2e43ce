------------------------ MODULE DocumentUploadProofs ------------------------
(***************************************************************************)
(* Theorems about the uploads of documents and the signature of the        *)
(* uploaded file: the rows, the files and the requests keep their shape,   *)
(* a version holds the bytes of its own request, a request served alone is *)
(* written once, a signed document is settled and its file is evidence.    *)
(*                                                                         *)
(* The inductive invariant has four layers.  Shape relates the rows, the   *)
(* files and the requests that read them.  The others rest on it: Settled  *)
(* and Evidence for the signature, Solo for requests served alone, Own for *)
(* files that nobody else writes to.                                       *)
(***************************************************************************)
EXTENDS DocumentUpload, FiniteSetTheorems, TLAPS

-----------------------------------------------------------------------------
(* Shape: what the rows, the files and the requests know of each other     *)

Absent(k)  == ops[k].state = "absent"
Known(k)   == ops[k].state \in {"uploaded", "completed"}
Pending(k) == ~Absent(k) /\ ~Stored(k)

\* The steps of a handler whose file is written.
Reading == {"versions", "download", "content", "record"}

\* The rows of one request, and those of the document it creates.
RowShape(k) ==
    /\ Absent(k) => ops[k].target = NoKey
    /\ Stored(k) => Known(k) /\ docs[DocOf(k)] # 0
    /\ ops[k].state = "completed" => Stored(k)
    /\ Versioning(k) => docs[ops[k].target] # 0
    /\ docs[k] # 0 => Stored(k) /\ ~Versioning(k)

\* No row points behind the newest native version of its file.
RowReach(k) ==
    /\ Known(k) => /\ ops[k].etag \in 1 .. Newest(DocOf(k))
                   /\ ops[k].ext <= Newest(DocOf(k)) /\ ops[k].hash \in Contents
    /\ Stored(k) => version[k].ext <= Newest(DocOf(k))
    /\ ops[k].baseline <= Newest(DocOf(k))
    /\ docs[k] <= Newest(k)

HandlerShape(h) ==
    LET r == handler[h] IN
    /\ IF r.pc = "idle" THEN r.key = NoKey ELSE r.key \in Keys
    /\ r.pc \notin {"idle", "reserve"} => ~Absent(r.key)
    /\ r.pc = "reserve" /\ r.target # NoKey => docs[r.target] # 0
    /\ r.pc = "mkdir" => r.at < PathLength
    /\ r.pc = "put" => r.tries < 2
    /\ r.pc = "finalize" => Known(r.key)

HandlerReach(h) ==
    LET r == handler[h]  newest == Newest(DocOf(r.key)) IN
    /\ r.pc \in Reading => r.etag \in 1 .. newest
    /\ r.pc = "download" => r.ext \in 1 .. newest
    /\ r.pc \in {"content", "record"} => r.ext <= newest
    /\ r.pc = "record" => r.hash \in Contents

\* The native versions of a file are those of its own uploads, and edits.
FileShape(d) ==
    \A i \in DOMAIN drive[d] :
        drive[d][i] # Foreign => ~Absent(drive[d][i]) /\ DocOf(drive[d][i]) = d

OnePending ==
    \A x, y \in Keys :
        Pending(x) /\ Pending(y) /\ DocOf(x) = DocOf(y) => x = y

SignShape ==
    /\ \A k \in late : ~Absent(k) /\ k \in raced
    /\ \A k \in Range(bound) : Stored(k)
    /\ signer.pc # "idle" => signer.key \in Range(bound)
    /\ signed # NoKey => Stored(signed)

Shape ==
    /\ TypeOK
    /\ \A k \in Keys : RowShape(k) /\ RowReach(k) /\ FileShape(k)
    /\ \A h \in Handlers : HandlerShape(h) /\ HandlerReach(h)
    /\ OnePending /\ SignShape

-----------------------------------------------------------------------------
(* Evidence: what a version says of the file that was newest when its hash *)
(* was taken                                                               *)

Match(d, ext, hash) == ext = Newest(d) => drive[d][ext] = hash

Shown(k) == /\ version[k].ext \in DOMAIN drive[DocOf(k)]
            /\ drive[DocOf(k)][version[k].ext] = version[k].hash

Evidence ==
    /\ \A k \in Keys :
          /\ Known(k)  => Match(DocOf(k), ops[k].ext, ops[k].hash)
          /\ Stored(k) => Match(DocOf(k), version[k].ext, version[k].hash)
    /\ \A h \in Handlers :
          At(h, "record") => Match(DocOf(handler[h].key), handler[h].ext, handler[h].hash)
    /\ signer.pc # "idle" => Shown(signer.key)
    /\ signed # NoKey => Shown(signed)

-----------------------------------------------------------------------------
(* Solo: a request that no two handlers served                             *)

Once(k) == \A i, j \in DOMAIN drive[DocOf(k)] :
               drive[DocOf(k)][i] = k /\ drive[DocOf(k)][j] = k => i = j

\* The native versions of a request come after its reservation.
Later(k) == \A i \in DOMAIN drive[DocOf(k)] :
                drive[DocOf(k)][i] = k => ops[k].baseline < i

Alone(k) == /\ \A g, h \in Handlers : handler[g].key = k /\ handler[h].key = k => g = h
            /\ \A h \in Handlers : At(h, "put") /\ handler[h].key = k
                                     => k \notin Range(drive[DocOf(k)])
            /\ Once(k)

Solo == \A k \in Keys : /\ Versioning(k) => Later(k)
                        /\ k \notin raced => Alone(k)

-----------------------------------------------------------------------------
(* Own: files that only their uploads write to, each once                  *)

\* The file of a pending request ends with its bytes, once they are written.
Newly(k) == k \in Range(drive[DocOf(k)]) /\ Last(drive[DocOf(k)]) = k

\* An ETag and an id of the newest native version, or no id.
Current(k, etag, ext) == /\ Newly(k) /\ etag = Newest(DocOf(k))
                         /\ ext \in {0, Newest(DocOf(k))}

OwnRow(k) ==
    /\ Stored(k) => /\ k \in Range(drive[DocOf(k)]) /\ version[k].hash = k
                    /\ version[k].ext # 0 => drive[DocOf(k)][version[k].ext] = k
    /\ Pending(k) /\ k \in Range(drive[DocOf(k)]) => Newly(k)
    /\ Pending(k) /\ Known(k) => Current(k, ops[k].etag, ops[k].ext) /\ ops[k].hash = k

OwnRequest(r) ==
    /\ r.pc = "versions" => Current(r.key, r.etag, 0)
    /\ r.pc = "download" => Current(r.key, r.etag, r.ext) /\ r.ext # 0
    /\ r.pc = "content"  => Current(r.key, r.etag, r.ext)
    /\ r.pc = "record"   => Current(r.key, r.etag, r.ext) /\ r.hash = r.key

OwnHandler(h) == OwnRequest(handler[h])

\* What was written after docs.etag is of a pending request.
OwnDocument(d) ==
    docs[d] # 0 /\ Newest(d) # docs[d]
        => \E k \in Keys : Pending(k) /\ DocOf(k) = d /\ Newly(k)

Own ==
    /\ \A k \in Keys : Pending(k) /\ Versioning(k) => ops[k].baseline = docs[DocOf(k)]
    /\ \A k \in Keys : Clean(DocOf(k)) => OwnRow(k)
    /\ \A h \in Handlers : /\ handler[h].pc \in Reading
                           /\ Pending(handler[h].key) /\ Clean(DocOf(handler[h].key))
                           => OwnHandler(h)
    /\ \A d \in Keys : Clean(d) => OwnDocument(d)

-----------------------------------------------------------------------------
(* Types                                                                   *)

Row == [state : {"absent", "reserved", "uploaded", "completed"},
        target : Keys \cup {NoKey}, path : BOOLEAN,
        baseline : Nat, etag : Nat, ext : Nat, hash : Contents \cup {NoKey}]

Request ==
    [pc : {"idle", "reserve", "read", "folders", "mkdir", "prepare", "recover",
           "put", "versions", "download", "content", "record", "finalize", "bind"},
     key : Keys \cup {NoKey}, target : Keys \cup {NoKey},
     at : 0 .. PathLength, tries : 0 .. 2, fatal : BOOLEAN, etag : Nat, ext : Nat,
     hash : Contents \cup {NoKey}]

\* The rows and the files, and the rest, of the type invariant.
RowsTyped ==
    /\ ops \in [Keys -> Row] /\ docs \in [Keys -> Nat]
    /\ version \in [Keys -> [ext : Nat, hash : Contents \cup {NoKey}]]
    /\ drive \in [Keys -> Seq(Contents)]

HandlersTyped == handler \in [Handlers -> Request]

OthersTyped ==
    /\ folders \in 0 .. PathLength /\ connected \in BOOLEAN
    /\ late \subseteq Keys /\ raced \subseteq Keys
    /\ bound \in Seq(Keys)
    /\ signer \in [pc : {"idle", "content", "verified"}, key : Keys \cup {NoKey}]
    /\ signed \in Keys \cup {NoKey}
    /\ faults \in 0 .. MaxFaults /\ edits \in 0 .. MaxEdits

LEMMA TypeParts == TypeOK <=> RowsTyped /\ HandlersTyped /\ OthersTyped
BY DEF TypeOK, RowsTyped, HandlersTyped, OthersTyped, Row, Request

LEMMA RowFields ==
  ASSUME NEW r \in Row
  PROVE  /\ r.state \in {"absent", "reserved", "uploaded", "completed"}
         /\ r.target \in Keys \cup {NoKey} /\ r.path \in BOOLEAN
         /\ r.baseline \in Nat /\ r.etag \in Nat /\ r.ext \in Nat
         /\ r.hash \in Contents \cup {NoKey}
BY DEF Row

LEMMA RequestFields ==
  ASSUME NEW r \in Request
  PROVE  /\ r.key \in Keys \cup {NoKey} /\ r.target \in Keys \cup {NoKey}
         /\ r.at \in 0 .. PathLength /\ r.tries \in 0 .. 2 /\ r.fatal \in BOOLEAN
         /\ r.etag \in Nat /\ r.ext \in Nat /\ r.hash \in Contents \cup {NoKey}
BY DEF Request

LEMMA IdleTyped == Idle \in Request
BY DocumentUploadAssumption DEF Idle, Request

-----------------------------------------------------------------------------
(* What the actions do: to the rows and files, and to the requests         *)

Quiet == UNCHANGED <<ops, docs, version, drive>>

Reserves(k, d) ==
    /\ Absent(k) /\ ~Refused(d)
    /\ d # NoKey => docs[d] # 0
    /\ ops' = [ops EXCEPT ![k] = [NoOp EXCEPT !.state = "reserved", !.target = d,
                                      !.baseline = IF d = NoKey THEN 0 ELSE docs[d]]]
    /\ UNCHANGED <<docs, version, drive>>

Prepares(k) == /\ ops' = [ops EXCEPT ![k].path = TRUE]
               /\ UNCHANGED <<docs, version, drive>>

Records(h) ==
    LET k == handler[h].key IN
    /\ At(h, "record") /\ ~(Versioning(k) /\ HasSignatureEvidence(DocOf(k)))
    /\ ops' = [ops EXCEPT ![k] = [@ EXCEPT !.state = "uploaded",
                                           !.etag = handler[h].etag,
                                           !.ext = handler[h].ext,
                                           !.hash = handler[h].hash]]
    /\ UNCHANGED <<docs, version, drive>>

Finalizes(k) ==
    /\ ops[k].state = "uploaded" /\ ~Stored(k)
    /\ docs' = [docs EXCEPT ![DocOf(k)] = ops[k].etag]
    /\ version' = [version EXCEPT ![k] = [ext |-> ops[k].ext, hash |-> ops[k].hash]]
    /\ ops' = [ops EXCEPT ![k].state = "completed"]
    /\ UNCHANGED drive

\* Somebody edits the file d, or a write of an upload arrives.
Appends(d, c) ==
    /\ c # Foreign => /\ ~Absent(c) /\ DocOf(c) = d
                      /\ c \in late \/ \E h \in Handlers : At(h, "put") /\ handler[h].key = c
    /\ drive' = [drive EXCEPT ![d] = Append(@, c)]
    /\ UNCHANGED <<ops, docs, version>>

Effect ==
    \/ Quiet
    \/ \E k \in Keys : \/ \E d \in Keys \cup {NoKey} : Reserves(k, d)
                       \/ Prepares(k) \/ Finalizes(k)
    \/ \E h \in Handlers : Records(h)
    \/ \E d \in Keys : \E c \in Contents : Appends(d, c)

\* Only the request of h moves.
OthersKept(h) == \A g \in Handlers : g # h => handler'[g] = handler[g]

Becomes(h, r) == handler' \in [Handlers -> Request] /\ handler'[h] = r /\ OthersKept(h)

Turns(h, pc) ==
    /\ handler' \in [Handlers -> Request] /\ OthersKept(h)
    /\ handler'[h].pc = pc /\ handler'[h].key = handler[h].key

LEMMA Becoming ==
  ASSUME HandlersTyped, NEW h \in Handlers, NEW r \in Request,
         handler' = [handler EXCEPT ![h] = r]
  PROVE  Becomes(h, r)
BY DEF HandlersTyped, Becomes, OthersKept

LEMMA Finishing ==
  ASSUME HandlersTyped, NEW h \in Handlers, Finish(h)
  PROVE  Becomes(h, Idle)
BY Becoming, IdleTyped DEF Finish

LEMMA Going ==
  ASSUME HandlersTyped, NEW h \in Handlers,
         NEW pc \in {"read", "folders", "mkdir", "prepare", "recover", "put", "versions",
                     "download", "content", "record", "finalize", "bind"},
         Goto(h, pc)
  PROVE  /\ Turns(h, pc) /\ handler'[h].tries = handler[h].tries
         /\ handler'[h].at = handler[h].at /\ handler'[h].etag = handler[h].etag
         /\ handler'[h].ext = handler[h].ext /\ handler'[h].hash = handler[h].hash
<1> DEFINE r == [handler[h] EXCEPT !.pc = pc]
<1>1. handler[h] \in Request
  BY DEF HandlersTyped
<1>2. handler' = [handler EXCEPT ![h] = r]
  BY <1>1 DEF Goto, HandlersTyped
<1>3. /\ r \in Request /\ r.pc = pc /\ r.key = handler[h].key /\ r.tries = handler[h].tries
      /\ r.at = handler[h].at /\ r.etag = handler[h].etag /\ r.ext = handler[h].ext
      /\ r.hash = handler[h].hash
  BY <1>1 DEF Request
<1> HIDE DEF r
<1>4. Becomes(h, r)
  BY <1>2, <1>3, Becoming
<1> QED BY <1>3, <1>4 DEF Becomes, Turns

\* A running request and the rows of its key.
LEMMA Running ==
  ASSUME Shape, NEW h \in Handlers, handler[h].pc # "idle"
  PROVE  /\ handler[h] \in Request /\ handler[h].key \in Keys
         /\ ops[handler[h].key] \in Row /\ DocOf(handler[h].key) \in Keys
         /\ handler[h].pc # "reserve" => ~Absent(handler[h].key)
<1>1. RowsTyped /\ HandlersTyped
  BY TypeParts DEF Shape
<1>2. handler[h].key \in Keys /\ (handler[h].pc # "reserve" => ~Absent(handler[h].key))
  BY DEF Shape, HandlerShape
<1>3. ops[handler[h].key] \in Row
  BY <1>1, <1>2 DEF RowsTyped
<1> QED BY <1>1, <1>2, <1>3, RowFields DEF HandlersTyped, DocOf

LEMMA DocTyped == ASSUME Shape, NEW k \in Keys
                  PROVE  DocOf(k) \in Keys /\ ops[k] \in Row /\ drive[k] \in Seq(Contents)
<1>1. RowsTyped
  BY TypeParts DEF Shape
<1>2. ops[k] \in Row /\ drive[k] \in Seq(Contents)
  BY <1>1 DEF RowsTyped
<1> QED BY <1>2, RowFields DEF DocOf

-----------------------------------------------------------------------------
(* The actions, one by one                                                 *)

\* A request that stays quiet and goes on, or ends.
GoesOn(h, pc) == /\ Quiet /\ Turns(h, pc)
                 /\ handler'[h].at = handler[h].at
                 /\ handler'[h].tries = handler[h].tries

Ends(h) == Quiet /\ Becomes(h, Idle)

LEMMA BeginMoves ==
  ASSUME Shape, NEW h \in Handlers, NEW k \in Keys, NEW target \in Keys \cup {NoKey},
         Begin(h, k, target)
  PROVE  /\ Quiet /\ handler[h].pc = "idle"
         /\ handler' \in [Handlers -> Request] /\ OthersKept(h)
         /\ handler'[h].pc = "reserve" /\ handler'[h].key = k /\ handler'[h].target = target
<1> DEFINE r == [Idle EXCEPT !.pc = "reserve", !.key = k, !.target = target]
<1>1. HandlersTyped
  BY TypeParts DEF Shape
<1>2. r \in Request /\ r.pc = "reserve" /\ r.key = k /\ r.target = target
  BY IdleTyped DEF Idle, Request
<1>3. handler' = [handler EXCEPT ![h] = r]
  BY DEF Begin
<1> HIDE DEF r
<1>4. Becomes(h, r)
  BY <1>1, <1>2, <1>3, Becoming
<1> QED BY <1>2, <1>4 DEF Becomes, Begin, At, Quiet, dbVars

LEMMA ReserveMoves ==
  ASSUME Shape, NEW h \in Handlers, ReserveUpload(h)
  PROVE  /\ handler[h].pc = "reserve"
         /\ \/ Turns(h, "read") /\ Quiet /\ ~Absent(handler[h].key)
            \/ Ends(h)
            \/ /\ Turns(h, "read") /\ Reserves(handler[h].key, handler[h].target)
               /\ handler[h].target \in Keys \cup {NoKey}
<1> DEFINE r == [handler[h] EXCEPT !.pc = "read", !.target = NoKey]
           k == handler[h].key
           d == handler[h].target
<1>1. HandlersTyped
  BY TypeParts DEF Shape
<1>2. handler[h].pc = "reserve"
  BY DEF ReserveUpload, At
<1>3. handler[h] \in Request /\ d \in Keys \cup {NoKey}
  BY <1>2, Running, RequestFields
<1>4. ASSUME GoRead(h) PROVE Turns(h, "read")
  <2>1. r \in Request /\ r.pc = "read" /\ r.key = handler[h].key
    BY <1>3 DEF Request
  <2>2. handler' = [handler EXCEPT ![h] = r]
    BY <1>1, <1>3, <1>4 DEF GoRead, HandlersTyped
  <2> HIDE DEF r
  <2> QED BY <1>1, <2>1, <2>2, Becoming DEF Turns, Becomes
<1>5. CASE ops[k].state # "absent" /\ ops[k].target = d /\ GoRead(h) /\ UNCHANGED ops
  BY <1>2, <1>4, <1>5 DEF ReserveUpload, Quiet, Absent
<1>6. CASE Finish(h) /\ UNCHANGED ops
  BY <1>1, <1>2, <1>6, Finishing DEF ReserveUpload, Quiet, Ends
<1>7. CASE /\ ops[k].state = "absent" /\ ~Refused(d)
           /\ ops' = [ops EXCEPT ![k] = [NoOp EXCEPT !.state = "reserved", !.target = d,
                                     !.baseline = IF d = NoKey THEN 0 ELSE docs[d]]]
           /\ GoRead(h)
  <2>1. d # NoKey => docs[d] # 0
    BY <1>2 DEF Shape, HandlerShape
  <2> QED BY <1>2, <1>3, <1>4, <1>7, <2>1 DEF ReserveUpload, Reserves, Absent
<1> QED BY <1>5, <1>6, <1>7 DEF ReserveUpload

LEMMA ReadMoves ==
  ASSUME Shape, NEW h \in Handlers, ReadReservation(h)
  PROVE  /\ handler[h].pc = "read"
         /\ \/ Ends(h)
            \/ \E pc \in {"bind", "finalize", "folders", "recover"} :
                  GoesOn(h, pc) /\ (pc = "finalize" => Known(handler[h].key))
<1> DEFINE pc == AfterRead(handler[h].key)
<1>1. HandlersTyped /\ handler[h].pc = "read"
  BY TypeParts DEF Shape, ReadReservation, At
<1>2. Quiet
  BY DEF ReadReservation, Quiet, dbVars
<1>3. CASE Finish(h)
  BY <1>1, <1>2, <1>3, Finishing DEF Ends
<1>4. CASE Goto(h, pc) /\ pc # "idle"
  <2>1. /\ pc \in {"bind", "finalize", "folders", "recover"}
        /\ pc = "finalize" => Known(handler[h].key)
    <3>1. ops[handler[h].key] \in Row
      BY <1>1, Running
    <3> QED BY <1>4, <3>1, RowFields DEF AfterRead, Known
  <2> HIDE DEF pc
  <2> QED BY <1>1, <1>2, <1>4, <2>1, Going DEF GoesOn
<1> QED BY <1>3, <1>4 DEF ReadReservation

LEMMA EnsureMoves ==
  ASSUME Shape, NEW h \in Handlers, EnsureFolders(h)
  PROVE  /\ handler[h].pc = "folders"
         /\ \E pc \in {"recover", "prepare", "folders", "mkdir"} :
               Quiet /\ Turns(h, pc) /\ (pc = "mkdir" => handler'[h].at < PathLength)
<1>1. HandlersTyped /\ handler[h].pc = "folders" /\ folders \in 0 .. PathLength
  BY TypeParts DEF Shape, EnsureFolders, At, OthersTyped
<1>2. handler[h] \in Request /\ handler[h].at \in 0 .. PathLength
  BY <1>1, Running, RequestFields
<1>3. Quiet
  BY DEF EnsureFolders, Quiet, dbVars
<1>4. CASE handler[h].at = PathLength
  BY <1>1, <1>3, <1>4, Going DEF EnsureFolders
<1>5. CASE handler[h].at # PathLength /\ handler[h].at < folders
  <2> DEFINE r == [handler[h] EXCEPT !.at = @ + 1]
  <2>1. handler' = [handler EXCEPT ![h] = r]
    BY <1>1, <1>2, <1>5 DEF EnsureFolders, HandlersTyped
  <2>2. handler[h].at + 1 \in 0 .. PathLength
    BY <1>1, <1>2, <1>5, DocumentUploadAssumption
  <2>3. r \in Request /\ r.pc = "folders" /\ r.key = handler[h].key
    BY <1>1, <1>2, <2>2 DEF Request
  <2> HIDE DEF r
  <2>4. Turns(h, "folders")
    BY <1>1, <2>1, <2>3, Becoming DEF Turns, Becomes
  <2> QED BY <1>1, <1>3, <2>4
<1>6. CASE handler[h].at # PathLength /\ ~(handler[h].at < folders)
  <2>1. Turns(h, "mkdir") /\ handler'[h].at = handler[h].at
    BY <1>1, <1>6, Going DEF EnsureFolders
  <2>2. handler[h].at < PathLength
    BY <1>2, <1>6, DocumentUploadAssumption
  <2> QED BY <1>1, <1>3, <2>1, <2>2
<1> QED BY <1>4, <1>5, <1>6

LEMMA CreateMoves ==
  ASSUME Shape, NEW h \in Handlers, CreateFolder(h)
  PROVE  handler[h].pc = "mkdir" /\ Quiet /\ Turns(h, "folders") /\ folders' \in 0 .. PathLength
<1> DEFINE r == [handler[h] EXCEPT !.pc = "folders", !.at = @ + 1]
<1>1. HandlersTyped /\ handler[h].pc = "mkdir" /\ folders \in 0 .. PathLength
  BY TypeParts DEF Shape, CreateFolder, At, OthersTyped
<1>2. /\ handler[h] \in Request /\ handler[h].at \in 0 .. PathLength
      /\ handler[h].at < PathLength
  BY <1>1, Running, RequestFields DEF Shape, HandlerShape
<1>3. handler' = [handler EXCEPT ![h] = r]
  BY <1>1, <1>2 DEF CreateFolder, HandlersTyped
<1>4. handler[h].at + 1 \in 0 .. PathLength
  BY <1>2, DocumentUploadAssumption
<1>5. r \in Request /\ r.pc = "folders" /\ r.key = handler[h].key
  BY <1>2, <1>4 DEF Request
<1>6. folders' \in 0 .. PathLength
  BY <1>1, <1>2, DocumentUploadAssumption DEF CreateFolder
<1> HIDE DEF r
<1>7. Turns(h, "folders")
  BY <1>1, <1>3, <1>5, Becoming DEF Turns, Becomes
<1> QED BY <1>1, <1>6, <1>7 DEF CreateFolder, Quiet, dbVars

LEMMA PrepareMoves ==
  ASSUME Shape, NEW h \in Handlers, PrepareTarget(h)
  PROVE  /\ handler[h].pc = "prepare" /\ Prepares(handler[h].key)
         /\ Turns(h, "recover")
<1> DEFINE r == [handler[h] EXCEPT !.pc = "recover", !.at = 0]
<1>1. HandlersTyped /\ handler[h].pc = "prepare"
  BY TypeParts DEF Shape, PrepareTarget, At
<1>2. handler[h] \in Request
  BY <1>1, Running
<1>3. handler' = [handler EXCEPT ![h] = r]
  BY <1>1, <1>2 DEF PrepareTarget, HandlersTyped
<1>4. r \in Request /\ r.pc = "recover" /\ r.key = handler[h].key
  <2>1. 0 \in 0 .. PathLength
    BY DocumentUploadAssumption
  <2> QED BY <1>2, <2>1 DEF Request
<1> HIDE DEF r
<1>5. Turns(h, "recover")
  BY <1>1, <1>3, <1>4, Becoming DEF Turns, Becomes
<1> QED BY <1>1, <1>5 DEF PrepareTarget, Prepares

\* A request whose file is written goes on with its ETag.
LEMMA WrittenMoves ==
  ASSUME Shape, NEW h \in Handlers, handler[h].pc # "idle", NEW etag \in Nat, Written(h, etag)
  PROVE  Turns(h, "versions") /\ handler'[h].etag = etag
<1> DEFINE r == [Idle EXCEPT !.pc = "versions", !.etag = etag, !.key = handler[h].key]
<1>1. HandlersTyped /\ handler[h].key \in Keys
  BY TypeParts, Running DEF Shape
<1>2. r \in Request /\ r.pc = "versions" /\ r.key = handler[h].key /\ r.etag = etag
  BY <1>1, IdleTyped DEF Idle, Request
<1>3. handler' = [handler EXCEPT ![h] = r]
  BY DEF Written
<1> HIDE DEF r
<1> QED BY <1>1, <1>2, <1>3, Becoming DEF Turns, Becomes

LEMMA RecoverMoves ==
  ASSUME Shape, NEW h \in Handlers, RecoverUploaded(h)
  PROVE  /\ handler[h].pc = "recover" /\ Quiet
         /\ \/ /\ Recoverable(h) /\ Turns(h, "versions")
               /\ handler'[h].etag = Newest(DocOf(handler[h].key))
            \/ ~Recoverable(h) /\ Turns(h, "put") /\ handler'[h].tries < 2
            \/ Becomes(h, Idle)
<1>1. HandlersTyped /\ handler[h].pc = "recover" /\ Quiet
  BY TypeParts DEF Shape, RecoverUploaded, At, Quiet, dbVars
<1>2. handler[h] \in Request /\ Newest(DocOf(handler[h].key)) \in Nat
  BY <1>1, Running, DocTyped DEF Newest
<1>3. CASE Recoverable(h) /\ Written(h, Newest(DocOf(handler[h].key)))
  BY <1>1, <1>2, <1>3, WrittenMoves
<1>4. CASE ~Recoverable(h) /\ handler[h].tries < 2 /\ Goto(h, "put")
  BY <1>1, <1>4, Going
<1>5. CASE Finish(h)
  BY <1>1, <1>5, Finishing
<1> QED BY <1>1, <1>3, <1>4, <1>5 DEF RecoverUploaded

LEMMA UploadMoves ==
  ASSUME Shape, NEW h \in Handlers, UploadFile(h)
  PROVE  /\ handler[h].pc = "put" /\ Appends(DocOf(handler[h].key), handler[h].key)
         /\ Turns(h, "versions")
         /\ handler'[h].etag = Newest(DocOf(handler[h].key)) + 1
<1>1. handler[h].pc = "put"
  BY DEF UploadFile, At
<1>2. ~Absent(handler[h].key) /\ Newest(DocOf(handler[h].key)) + 1 \in Nat
  BY <1>1, Running, DocTyped DEF Newest
<1>3. Written(h, Newest(DocOf(handler[h].key)) + 1)
  BY DEF UploadFile
<1> QED BY <1>1, <1>2, <1>3, WrittenMoves DEF UploadFile, Appends, At, dbVars

LEMMA FailMoves ==
  ASSUME Shape, NEW h \in Handlers, UploadFails(h)
  PROVE  /\ handler[h].pc = "put" /\ Turns(h, "recover") /\ faults' \in 0 .. MaxFaults
         /\ \/ Quiet /\ UNCHANGED <<late, raced>>
            \/ /\ Appends(DocOf(handler[h].key), handler[h].key)
               /\ UNCHANGED <<late, raced>>
            \/ /\ Quiet /\ late' = late \cup {handler[h].key}
               /\ raced' = raced \cup {handler[h].key}
<1>1. handler[h].pc = "put"
  BY DEF UploadFails, At
<1>2. /\ handler[h] \in Request /\ ~Absent(handler[h].key) /\ handler[h].tries \in 0 .. 1
  BY <1>1, Running, RequestFields DEF Shape, HandlerShape
<1>3. HandlersTyped /\ faults \in 0 .. MaxFaults
  BY TypeParts DEF Shape, OthersTyped
<1>4. PICK fatal \in BOOLEAN :
          handler' = [handler EXCEPT ![h].pc = "recover", ![h].tries = @ + 1,
                                     ![h].fatal = fatal]
  BY DEF UploadFails
<1> DEFINE r == [handler[h] EXCEPT !.pc = "recover", !.tries = @ + 1, !.fatal = fatal]
<1>5. handler' = [handler EXCEPT ![h] = r]
  BY <1>2, <1>3, <1>4 DEF HandlersTyped
<1>6. r \in Request /\ r.pc = "recover" /\ r.key = handler[h].key
  <2>1. handler[h].tries + 1 \in 0 .. 2
    BY <1>2
  <2> QED BY <1>2, <2>1 DEF Request
<1> HIDE DEF r
<1>7. Turns(h, "recover")
  BY <1>3, <1>5, <1>6, Becoming DEF Turns, Becomes
<1>8. faults' \in 0 .. MaxFaults
  BY <1>3, DocumentUploadAssumption DEF UploadFails
<1>9. \/ Quiet /\ UNCHANGED <<late, raced>>
      \/ /\ Appends(DocOf(handler[h].key), handler[h].key) /\ UNCHANGED <<late, raced>>
      \/ /\ Quiet /\ late' = late \cup {handler[h].key}
         /\ raced' = raced \cup {handler[h].key}
  BY <1>1, <1>2 DEF UploadFails, Quiet, Appends, At, dbVars
<1> QED BY <1>1, <1>7, <1>8, <1>9

LEMMA VersionMoves ==
  ASSUME Shape, NEW h \in Handlers, ExternalVersionId(h)
  PROVE  /\ handler[h].pc = "versions" /\ Quiet /\ faults' \in 0 .. MaxFaults
         /\ handler'[h].etag = handler[h].etag
         /\ \/ Turns(h, "download") /\ handler'[h].ext = Newest(DocOf(handler[h].key))
            \/ Turns(h, "content") /\ handler'[h].ext = 0
<1> DEFINE r(pc, ext) == [handler[h] EXCEPT !.pc = pc, !.ext = ext]
<1>1. HandlersTyped /\ handler[h].pc = "versions" /\ faults \in 0 .. MaxFaults
  BY TypeParts DEF Shape, ExternalVersionId, At, OthersTyped
<1>2. handler[h] \in Request /\ Newest(DocOf(handler[h].key)) \in Nat
  BY <1>1, Running, DocTyped DEF Newest
<1>3. ASSUME NEW pc \in {"download", "content"}, NEW ext \in Nat,
             handler' = [handler EXCEPT ![h].pc = pc, ![h].ext = ext]
      PROVE  Turns(h, pc) /\ handler'[h].ext = ext /\ handler'[h].etag = handler[h].etag
  <2>1. handler' = [handler EXCEPT ![h] = r(pc, ext)]
    BY <1>1, <1>2, <1>3 DEF HandlersTyped
  <2>2. /\ r(pc, ext) \in Request /\ r(pc, ext).pc = pc /\ r(pc, ext).key = handler[h].key
        /\ r(pc, ext).ext = ext /\ r(pc, ext).etag = handler[h].etag
    BY <1>2 DEF Request
  <2> HIDE DEF r
  <2> QED BY <1>1, <2>1, <2>2, Becoming DEF Turns, Becomes
<1>4. Quiet /\ faults' \in 0 .. MaxFaults
  BY <1>1, DocumentUploadAssumption DEF ExternalVersionId, Quiet, dbVars
<1> QED BY <1>1, <1>2, <1>3, <1>4 DEF ExternalVersionId

\* A request that has read its bytes.
LEMMA HashMoves ==
  ASSUME Shape, NEW h \in Handlers, handler[h].pc # "idle", NEW hash \in Contents,
         handler' = [handler EXCEPT ![h].pc = "record", ![h].hash = hash]
  PROVE  /\ Turns(h, "record") /\ handler'[h].hash = hash
         /\ handler'[h].etag = handler[h].etag /\ handler'[h].ext = handler[h].ext
<1> DEFINE r == [handler[h] EXCEPT !.pc = "record", !.hash = hash]
<1>1. HandlersTyped /\ handler[h] \in Request
  BY TypeParts, Running DEF Shape
<1>2. handler' = [handler EXCEPT ![h] = r]
  BY <1>1 DEF HandlersTyped
<1>3. /\ r \in Request /\ r.pc = "record" /\ r.key = handler[h].key
      /\ r.hash = hash /\ r.etag = handler[h].etag /\ r.ext = handler[h].ext
  BY <1>1 DEF Request
<1> HIDE DEF r
<1> QED BY <1>1, <1>2, <1>3, Becoming DEF Turns, Becomes

LEMMA DownloadMoves ==
  ASSUME Shape, NEW h \in Handlers, DownloadVersion(h)
  PROVE  LET d == DocOf(handler[h].key)  ext == handler[h].ext IN
         /\ handler[h].pc = "download" /\ Quiet
         /\ handler'[h].etag = handler[h].etag /\ handler'[h].ext = ext
         /\ \/ ext = Newest(d) /\ Turns(h, "content")
            \/ /\ ext # Newest(d) /\ Turns(h, "record")
               /\ handler'[h].hash = drive[d][ext] /\ drive[d][ext] \in Contents
<1> DEFINE d == DocOf(handler[h].key)
           ext == handler[h].ext
<1>1. HandlersTyped /\ handler[h].pc = "download" /\ Quiet
  BY TypeParts DEF Shape, DownloadVersion, At, Quiet, dbVars
<1>2. drive[d] \in Seq(Contents) /\ ext \in 1 .. Len(drive[d])
  BY <1>1, Running, DocTyped DEF Shape, HandlerReach, Newest
<1>3. drive[d][ext] \in Contents
  BY <1>2
<1>4. CASE ext = Newest(d)
  <2>1. Goto(h, "content")
    BY <1>4 DEF DownloadVersion, Goto
  <2> QED BY <1>1, <1>4, <2>1, Going
<1>5. CASE ext # Newest(d)
  <2>1. handler' = [handler EXCEPT ![h].pc = "record", ![h].hash = drive[d][ext]]
    BY <1>5 DEF DownloadVersion
  <2> QED BY <1>1, <1>3, <1>5, <2>1, HashMoves
<1> QED BY <1>4, <1>5

LEMMA ContentMoves ==
  ASSUME Shape, NEW h \in Handlers, DownloadContent(h)
  PROVE  LET d == DocOf(handler[h].key) IN
         /\ handler[h].pc = "content" /\ Quiet /\ Turns(h, "record")
         /\ handler'[h].etag = handler[h].etag /\ handler'[h].ext = handler[h].ext
         /\ handler'[h].hash = drive[d][Newest(d)] /\ drive[d][Newest(d)] \in Contents
<1> DEFINE d == DocOf(handler[h].key)
<1>1. handler[h].pc = "content" /\ Quiet
  BY DEF DownloadContent, At, Quiet, dbVars
<1>2. drive[d] \in Seq(Contents) /\ handler[h].etag \in 1 .. Len(drive[d])
  BY <1>1, Running, DocTyped DEF Shape, HandlerReach, Newest, Reading
<1>3. Last(drive[d]) = drive[d][Newest(d)] /\ drive[d][Newest(d)] \in Contents
  BY <1>2 DEF Newest, Last
<1> QED BY <1>1, <1>3, HashMoves DEF DownloadContent

LEMMA RecordMoves ==
  ASSUME Shape, NEW h \in Handlers, RecordGraphUpload(h)
  PROVE  /\ handler[h].pc = "record"
         /\ Ends(h) \/ (Records(h) /\ Turns(h, "finalize"))
<1>1. HandlersTyped /\ handler[h].pc = "record"
  BY TypeParts DEF Shape, RecordGraphUpload, At
<1> DEFINE k == handler[h].key
<1>2. CASE Versioning(k) /\ HasSignatureEvidence(DocOf(k))
  BY <1>1, <1>2, Finishing DEF RecordGraphUpload, Ends, Quiet
<1>3. CASE ~(Versioning(k) /\ HasSignatureEvidence(DocOf(k)))
  BY <1>1, <1>3, Going DEF RecordGraphUpload, Records
<1> QED BY <1>2, <1>3

LEMMA FinalizeMoves ==
  ASSUME Shape, NEW h \in Handlers, FinalizeUpload(h)
  PROVE  /\ handler[h].pc = "finalize"
         /\ Turns(h, "bind") \/ Becomes(h, Idle)
         /\ Quiet \/ Finalizes(handler[h].key)
<1>1. HandlersTyped /\ handler[h].pc = "finalize"
  BY TypeParts DEF Shape, FinalizeUpload, At
<1> DEFINE k == handler[h].key
<1>2. Known(k)
  BY <1>1 DEF Shape, HandlerShape
<1>3. \/ IF k \in External THEN Goto(h, "bind") ELSE Finish(h)
      \/ Finish(h)
  BY DEF FinalizeUpload
<1>4. Quiet \/ Finalizes(k)
  BY <1>2 DEF FinalizeUpload, Quiet, Finalizes, FinalizeRefused, Known, dbVars
<1> QED BY <1>1, <1>3, <1>4, Finishing, Going

LEMMA BindMoves ==
  ASSUME Shape, NEW h \in Handlers, BindDocument(h)
  PROVE  /\ Ends(h)
         /\ \/ UNCHANGED bound
            \/ \E k \in Keys : bound' = Append(bound, k) /\ Stored(k)
<1>1. HandlersTyped /\ handler[h].pc = "bind"
  BY TypeParts DEF Shape, BindDocument, At
<1>2. Ends(h)
  BY <1>1, Finishing DEF BindDocument, Ends, Quiet, dbVars
<1>3. handler[h].key \in Keys
  BY <1>1, Running
<1> QED BY <1>2, <1>3 DEF BindDocument, ReadyDocument

LEMMA AbortMoves ==
  ASSUME Shape, NEW h \in Handlers, Abort(h)
  PROVE  Ends(h) /\ faults' \in 0 .. MaxFaults
<1>1. HandlersTyped /\ faults \in 0 .. MaxFaults
  BY TypeParts DEF Shape, OthersTyped
<1> QED BY <1>1, Finishing, DocumentUploadAssumption DEF Abort, Ends, Quiet, dbVars

\* A request starts with the target it has reserved, or that of the document.
LEMMA StartMoves ==
  ASSUME Shape, NEW h \in Handlers, NEW k \in Keys, Start(h, k)
  PROVE  \E target \in Keys \cup {NoKey} :
            Begin(h, k, target) /\ (target # NoKey => docs[target] # 0)
<1>1. CASE \E target \in Keys \cup {NoKey} : StartUpload(h, k, target)
  BY <1>1 DEF StartUpload
<1>2. CASE StartExternal(h, k)
  <2> DEFINE target == ExternalTarget(k)
  <2>1. RowsTyped /\ bound \in Seq(Keys)
    BY TypeParts DEF Shape, OthersTyped
  <2>2. CASE ops[k].state # "absent"
    <3>1. target = ops[k].target /\ target \in Keys \cup {NoKey}
      BY <2>2, DocTyped, RowFields DEF ExternalTarget
    <3>2. target # NoKey => docs[target] # 0
      BY <3>1 DEF Shape, RowShape, Versioning
    <3> HIDE DEF target
    <3> QED BY <1>2, <3>1, <3>2 DEF StartExternal, target
  <2>3. CASE ~(ops[k].state # "absent") /\ bound # <<>> /\ (k \in Docx <=> DocOf(Last(bound)) \in Docx)
    <3>1. Last(bound) \in Range(bound) /\ Last(bound) \in Keys
      BY <2>1, <2>3 DEF Last, Range
    <3>2. docs[DocOf(Last(bound))] # 0 /\ DocOf(Last(bound)) \in Keys
      BY <3>1, DocTyped DEF Shape, SignShape, RowShape
    <3>3. target = DocOf(Last(bound))
      BY <2>3 DEF ExternalTarget
    <3> HIDE DEF target
    <3> QED BY <1>2, <3>2, <3>3 DEF StartExternal, target
  <2>4. CASE ~(ops[k].state # "absent") /\ ~(bound # <<>> /\ (k \in Docx <=> DocOf(Last(bound)) \in Docx))
    <3>1. target = NoKey
      BY <2>4 DEF ExternalTarget
    <3> HIDE DEF target
    <3> QED BY <1>2, <3>1 DEF StartExternal, target
  <2> QED BY <2>2, <2>3, <2>4
<1> QED BY <1>1, <1>2 DEF Start

LEMMA EditMoves ==
  ASSUME Shape, NEW d \in Keys, EditInSharePoint(d)
  PROVE  Appends(d, Foreign) /\ edits' \in 0 .. MaxEdits
<1>1. edits \in 0 .. MaxEdits
  BY TypeParts DEF Shape, OthersTyped
<1> QED BY <1>1, DocumentUploadAssumption DEF EditInSharePoint, Appends, dbVars

LEMMA LateMoves ==
  ASSUME Shape, NEW k \in Keys, LateWrite(k)
  PROVE  Appends(DocOf(k), k)
BY DEF LateWrite, Appends, dbVars, Shape, SignShape

\* Every step has one of six effects on the rows and files.
LEMMA Effects ==
  ASSUME Shape, [Next]_uploadVars
  PROVE  Effect
<1>1. ASSUME NEW h \in Handlers, HandlerStep(h) PROVE Effect
  <2>1. ASSUME handler[h].pc # "idle"
        PROVE  /\ handler[h].key \in Keys /\ DocOf(handler[h].key) \in Keys
               /\ handler[h].key \in Contents
    BY <2>1, Running DEF Contents
  <2>2. CASE ReserveUpload(h)
    BY <2>1, <2>2, ReserveMoves DEF Effect, Ends
  <2>3. CASE ReadReservation(h)
    BY <2>3, ReadMoves DEF Effect, Ends, GoesOn
  <2>4. CASE EnsureFolders(h)
    BY <2>4, EnsureMoves DEF Effect
  <2>5. CASE CreateFolder(h)
    BY <2>5, CreateMoves DEF Effect
  <2>6. CASE PrepareTarget(h)
    BY <2>1, <2>6, PrepareMoves DEF Effect
  <2>7. CASE RecoverUploaded(h)
    BY <2>7, RecoverMoves DEF Effect
  <2>8. CASE UploadFile(h)
    BY <2>1, <2>8, UploadMoves DEF Effect
  <2>9. CASE ExternalVersionId(h)
    BY <2>9, VersionMoves DEF Effect
  <2>10. CASE DownloadVersion(h)
    BY <2>10, DownloadMoves DEF Effect
  <2>11. CASE DownloadContent(h)
    BY <2>11, ContentMoves DEF Effect
  <2>12. CASE RecordGraphUpload(h)
    BY <2>12, RecordMoves DEF Effect, Ends
  <2>13. CASE FinalizeUpload(h)
    BY <2>1, <2>13, FinalizeMoves DEF Effect
  <2>14. CASE BindDocument(h)
    BY <2>14, BindMoves DEF Effect, Ends
  <2> QED BY <1>1, <2>2, <2>3, <2>4, <2>5, <2>6, <2>7, <2>8, <2>9, <2>10, <2>11, <2>12,
             <2>13, <2>14 DEF HandlerStep
<1>2. ASSUME NEW h \in Handlers, UploadFails(h) PROVE Effect
  BY <1>2, FailMoves, Running DEF Effect, Contents
<1>3. ASSUME NEW h \in Handlers, Abort(h) PROVE Effect
  BY <1>3, AbortMoves DEF Effect, Ends
<1>4. ASSUME NEW h \in Handlers, NEW k \in Keys, Start(h, k) PROVE Effect
  BY <1>4, StartMoves, BeginMoves DEF Effect
<1>5. ASSUME NEW k \in Keys, ReadEvidence(k) PROVE Effect
  BY <1>5 DEF ReadEvidence, Effect, Quiet, dbVars, handlerVars
<1>6. ASSUME NEW k \in Keys, EditInSharePoint(k) PROVE Effect
  BY <1>6, EditMoves DEF Effect, Contents
<1>7. ASSUME NEW k \in Keys, LateWrite(k) PROVE Effect
  BY <1>7, LateMoves, DocTyped DEF Effect, Contents
<1>8. CASE ReadExactContent \/ Sign
  BY <1>8 DEF ReadExactContent, Sign, Effect, Quiet, dbVars, handlerVars
<1>9. ASSUME NEW ok \in BOOLEAN, ValidateConnection(ok) PROVE Effect
  BY <1>9 DEF ValidateConnection, Effect, Quiet, dbVars
<1>10. CASE UNCHANGED uploadVars
  BY <1>10 DEF uploadVars, Effect, Quiet
<1> QED BY <1>1, <1>2, <1>3, <1>4, <1>5, <1>6, <1>7, <1>8, <1>9, <1>10 DEF Next

-----------------------------------------------------------------------------
(* The effects, row by row                                                 *)

RowsKept(k) == \A j \in Keys : j # k => ops'[j] = ops[j]

LEMMA RowUpdated ==
  ASSUME RowsTyped, NEW k \in Keys, NEW r \in Row, ops' = [ops EXCEPT ![k] = r]
  PROVE  ops' \in [Keys -> Row] /\ ops'[k] = r /\ RowsKept(k)
BY DEF RowsTyped, RowsKept

LEMMA ReservesRows ==
  ASSUME Shape, NEW k \in Keys, NEW d \in Keys \cup {NoKey}, Reserves(k, d)
  PROVE  /\ RowsTyped' /\ RowsKept(k) /\ UNCHANGED <<docs, version, drive>>
         /\ ops'[k].state = "reserved" /\ ops'[k].target = d
         /\ ops'[k].baseline = IF d = NoKey THEN 0 ELSE docs[d]
<1> DEFINE base == IF d = NoKey THEN 0 ELSE docs[d]
           r == [NoOp EXCEPT !.state = "reserved", !.target = d, !.baseline = base]
<1>1. RowsTyped
  BY TypeParts DEF Shape
<1>2. base \in Nat
  BY <1>1 DEF RowsTyped
<1>3. r \in Row /\ r.state = "reserved" /\ r.target = d /\ r.baseline = base
  <2> HIDE DEF base
  <2> QED BY <1>2, DocumentUploadAssumption DEF NoOp, Row
<1>4. ops' = [ops EXCEPT ![k] = r]
  BY DEF Reserves
<1> HIDE DEF r
<1>5. ops' \in [Keys -> Row] /\ ops'[k] = r /\ RowsKept(k)
  BY <1>1, <1>3, <1>4, RowUpdated
<1>6. UNCHANGED <<docs, version, drive>>
  BY DEF Reserves
<1> QED BY <1>1, <1>3, <1>5, <1>6 DEF RowsTyped

LEMMA PreparesRows ==
  ASSUME Shape, NEW k \in Keys, Prepares(k)
  PROVE  /\ RowsTyped' /\ RowsKept(k) /\ UNCHANGED <<docs, version, drive>>
         /\ ops'[k].state = ops[k].state /\ ops'[k].target = ops[k].target
         /\ ops'[k].baseline = ops[k].baseline /\ ops'[k].etag = ops[k].etag
         /\ ops'[k].ext = ops[k].ext /\ ops'[k].hash = ops[k].hash
<1> DEFINE r == [ops[k] EXCEPT !.path = TRUE]
<1>1. RowsTyped /\ ops[k] \in Row
  BY TypeParts, DocTyped DEF Shape
<1>2. /\ r \in Row /\ r.state = ops[k].state /\ r.target = ops[k].target
      /\ r.baseline = ops[k].baseline /\ r.etag = ops[k].etag
      /\ r.ext = ops[k].ext /\ r.hash = ops[k].hash
  BY <1>1 DEF Row
<1>3. ops' = [ops EXCEPT ![k] = r]
  BY <1>1 DEF Prepares, RowsTyped
<1> HIDE DEF r
<1>4. ops' \in [Keys -> Row] /\ ops'[k] = r /\ RowsKept(k)
  BY <1>1, <1>2, <1>3, RowUpdated
<1>5. UNCHANGED <<docs, version, drive>>
  BY DEF Prepares
<1> QED BY <1>1, <1>2, <1>4, <1>5 DEF RowsTyped

LEMMA RecordsRows ==
  ASSUME Shape, NEW h \in Handlers, Records(h)
  PROVE  LET k == handler[h].key IN
         /\ RowsTyped' /\ RowsKept(k) /\ UNCHANGED <<docs, version, drive>>
         /\ ops'[k].state = "uploaded" /\ ops'[k].target = ops[k].target
         /\ ops'[k].baseline = ops[k].baseline /\ ops'[k].etag = handler[h].etag
         /\ ops'[k].ext = handler[h].ext /\ ops'[k].hash = handler[h].hash
<1> DEFINE k == handler[h].key
           r == [ops[k] EXCEPT !.state = "uploaded", !.etag = handler[h].etag,
                               !.ext = handler[h].ext, !.hash = handler[h].hash]
<1>1. handler[h].pc = "record"
  BY DEF Records, At
<1>2. RowsTyped /\ ops[k] \in Row /\ k \in Keys /\ handler[h] \in Request
  BY <1>1, TypeParts, Running DEF Shape
<1>3. /\ r \in Row /\ r.state = "uploaded" /\ r.target = ops[k].target
      /\ r.baseline = ops[k].baseline /\ r.etag = handler[h].etag
      /\ r.ext = handler[h].ext /\ r.hash = handler[h].hash
  <2>1. /\ handler[h].etag \in Nat /\ handler[h].ext \in Nat
        /\ handler[h].hash \in Contents \cup {NoKey}
    BY <1>2, RequestFields
  <2> QED BY <1>2, <2>1 DEF Row
<1>4. ops' = [ops EXCEPT ![k] = r]
  BY <1>2 DEF Records, RowsTyped
<1>5. UNCHANGED <<docs, version, drive>>
  BY DEF Records
<1> HIDE DEF r
<1>6. ops' \in [Keys -> Row] /\ ops'[k] = r /\ RowsKept(k)
  BY <1>2, <1>3, <1>4, RowUpdated
<1> QED BY <1>2, <1>3, <1>5, <1>6 DEF RowsTyped

LEMMA FinalizesRows ==
  ASSUME Shape, NEW k \in Keys, Finalizes(k)
  PROVE  /\ RowsTyped' /\ RowsKept(k) /\ UNCHANGED drive
         /\ ops'[k].state = "completed" /\ ops'[k].target = ops[k].target
         /\ ops'[k].baseline = ops[k].baseline /\ ops'[k].etag = ops[k].etag
         /\ ops'[k].ext = ops[k].ext /\ ops'[k].hash = ops[k].hash
         /\ version'[k] = [ext |-> ops[k].ext, hash |-> ops[k].hash]
         /\ \A j \in Keys : j # k => version'[j] = version[j]
         /\ docs'[DocOf(k)] = ops[k].etag
         /\ \A d \in Keys : d # DocOf(k) => docs'[d] = docs[d]
<1> DEFINE r == [ops[k] EXCEPT !.state = "completed"]
           v == [ext |-> ops[k].ext, hash |-> ops[k].hash]
<1>1. RowsTyped /\ ops[k] \in Row /\ DocOf(k) \in Keys
  BY TypeParts, DocTyped DEF Shape
<1>2. /\ r \in Row /\ r.state = "completed" /\ r.target = ops[k].target
      /\ r.baseline = ops[k].baseline /\ r.etag = ops[k].etag
      /\ r.ext = ops[k].ext /\ r.hash = ops[k].hash
  BY <1>1 DEF Row
<1>3. ops' = [ops EXCEPT ![k] = r]
  BY <1>1 DEF Finalizes, RowsTyped
<1> HIDE DEF r
<1>4. ops' \in [Keys -> Row] /\ ops'[k] = r /\ RowsKept(k)
  BY <1>1, <1>2, <1>3, RowUpdated
<1>5. /\ version' \in [Keys -> [ext : Nat, hash : Contents \cup {NoKey}]]
      /\ version'[k] = v /\ \A j \in Keys : j # k => version'[j] = version[j]
  <2>1. v \in [ext : Nat, hash : Contents \cup {NoKey}]
    BY <1>1, RowFields
  <2>2. version' = [version EXCEPT ![k] = v]
    BY DEF Finalizes
  <2> HIDE DEF v
  <2> QED BY <1>1, <2>1, <2>2 DEF RowsTyped
<1>6. /\ docs' \in [Keys -> Nat] /\ docs'[DocOf(k)] = ops[k].etag
      /\ \A d \in Keys : d # DocOf(k) => docs'[d] = docs[d]
  <2>1. ops[k].etag \in Nat
    BY <1>1, RowFields
  <2> QED BY <1>1, <2>1 DEF Finalizes, RowsTyped
<1>7. UNCHANGED drive
  BY DEF Finalizes
<1> QED BY <1>1, <1>2, <1>4, <1>5, <1>6, <1>7 DEF RowsTyped

LEMMA AppendsRows ==
  ASSUME Shape, NEW d \in Keys, NEW c \in Contents, Appends(d, c)
  PROVE  /\ RowsTyped' /\ UNCHANGED <<ops, docs, version>>
         /\ drive'[d] \in Seq(Contents) /\ Len(drive'[d]) = Len(drive[d]) + 1
         /\ drive'[d][Len(drive[d]) + 1] = c
         /\ \A i \in 1 .. Len(drive[d]) : drive'[d][i] = drive[d][i]
         /\ \A e \in Keys : e # d => drive'[e] = drive[e]
<1>1. RowsTyped /\ drive[d] \in Seq(Contents)
  BY TypeParts, DocTyped DEF Shape
<1>2. drive'[d] = Append(drive[d], c) /\ \A e \in Keys : e # d => drive'[e] = drive[e]
  BY <1>1 DEF Appends, RowsTyped
<1>3. /\ drive'[d] \in Seq(Contents) /\ Len(drive'[d]) = Len(drive[d]) + 1
      /\ drive'[d][Len(drive[d]) + 1] = c
      /\ \A i \in 1 .. Len(drive[d]) : drive'[d][i] = drive[d][i]
  BY <1>1, <1>2
<1>4. drive' \in [Keys -> Seq(Contents)] /\ UNCHANGED <<ops, docs, version>>
  BY <1>1, <1>3 DEF Appends, RowsTyped
<1> QED BY <1>1, <1>2, <1>3, <1>4 DEF RowsTyped

-----------------------------------------------------------------------------
(* Nothing is taken back                                                   *)

\* What a step keeps of a row and of a file.
Grows(k) ==
    /\ Len(drive'[k]) \in Nat /\ Len(drive[k]) <= Len(drive'[k])
    /\ \A i \in 1 .. Len(drive[k]) : drive'[k][i] = drive[k][i]
    /\ ~Absent(k) => /\ ops'[k].state # "absent" /\ ops'[k].target = ops[k].target
                     /\ ops'[k].baseline = ops[k].baseline
    /\ Known(k) => ops'[k].state \in {"uploaded", "completed"}
    /\ Stored(k) => version'[k] = version[k]
    /\ docs[k] # 0 => docs'[k] # 0

LEMMA QuietGrows == ASSUME Shape, Quiet, NEW j \in Keys PROVE Grows(j) /\ RowsTyped'
<1>1. RowsTyped
  BY TypeParts DEF Shape
<1>2. Len(drive[j]) \in Nat
  BY DocTyped
<1> QED BY <1>1, <1>2 DEF Quiet, Grows, RowsTyped, Known, Absent

LEMMA ReservesGrows ==
  ASSUME Shape, NEW k \in Keys, NEW d \in Keys \cup {NoKey}, Reserves(k, d), NEW j \in Keys
  PROVE  Grows(j)
<1>1. Len(drive[j]) \in Nat
  BY DocTyped
<1>2. Absent(k)
  BY DEF Reserves
<1>3. CASE j = k
  BY <1>1, <1>2, <1>3, ReservesRows DEF Grows, Known, Absent
<1>4. CASE j # k
  BY <1>1, <1>4, ReservesRows DEF Grows, RowsKept, Known, Absent
<1> QED BY <1>3, <1>4

LEMMA PreparesGrows ==
  ASSUME Shape, NEW k \in Keys, Prepares(k), NEW j \in Keys
  PROVE  Grows(j)
<1>1. Len(drive[j]) \in Nat
  BY DocTyped
<1> QED BY <1>1, PreparesRows DEF Grows, RowsKept, Known, Absent

LEMMA RecordsGrows ==
  ASSUME Shape, NEW h \in Handlers, Records(h), NEW j \in Keys
  PROVE  Grows(j)
<1>1. Len(drive[j]) \in Nat
  BY DocTyped
<1> QED BY <1>1, RecordsRows DEF Grows, RowsKept, Known, Absent

LEMMA FinalizesGrows ==
  ASSUME Shape, NEW k \in Keys, Finalizes(k), NEW j \in Keys
  PROVE  Grows(j)
<1>1. Len(drive[j]) \in Nat
  BY DocTyped
<1>2. ops[k].etag # 0
  BY DEF Finalizes, Shape, RowReach, Known
<1> QED BY <1>1, <1>2, FinalizesRows DEF Grows, RowsKept, Known, Absent, Finalizes

LEMMA AppendsGrows ==
  ASSUME Shape, NEW d \in Keys, NEW c \in Contents, Appends(d, c), NEW j \in Keys
  PROVE  Grows(j)
<1>1. Len(drive[j]) \in Nat
  BY DocTyped
<1>2. Len(drive'[j]) \in Nat /\ Len(drive[j]) <= Len(drive'[j])
  BY <1>1, AppendsRows
<1>3. \A i \in 1 .. Len(drive[j]) : drive'[j][i] = drive[j][i]
  BY AppendsRows
<1> QED BY <1>2, <1>3, AppendsRows DEF Grows, Known, Absent

LEMMA Growing ==
  ASSUME Shape, Effect
  PROVE  RowsTyped' /\ \A j \in Keys : Grows(j)
<1>1. CASE Quiet
  <2>1. RowsTyped'
    BY <1>1, TypeParts DEF Shape, Quiet, RowsTyped
  <2> QED BY <1>1, <2>1, QuietGrows
<1>2. ASSUME NEW k \in Keys, NEW d \in Keys \cup {NoKey}, Reserves(k, d)
      PROVE  RowsTyped' /\ \A j \in Keys : Grows(j)
  BY <1>2, ReservesRows, ReservesGrows
<1>3. ASSUME NEW k \in Keys, Prepares(k)
      PROVE  RowsTyped' /\ \A j \in Keys : Grows(j)
  BY <1>3, PreparesRows, PreparesGrows
<1>4. ASSUME NEW k \in Keys, Finalizes(k)
      PROVE  RowsTyped' /\ \A j \in Keys : Grows(j)
  BY <1>4, FinalizesRows, FinalizesGrows
<1>5. ASSUME NEW h \in Handlers, Records(h)
      PROVE  RowsTyped' /\ \A j \in Keys : Grows(j)
  BY <1>5, RecordsRows, RecordsGrows
<1>6. ASSUME NEW d \in Keys, NEW c \in Contents, Appends(d, c)
      PROVE  RowsTyped' /\ \A j \in Keys : Grows(j)
  BY <1>6, AppendsRows, AppendsGrows
<1> QED BY <1>1, <1>2, <1>3, <1>4, <1>5, <1>6 DEF Effect

\* The document of an operation stays the same, a version stays stored.
LEMMA Steady ==
  ASSUME Shape, NEW k \in Keys, Grows(k), ~Absent(k)
  PROVE  /\ DocOf(k)' = DocOf(k) /\ ~Absent(k)' /\ (Versioning(k)' <=> Versioning(k))
         /\ Stored(k) => Stored(k)'
         /\ Known(k) => Known(k)'
BY DEF Grows, DocOf, Absent, Versioning, Stored, Known

-----------------------------------------------------------------------------
(* The rows keep their shape                                               *)

LEMMA StoredIsKnown == ASSUME Shape, NEW k \in Keys, Stored(k) PROVE ~Absent(k)
BY DEF Shape, RowShape, Known, Absent

LEMMA RowShapeKept ==
  ASSUME Shape, Effect, NEW j \in Keys
  PROVE  RowShape(j)'
<1>1. RowShape(j) /\ Grows(j) /\ RowsTyped'
  BY Growing DEF Shape
<1>2. CASE Quiet
  BY <1>1, <1>2 DEF Quiet, RowShape, Absent, Stored, Known, DocOf, Versioning
<1>3. ASSUME NEW k \in Keys, NEW d \in Keys \cup {NoKey}, Reserves(k, d) PROVE RowShape(j)'
  <2>1. CASE j # k
    BY <1>1, <1>3, <2>1, ReservesRows DEF RowsKept, RowShape, Absent, Stored, Known, DocOf,
       Versioning
  <2>2. CASE j = k
    <3>1. ~Stored(k) /\ docs[k] = 0
      BY <1>3, <2>2, <1>1, StoredIsKnown DEF Reserves, RowShape
    <3> QED BY <1>3, <2>2, <3>1, ReservesRows DEF Reserves, RowShape, Absent, Stored, Known, Versioning
  <2> QED BY <2>1, <2>2
<1>4. ASSUME NEW k \in Keys, Prepares(k) PROVE RowShape(j)'
  BY <1>1, <1>4, PreparesRows DEF RowsKept, RowShape, Absent, Stored, Known, DocOf, Versioning
<1>5. ASSUME NEW h \in Handlers, Records(h) PROVE RowShape(j)'
  <2>1. ~Absent(handler[h].key)
    BY <1>5, Running DEF Records, At
  <2> QED BY <1>1, <1>5, <2>1, RecordsRows
          DEF RowsKept, RowShape, Absent, Stored, Known, DocOf, Versioning
<1>6. ASSUME NEW k \in Keys, Finalizes(k) PROVE RowShape(j)'
  <2>1. Known(k) /\ RowShape(k) /\ DocOf(k) \in Keys /\ ops[k].etag # 0 /\ ops[k].hash \in Contents
    BY <1>6, DocTyped DEF Finalizes, Shape, RowReach, Known
  <2>2. Stored(k)'
    <3>1. version'[k] = [ext |-> ops[k].ext, hash |-> ops[k].hash]
      BY <1>6, FinalizesRows
    <3>2. ops[k].hash # NoKey
      BY <2>1, DocumentUploadAssumption DEF Contents
    <3>3. version'[k].hash = ops[k].hash /\ NoVersion.hash = NoKey
      BY <3>1 DEF NoVersion
    <3> QED BY <3>2, <3>3 DEF Stored
  <2>3. CASE j = k
    <3>1. DocOf(j)' = DocOf(j) /\ Known(j)' /\ ~Absent(j)' /\ docs'[DocOf(j)] # 0
      BY <1>6, <2>1, <2>3, FinalizesRows DEF DocOf, Known, Absent
    <3>2. Versioning(j)' <=> Versioning(j)
      BY <1>6, <2>3, FinalizesRows DEF Versioning
    <3>3. Versioning(j) => docs'[ops'[j].target] # 0
      BY <1>6, <2>3, <3>1, FinalizesRows DEF Versioning, DocOf
    <3>4. docs'[j] # 0 => ~Versioning(j)
      <4>1. CASE DocOf(j) = j
        <5>1. ops[j].target # j
          BY <2>1, <2>3, DocumentUploadAssumption DEF RowShape, Versioning
        <5> QED BY <4>1, <5>1 DEF DocOf, Versioning
      <4>2. CASE DocOf(j) # j
        BY <1>1, <1>6, <2>3, <4>2, FinalizesRows DEF RowShape
      <4> QED BY <4>1, <4>2
    <3> QED BY <2>2, <2>3, <3>1, <3>2, <3>3, <3>4 DEF RowShape
  <2>4. CASE j # k
    <3>1. /\ ops'[j] = ops[j] /\ version'[j] = version[j]
          /\ \A d \in Keys : docs[d] # 0 => docs'[d] # 0
      BY <1>6, <2>4, Growing, FinalizesRows DEF RowsKept, Grows
    <3>2. docs'[j] # 0 => docs[j] # 0
      <4>1. CASE DocOf(k) = j
        <5>1. Versioning(k) /\ docs[j] # 0
          BY <2>1, <2>4, <4>1 DEF DocOf, RowShape, Versioning
        <5> QED BY <5>1
      <4>2. CASE DocOf(k) # j
        BY <1>6, <4>2, FinalizesRows
      <4> QED BY <4>1, <4>2
    <3>3. DocOf(j) \in Keys /\ (Versioning(j) => ops[j].target \in Keys)
      BY DocTyped, RowFields DEF Versioning
    <3> QED BY <1>1, <3>1, <3>2, <3>3 DEF RowShape, Absent, Stored, Known, DocOf, Versioning
  <2> QED BY <2>3, <2>4
<1>7. ASSUME NEW d \in Keys, NEW c \in Contents, Appends(d, c) PROVE RowShape(j)'
  BY <1>1, <1>7, AppendsRows DEF RowShape, Absent, Stored, Known, DocOf, Versioning
<1> QED BY <1>2, <1>3, <1>4, <1>5, <1>6, <1>7 DEF Effect

\* A row that keeps its fields stays within its file.
LEMMA ReachKept ==
  ASSUME Shape, Effect, NEW j \in Keys,
         ops'[j].state \in {"uploaded", "completed"} => Known(j),
         ops'[j].target = ops[j].target, ops'[j].baseline = ops[j].baseline,
         ops'[j].etag = ops[j].etag, ops'[j].ext = ops[j].ext, ops'[j].hash = ops[j].hash,
         version'[j] = version[j], docs'[j] = docs[j]
  PROVE  RowReach(j)'
<1>1. RowReach(j) /\ Grows(j) /\ Grows(DocOf(j)) /\ DocOf(j) \in Keys
  BY Growing, DocTyped DEF Shape
<1>2. DocOf(j)' = DocOf(j)
  BY DEF DocOf
<1>3. /\ Len(drive[j]) \in Nat /\ Len(drive[DocOf(j)]) \in Nat
      /\ ops[j].etag \in Nat /\ ops[j].ext \in Nat /\ ops[j].baseline \in Nat
      /\ version[j].ext \in Nat /\ docs[j] \in Nat
  <2>1. RowsTyped
    BY TypeParts DEF Shape
  <2> QED BY <1>1, <2>1, DocTyped, RowFields DEF RowsTyped
<1>4. Known(j)' => Known(j)
  BY DEF Known
<1>5. Stored(j)' => Stored(j)
  BY DEF Stored
<1>6. \A n \in Nat : /\ n <= Newest(DocOf(j)) => n <= Newest(DocOf(j))'
                     /\ n <= Newest(j) => n <= Newest(j)'
  BY <1>1, <1>2, <1>3 DEF Grows, Newest
<1>7. Newest(DocOf(j)) \in Nat /\ Newest(DocOf(j))' \in Nat
  BY <1>1, <1>2, <1>3 DEF Grows, Newest
<1> QED BY <1>1, <1>3, <1>4, <1>5, <1>6, <1>7 DEF RowReach

LEMMA RowReachKept ==
  ASSUME Shape, Effect, NEW j \in Keys
  PROVE  RowReach(j)'
<1>1. RowsTyped /\ RowsTyped' /\ DocOf(j) \in Keys
  BY TypeParts, Growing, DocTyped DEF Shape
<1>2. CASE Quiet
  BY <1>2, ReachKept DEF Quiet, Known
<1>3. ASSUME NEW k \in Keys, NEW d \in Keys \cup {NoKey}, Reserves(k, d) PROVE RowReach(j)'
  <2>1. CASE j # k
    BY <1>3, <2>1, ReservesRows, ReachKept DEF RowsKept, Known
  <2>2. CASE j = k
    <3>1. ~Stored(j)' /\ ~Known(j)' /\ docs'[j] = docs[j] /\ drive' = drive
      BY <1>3, <2>2, ReservesRows, StoredIsKnown DEF Reserves, Stored, Known
    <3>2. docs[j] <= Newest(j) /\ (d # NoKey => docs[d] <= Newest(d))
      BY DEF Shape, RowReach
    <3>3. ops'[j].baseline <= Newest(DocOf(j))'
      <4>1. CASE d = NoKey
        <5>1. ops'[j].baseline = 0 /\ DocOf(j)' = j
          BY <1>3, <2>2, <4>1, ReservesRows DEF DocOf
        <5> QED BY <1>1, <3>1, <5>1 DEF RowsTyped, Newest
      <4>2. CASE d # NoKey
        <5>1. ops'[j].baseline = docs[d] /\ DocOf(j)' = d
          BY <1>3, <2>2, <4>2, ReservesRows DEF DocOf
        <5> QED BY <3>1, <3>2, <4>2, <5>1 DEF Newest
      <4> QED BY <4>1, <4>2
    <3> QED BY <3>1, <3>2, <3>3 DEF RowReach, Newest
  <2> QED BY <2>1, <2>2
<1>4. ASSUME NEW k \in Keys, Prepares(k) PROVE RowReach(j)'
  <2>1. CASE j # k
    BY <1>4, <2>1, PreparesRows, ReachKept DEF RowsKept, Known
  <2>2. CASE j = k
    BY <1>4, <2>2, PreparesRows, ReachKept DEF Known
  <2> QED BY <2>1, <2>2
<1>5. ASSUME NEW h \in Handlers, Records(h) PROVE RowReach(j)'
  <2>1. CASE j # handler[h].key
    BY <1>5, <2>1, RecordsRows, ReachKept DEF RowsKept, Known
  <2>2. CASE j = handler[h].key
    <3>1. /\ handler[h].etag \in 1 .. Newest(DocOf(j))
          /\ handler[h].ext <= Newest(DocOf(j)) /\ handler[h].hash \in Contents
      BY <1>5, <2>2 DEF Records, At, Shape, HandlerReach, Reading
    <3>2. /\ UNCHANGED <<docs, version, drive>> /\ ops'[j].target = ops[j].target
          /\ ops'[j].baseline = ops[j].baseline /\ ops'[j].etag = handler[h].etag
          /\ ops'[j].ext = handler[h].ext /\ ops'[j].hash = handler[h].hash
      BY <1>5, <2>2, RecordsRows
    <3>3. DocOf(j)' = DocOf(j) /\ Newest(DocOf(j))' = Newest(DocOf(j)) /\ Newest(j)' = Newest(j)
      BY <3>2 DEF DocOf, Newest
    <3>4. RowReach(j) /\ (Stored(j)' <=> Stored(j))
      BY <3>2 DEF Shape, Stored
    <3> QED BY <3>1, <3>2, <3>3, <3>4 DEF RowReach
  <2> QED BY <2>1, <2>2
<1>6. ASSUME NEW k \in Keys, Finalizes(k) PROVE RowReach(j)'
  <2>1. /\ ops[k].etag <= Newest(DocOf(k)) /\ ops[k].etag \in 1 .. Newest(DocOf(k))
        /\ ops[k].ext <= Newest(DocOf(k)) /\ ops[k].hash \in Contents
    BY <1>6 DEF Finalizes, Shape, RowReach, Known
  <2>2. /\ ops'[j].target = ops[j].target /\ ops'[j].baseline = ops[j].baseline
        /\ ops'[j].etag = ops[j].etag /\ ops'[j].ext = ops[j].ext
        /\ ops'[j].hash = ops[j].hash /\ UNCHANGED drive
    BY <1>6, FinalizesRows DEF RowsKept
  <2>3. DocOf(j)' = DocOf(j) /\ Newest(DocOf(j))' = Newest(DocOf(j)) /\ Newest(j)' = Newest(j)
    BY <2>2 DEF DocOf, Newest
  <2>4. RowReach(j)
    BY DEF Shape
  <2>5. docs'[j] <= Newest(j)
    BY <1>6, <2>1, <2>4, FinalizesRows DEF RowReach
  <2>6. CASE j = k
    <3>1. version'[j] = [ext |-> ops[j].ext, hash |-> ops[j].hash]
      BY <1>6, <2>6, FinalizesRows
    <3>2. version'[j].ext = ops[j].ext
      BY <3>1
    <3> QED BY <2>1, <2>2, <2>3, <2>4, <2>5, <2>6, <3>2 DEF RowReach
  <2>7. CASE j # k
    <3>1. (Stored(j)' <=> Stored(j)) /\ version'[j] = version[j] /\ (Known(j)' <=> Known(j))
      BY <1>6, <2>7, FinalizesRows DEF Stored, Known, RowsKept
    <3> QED BY <2>2, <2>3, <2>4, <2>5, <3>1 DEF RowReach
  <2> QED BY <2>6, <2>7
<1>7. ASSUME NEW d \in Keys, NEW c \in Contents, Appends(d, c) PROVE RowReach(j)'
  BY <1>7, AppendsRows, ReachKept DEF Known
<1> QED BY <1>2, <1>3, <1>4, <1>5, <1>6, <1>7 DEF Effect

\* A new native version is an edit, or of an upload of the document.
LEMMA FileShapeKept ==
  ASSUME Shape, Effect, NEW e \in Keys
  PROVE  FileShape(e)'
<1>1. FileShape(e) /\ drive[e] \in Seq(Contents) /\ RowsTyped' /\ Grows(e)
  BY Growing, DocTyped DEF Shape
<1>2. /\ DOMAIN drive[e] = 1 .. Len(drive[e]) /\ DOMAIN drive'[e] = 1 .. Len(drive'[e])
      /\ \A i \in DOMAIN drive[e] : drive[e][i] \in Contents
  BY <1>1 DEF RowsTyped
<1>3. ASSUME NEW i \in DOMAIN drive'[e], i \in DOMAIN drive[e], drive'[e][i] # Foreign
      PROVE  (~Absent(drive[e][i]) /\ DocOf(drive[e][i]) = e)'
  <2>1. drive'[e][i] = drive[e][i] /\ drive[e][i] \in Keys
    BY <1>1, <1>2, <1>3 DEF Grows, Contents
  <2>2. ~Absent(drive[e][i]) /\ DocOf(drive[e][i]) = e
    BY <1>1, <1>3, <2>1 DEF FileShape
  <2>3. Grows(drive[e][i])
    BY <2>1, Growing
  <2>4. ~Absent(drive[e][i])' /\ DocOf(drive[e][i])' = DocOf(drive[e][i])
    BY <2>1, <2>2, <2>3 DEF Grows, Absent, DocOf
  <2> QED BY <2>1, <2>2, <2>4 DEF Absent, DocOf
<1>4. ASSUME NEW i \in DOMAIN drive'[e], i \notin DOMAIN drive[e], drive'[e][i] # Foreign
      PROVE  (~Absent(drive[e][i]) /\ DocOf(drive[e][i]) = e)'
  <2>1. PICK d \in Keys, c \in Contents : Appends(d, c)
    <3>1. ~(drive' = drive)
      BY <1>4
    <3> QED BY <3>1 DEF Effect, Quiet, Reserves, Prepares, Finalizes, Records
  <2>2. d = e /\ i = Len(drive[e]) + 1 /\ drive'[e][i] = c /\ UNCHANGED ops
    BY <1>1, <1>2, <1>4, <2>1, AppendsRows
  <2>3. ~Absent(c) /\ DocOf(c) = e
    BY <1>4, <2>1, <2>2 DEF Appends
  <2> QED BY <2>2, <2>3 DEF Absent, DocOf
<1> QED BY <1>3, <1>4 DEF FileShape

\* An operation is inserted when no other one of its document is open.
LEMMA OnePendingKept ==
  ASSUME Shape, Effect
  PROVE  OnePending'
<1> SUFFICES ASSUME NEW x \in Keys, NEW y \in Keys, Pending(x)', Pending(y)',
                    DocOf(x)' = DocOf(y)'
             PROVE  x = y
  BY DEF OnePending
<1>1. OnePending /\ Grows(x) /\ Grows(y)
  BY Growing DEF Shape
<1>2. ASSUME ~Absent(x), ~Absent(y) PROVE x = y
  <2>1. Pending(x) /\ Pending(y) /\ DocOf(x) = DocOf(y)
    BY <1>1, <1>2, Steady DEF Pending
  <2> QED BY <1>1, <2>1 DEF OnePending
<1>3. ASSUME NEW j \in Keys, NEW i \in Keys, Absent(j), Pending(j)', Pending(i)', i # j,
             DocOf(j)' = DocOf(i)'
      PROVE  FALSE
  <2>1. PICK k \in Keys, d \in Keys \cup {NoKey} : Reserves(k, d)
    <3>1. ops'[j] # ops[j]
      BY <1>3 DEF Pending, Absent
    <3>2. ASSUME NEW k \in Keys, Prepares(k) PROVE FALSE
      BY <1>3, <3>1, <3>2, PreparesRows DEF Pending, Absent, RowsKept
    <3>3. ASSUME NEW k \in Keys, Finalizes(k) PROVE FALSE
      BY <1>3, <3>1, <3>3, FinalizesRows DEF Finalizes, Absent, RowsKept
    <3>4. ASSUME NEW h \in Handlers, Records(h) PROVE FALSE
      BY <1>3, <3>1, <3>4, RecordsRows, Running DEF Records, At, RowsKept
    <3> QED BY <3>1, <3>2, <3>3, <3>4 DEF Effect, Quiet, Appends
  <2>2. k = j /\ ops'[i] = ops[i] /\ version'[i] = version[i] /\ ops'[j].target = d
    BY <1>3, <2>1, ReservesRows DEF RowsKept, Pending, Absent
  <2>3. ~Absent(i) /\ ~Stored(i) /\ DocOf(i)' = DocOf(i)
    BY <1>3, <2>2 DEF Pending, Absent, Stored, DocOf
  <2>4. ops[i].state \notin {"absent", "completed"}
    BY <2>3 DEF Absent, Shape, RowShape
  <2>5. CASE d = NoKey
    <3>1. DocOf(i) = j
      BY <1>3, <2>2, <2>3, <2>5 DEF DocOf
    <3>2. docs[j] # 0
      BY <1>3, <3>1 DEF DocOf, Shape, RowShape, Versioning
    <3> QED BY <1>3, <3>2, StoredIsKnown DEF Shape, RowShape
  <2>6. CASE d # NoKey
    <3>1. DocOf(i) = d
      BY <1>3, <2>2, <2>3, <2>6 DEF DocOf
    <3> QED BY <2>1, <2>4, <2>6, <3>1 DEF Reserves, Refused, OpenUpload
  <2> QED BY <2>5, <2>6
<1> QED BY <1>2, <1>3

-----------------------------------------------------------------------------
(* The requests keep their shape                                           *)

HandlerOK(h) == HandlerShape(h) /\ HandlerReach(h)

\* A request that waits loses nothing.
LEMMA WaitingOK ==
  ASSUME Shape, Effect, NEW g \in Handlers, handler'[g] = handler[g]
  PROVE  HandlerOK(g)'
<1> DEFINE k == handler[g].key
<1>1. HandlerShape(g) /\ HandlerReach(g)
  BY DEF Shape
<1>2. CASE handler[g].pc = "idle"
  BY <1>1, <1>2 DEF HandlerOK, HandlerShape, HandlerReach, Reading
<1>3. CASE handler[g].pc = "reserve"
  <2>1. k \in Keys /\ handler[g] \in Request
    BY <1>3, Running
  <2>2. handler[g].target \in Keys \cup {NoKey}
    BY <2>1, RequestFields
  <2>3. handler[g].target # NoKey => docs'[handler[g].target] # 0
    BY <1>1, <1>3, <2>2, Growing DEF Grows, HandlerShape
  <2> QED BY <1>3, <2>1, <2>3 DEF HandlerOK, HandlerShape, HandlerReach, Reading
<1>4. CASE handler[g].pc \notin {"idle", "reserve"}
  <2>1. k \in Keys /\ DocOf(k) \in Keys /\ ~Absent(k) /\ handler[g] \in Request
    BY <1>4, Running
  <2>2. DocOf(k)' = DocOf(k) /\ ~Absent(k)' /\ (Known(k) => Known(k)')
    BY <2>1, Growing, Steady
  <2>3. /\ Newest(DocOf(k)) \in Nat /\ Newest(DocOf(k))' \in Nat
        /\ Newest(DocOf(k)) <= Newest(DocOf(k))'
    BY <2>1, <2>2, DocTyped, Growing DEF Grows, Newest
  <2>4. handler[g].etag \in Nat /\ handler[g].ext \in Nat
    BY <2>1, RequestFields
  <2>5. HandlerShape(g)'
    BY <1>1, <1>4, <2>1, <2>2 DEF HandlerShape, Absent, Known
  <2>6. HandlerReach(g)'
    BY <1>1, <2>3, <2>4 DEF HandlerReach
  <2> QED BY <2>5, <2>6 DEF HandlerOK
<1> QED BY <1>2, <1>3, <1>4

\* A request that ends.
LEMMA EndedOK == ASSUME NEW h \in Handlers, Becomes(h, Idle) PROVE HandlerOK(h)'
<1>1. handler'[h].pc = "idle" /\ handler'[h].key = NoKey
  BY DEF Becomes, Idle
<1> QED BY <1>1 DEF HandlerOK, HandlerShape, HandlerReach, Reading

\* A request that goes on, but has not written its file or has recorded it.
LEMMA TurnedOK ==
  ASSUME Shape, Effect, NEW h \in Handlers, handler[h].pc # "idle",
         NEW pc \in {"read", "folders", "mkdir", "prepare", "recover", "put", "finalize", "bind"},
         Turns(h, pc),
         handler[h].pc = "reserve" => ops'[handler[h].key].state # "absent",
         pc = "mkdir" => handler'[h].at < PathLength,
         pc = "put" => handler'[h].tries < 2,
         pc = "finalize" => ops'[handler[h].key].state \in {"uploaded", "completed"}
  PROVE  HandlerOK(h)'
<1>1. handler'[h].key \in Keys /\ handler'[h].pc = pc /\ handler'[h].key = handler[h].key
  BY Running DEF Turns
<1>2. ops'[handler[h].key].state # "absent"
  BY Running, Growing DEF Grows
<1>3. HandlerShape(h)'
  BY <1>1, <1>2 DEF HandlerShape, Absent, Known
<1>4. HandlerReach(h)'
  BY <1>1 DEF HandlerReach, Reading
<1> QED BY <1>3, <1>4 DEF HandlerOK

\* A request that reads what it wrote.
LEMMA ReadingOK ==
  ASSUME Shape, Effect, NEW h \in Handlers, handler[h].pc \notin {"idle", "reserve"},
         NEW pc \in Reading, Turns(h, pc),
         LET newest == Len(drive'[DocOf(handler[h].key)]) IN
             /\ handler'[h].etag \in 1 .. newest
             /\ pc = "download" => handler'[h].ext \in 1 .. newest
             /\ pc \in {"content", "record"} => handler'[h].ext <= newest,
         pc = "record" => handler'[h].hash \in Contents
  PROVE  HandlerOK(h)'
<1>1. /\ handler'[h].key \in Keys /\ handler'[h].pc = pc /\ handler'[h].key = handler[h].key
      /\ ~Absent(handler[h].key)
  BY Running DEF Turns
<1>2. /\ ops'[handler[h].key].state # "absent"
      /\ ops'[handler[h].key].target = ops[handler[h].key].target
  BY <1>1, Growing DEF Grows, Absent
<1>3. HandlerShape(h)'
  BY <1>1, <1>2 DEF HandlerShape, Absent, Known, Reading
<1>4. Newest(DocOf(handler[h].key))' = Len(drive'[DocOf(handler[h].key)])
  BY <1>1, <1>2 DEF Newest, DocOf
<1>5. HandlerReach(h)'
  BY <1>1, <1>4 DEF HandlerReach
<1> QED BY <1>3, <1>5 DEF HandlerOK

\* The outcome of a step for the requests: only h moved, and it is well.
MovedOK(h) == handler' \in [Handlers -> Request] /\ OthersKept(h) /\ HandlerOK(h)'

LEMMA EndsOK == ASSUME NEW h \in Handlers, Becomes(h, Idle) PROVE MovedOK(h)
BY EndedOK DEF MovedOK, Becomes

LEMMA HandlerStepOK ==
  ASSUME Shape, Effect, NEW h \in Handlers, HandlerStep(h)
  PROVE  MovedOK(h)
<1> DEFINE k == handler[h].key
<1> USE DEF MovedOK
<1>1. CASE ReserveUpload(h)
  <2>1. handler[h].pc = "reserve" /\ (Ends(h) => MovedOK(h))
    BY <1>1, ReserveMoves, EndsOK DEF Ends
  <2>2. CASE Turns(h, "read") /\ Quiet /\ ~Absent(k)
    BY <2>1, <2>2, TurnedOK DEF Turns, Quiet, Absent
  <2>3. CASE Turns(h, "read") /\ Reserves(k, handler[h].target) /\ handler[h].target \in Keys \cup {NoKey}
    <3>1. ops'[k].state # "absent"
      BY <2>1, <2>3, Running, ReservesRows
    <3> QED BY <2>1, <2>3, <3>1, TurnedOK DEF Turns
  <2> QED BY <1>1, <2>1, <2>2, <2>3, ReserveMoves
<1>2. CASE ReadReservation(h)
  <2>1. handler[h].pc = "read" /\ (Ends(h) => MovedOK(h))
    BY <1>2, ReadMoves, EndsOK DEF Ends
  <2>2. ASSUME NEW pc \in {"bind", "finalize", "folders", "recover"}, GoesOn(h, pc),
               pc = "finalize" => Known(k)
        PROVE  MovedOK(h)
    BY <2>1, <2>2, TurnedOK DEF GoesOn, Turns, Quiet, Known
  <2> QED BY <1>2, <2>1, <2>2, ReadMoves
<1>3. CASE EnsureFolders(h)
  BY <1>3, EnsureMoves, TurnedOK DEF Turns
<1>4. CASE CreateFolder(h)
  BY <1>4, CreateMoves, TurnedOK DEF Turns
<1>5. CASE PrepareTarget(h)
  BY <1>5, PrepareMoves, TurnedOK DEF Turns
<1>6. CASE RecoverUploaded(h)
  <2>1. handler[h].pc = "recover" /\ Quiet
    BY <1>6, RecoverMoves
  <2>2. CASE /\ Recoverable(h) /\ Turns(h, "versions")
             /\ handler'[h].etag = Newest(DocOf(k))
    <3>1. handler'[h].etag \in 1 .. Len(drive'[DocOf(k)])
      <4>1. Newest(DocOf(k)) \in Nat /\ k \in Keys /\ DocOf(k) \in Keys
        BY <2>1, Running, DocTyped DEF Newest
      <4>2. CASE Versioning(k)
        <5>1. /\ docs[DocOf(k)] # 0 /\ docs[DocOf(k)] \in Nat
              /\ docs[DocOf(k)] <= Newest(DocOf(k))
          BY <4>1, <4>2, TypeParts DEF Shape, RowShape, RowReach, DocOf, Versioning, RowsTyped
        <5> QED BY <2>1, <2>2, <4>1, <5>1 DEF Quiet, Newest
      <4>3. CASE ~Versioning(k)
        <5>1. drive[DocOf(k)] # <<>> /\ drive[DocOf(k)] \in Seq(Contents)
          BY <2>2, <4>1, <4>3, DocTyped DEF Recoverable
        <5>2. Newest(DocOf(k)) # 0
          BY <5>1 DEF Newest
        <5> QED BY <2>1, <2>2, <4>1, <5>2 DEF Quiet, Newest
      <4> QED BY <4>2, <4>3
    <3> QED BY <2>1, <2>2, <3>1, ReadingOK DEF Turns, Reading
  <2>3. CASE Turns(h, "put") /\ handler'[h].tries < 2
    BY <2>1, <2>3, TurnedOK DEF Turns
  <2>4. CASE Becomes(h, Idle)
    BY <2>4, EndsOK
  <2> QED BY <1>6, <2>2, <2>3, <2>4, RecoverMoves
<1>7. CASE UploadFile(h)
  <2>1. /\ handler[h].pc = "put" /\ Turns(h, "versions") /\ Appends(DocOf(k), k)
        /\ handler'[h].etag = Newest(DocOf(k)) + 1
    BY <1>7, UploadMoves
  <2>2. k \in Contents /\ DocOf(k) \in Keys /\ Newest(DocOf(k)) \in Nat
    BY <2>1, Running, DocTyped DEF Contents, Newest
  <2>3. Len(drive'[DocOf(k)]) = Newest(DocOf(k)) + 1
    BY <2>1, <2>2, AppendsRows DEF Newest
  <2> QED BY <2>1, <2>2, <2>3, ReadingOK DEF Turns, Reading
<1>8. CASE ExternalVersionId(h)
  <2>1. handler[h].pc = "versions" /\ Quiet /\ handler'[h].etag = handler[h].etag
    BY <1>8, VersionMoves
  <2>2. handler[h].etag \in 1 .. Len(drive'[DocOf(k)]) /\ Newest(DocOf(k)) = Len(drive'[DocOf(k)])
    BY <2>1 DEF Shape, HandlerReach, Reading, Quiet, Newest
  <2>3. CASE Turns(h, "download") /\ handler'[h].ext = Newest(DocOf(k))
    BY <2>1, <2>2, <2>3, ReadingOK DEF Turns, Reading
  <2>4. CASE Turns(h, "content") /\ handler'[h].ext = 0
    BY <2>1, <2>2, <2>4, ReadingOK DEF Turns, Reading
  <2> QED BY <1>8, <2>3, <2>4, VersionMoves
<1>9. CASE DownloadVersion(h)
  <2>1. /\ handler[h].pc = "download" /\ Quiet
        /\ handler'[h].etag = handler[h].etag /\ handler'[h].ext = handler[h].ext
    BY <1>9, DownloadMoves
  <2>2. /\ handler[h].etag \in 1 .. Len(drive'[DocOf(k)])
        /\ handler[h].ext \in 1 .. Len(drive'[DocOf(k)])
    BY <2>1 DEF Shape, HandlerReach, Reading, Quiet, Newest
  <2>3. CASE Turns(h, "content")
    BY <2>1, <2>2, <2>3, ReadingOK DEF Turns, Reading
  <2>4. CASE Turns(h, "record") /\ handler'[h].hash \in Contents
    BY <2>1, <2>2, <2>4, ReadingOK DEF Turns, Reading
  <2> QED BY <1>9, <2>3, <2>4, DownloadMoves
<1>10. CASE DownloadContent(h)
  <2>1. /\ handler[h].pc = "content" /\ Quiet /\ Turns(h, "record")
        /\ handler'[h].etag = handler[h].etag /\ handler'[h].ext = handler[h].ext
        /\ handler'[h].hash \in Contents
    BY <1>10, ContentMoves
  <2>2. /\ handler[h].etag \in 1 .. Len(drive'[DocOf(k)])
        /\ handler[h].ext <= Len(drive'[DocOf(k)])
    BY <2>1 DEF Shape, HandlerReach, Reading, Quiet, Newest
  <2> QED BY <2>1, <2>2, ReadingOK DEF Turns, Reading
<1>11. CASE RecordGraphUpload(h)
  <2>1. handler[h].pc = "record" /\ (Ends(h) => MovedOK(h))
    BY <1>11, RecordMoves, EndsOK DEF Ends
  <2>2. CASE Records(h) /\ Turns(h, "finalize")
    BY <2>1, <2>2, RecordsRows, TurnedOK DEF Turns
  <2> QED BY <1>11, <2>1, <2>2, RecordMoves
<1>12. CASE FinalizeUpload(h)
  <2>1. handler[h].pc = "finalize" /\ (Becomes(h, Idle) => MovedOK(h))
    BY <1>12, FinalizeMoves, EndsOK
  <2>2. CASE Turns(h, "bind")
    BY <2>1, <2>2, TurnedOK DEF Turns
  <2> QED BY <1>12, <2>1, <2>2, FinalizeMoves
<1>13. CASE BindDocument(h)
  BY <1>13, BindMoves, EndsOK DEF Ends
<1> QED BY <1>1, <1>2, <1>3, <1>4, <1>5, <1>6, <1>7, <1>8, <1>9, <1>10, <1>11, <1>12, <1>13
        DEF HandlerStep

LEMMA HandlersOK ==
  ASSUME Shape, [Next]_uploadVars, Effect
  PROVE  HandlersTyped' /\ \A g \in Handlers : HandlerOK(g)'
<1>1. HandlersTyped
  BY TypeParts DEF Shape
<1>2. ASSUME NEW h \in Handlers, MovedOK(h)
      PROVE  HandlersTyped' /\ \A g \in Handlers : HandlerOK(g)'
  BY <1>2, WaitingOK DEF MovedOK, OthersKept, HandlersTyped
<1>3. CASE UNCHANGED handler
  BY <1>1, <1>3, WaitingOK DEF HandlersTyped
<1>4. ASSUME NEW h \in Handlers, UploadFails(h) PROVE MovedOK(h)
  <2>1. handler[h].pc = "put" /\ Turns(h, "recover")
    BY <1>4, FailMoves
  <2> QED BY <2>1, TurnedOK DEF Turns, MovedOK
<1>5. ASSUME NEW h \in Handlers, NEW k \in Keys, Start(h, k) PROVE MovedOK(h)
  <2>1. PICK target \in Keys \cup {NoKey} :
            Begin(h, k, target) /\ (target # NoKey => docs[target] # 0)
    BY <1>5, StartMoves
  <2>2. /\ Quiet /\ handler' \in [Handlers -> Request] /\ OthersKept(h)
        /\ handler'[h].pc = "reserve" /\ handler'[h].key = k /\ handler'[h].target = target
    BY <2>1, BeginMoves
  <2>3. HandlerOK(h)'
    BY <2>1, <2>2 DEF HandlerOK, HandlerShape, HandlerReach, Reading, Quiet
  <2> QED BY <2>2, <2>3 DEF MovedOK
<1>6. ASSUME NEW h \in Handlers, Abort(h) PROVE MovedOK(h)
  BY <1>6, AbortMoves, EndsOK DEF Ends
<1>7. ASSUME NEW k \in Keys, ReadEvidence(k) \/ EditInSharePoint(k) \/ LateWrite(k)
      PROVE  UNCHANGED handler
  BY <1>7 DEF ReadEvidence, EditInSharePoint, LateWrite, handlerVars
<1>8. CASE ReadExactContent \/ Sign
  BY <1>3, <1>8 DEF ReadExactContent, Sign, handlerVars
<1>9. ASSUME NEW ok \in BOOLEAN, ValidateConnection(ok) PROVE UNCHANGED handler
  BY <1>9 DEF ValidateConnection
<1>10. CASE UNCHANGED uploadVars
  BY <1>3, <1>10 DEF uploadVars
<1> QED BY <1>2, <1>3, <1>4, <1>5, <1>6, <1>7, <1>8, <1>9, <1>10, HandlerStepOK DEF Next

-----------------------------------------------------------------------------
(* The contract, its signature and the bounds                              *)

\* A version that the first read of its file does not refuse.
Candidate(k) == /\ ReadyDocument(k)
                /\ \/ version[k].ext = Newest(DocOf(k))
                   \/ drive[DocOf(k)][version[k].ext] = version[k].hash

\* What a step does to the bound versions and to the signature.
Signs ==
    /\ raced \subseteq raced' /\ raced' \subseteq Keys
    /\ \A k \in late' : k \in late \/ (k \in Keys /\ ~Absent(k) /\ k \in raced')
    /\ bound' = bound \/ \E k \in Keys : bound' = Append(bound, k) /\ Stored(k)
    /\ \/ signer' = signer
       \/ signer' = NotSigning
       \/ \E k \in Range(bound) :
             /\ signer' \in [pc : {"content", "verified"}, key : {k}] /\ Quiet
             /\ Candidate(k) \/ (signer.pc # "idle" /\ signer.key = k)
    /\ \/ signed' = signed
       \/ /\ signer.pc = "verified" /\ signed' = signer.key
          /\ ReadyDocument(signer.key) /\ Quiet

LEMMA HandlerStepSigns ==
  ASSUME Shape, NEW h \in Handlers, HandlerStep(h)
  PROVE  OthersTyped' /\ Signs
<1> DEFINE Rest == UNCHANGED <<connected, late, bound, signer, signed, raced, edits>>
<1>1. OthersTyped
  BY TypeParts DEF Shape
<1>2. ASSUME Rest, folders' = folders, faults' \in 0 .. MaxFaults PROVE OthersTyped' /\ Signs
  BY <1>1, <1>2 DEF OthersTyped, Signs
<1>3. CASE ReserveUpload(h) \/ ReadReservation(h) \/ EnsureFolders(h) \/ PrepareTarget(h)
           \/ RecoverUploaded(h) \/ UploadFile(h)
  <2>1. Rest /\ folders' = folders /\ faults' = faults
    BY <1>3 DEF ReserveUpload, ReadReservation, EnsureFolders, PrepareTarget, RecoverUploaded,
                UploadFile, signVars, boundsVars
  <2> QED BY <1>1, <1>2, <2>1 DEF OthersTyped
<1>4. CASE DownloadVersion(h) \/ DownloadContent(h) \/ RecordGraphUpload(h) \/ FinalizeUpload(h)
  <2>1. Rest /\ folders' = folders /\ faults' = faults
    BY <1>4 DEF DownloadVersion, DownloadContent, RecordGraphUpload, FinalizeUpload, signVars,
                boundsVars
  <2> QED BY <1>1, <1>2, <2>1 DEF OthersTyped
<1>5. CASE ExternalVersionId(h)
  <2>1. Rest /\ folders' = folders
    BY <1>5 DEF ExternalVersionId, signVars
  <2> QED BY <1>2, <1>5, <2>1, VersionMoves
<1>6. CASE CreateFolder(h)
  <2>1. Rest /\ faults' = faults
    BY <1>6 DEF CreateFolder, signVars, boundsVars
  <2> QED BY <1>1, <1>6, <2>1, CreateMoves DEF OthersTyped, Signs
<1>7. CASE BindDocument(h)
  <2>1. UNCHANGED <<folders, connected, late, signer, signed, raced, faults, edits>>
    BY <1>7 DEF BindDocument, boundsVars
  <2>2. \/ UNCHANGED bound
        \/ \E k \in Keys : bound' = Append(bound, k) /\ Stored(k)
    BY <1>7, BindMoves
  <2>3. bound' \in Seq(Keys)
    BY <1>1, <2>2 DEF OthersTyped
  <2> QED BY <1>1, <2>1, <2>2, <2>3 DEF OthersTyped, Signs
<1> QED BY <1>3, <1>4, <1>5, <1>6, <1>7 DEF HandlerStep

LEMMA StepSigns ==
  ASSUME Shape, [Next]_uploadVars
  PROVE  OthersTyped' /\ Signs
<1>1. OthersTyped
  BY TypeParts DEF Shape
<1>2. ASSUME NEW h \in Handlers, UploadFails(h) PROVE OthersTyped' /\ Signs
  <2>1. UNCHANGED <<folders, connected, bound, signer, signed, edits>>
    BY <1>2 DEF UploadFails, signVars
  <2>2. handler[h].key \in Keys /\ ~Absent(handler[h].key)
    BY <1>2, FailMoves, Running
  <2> QED BY <1>1, <1>2, <2>1, <2>2, FailMoves DEF OthersTyped, Signs
<1>3. ASSUME NEW h \in Handlers, NEW k \in Keys, Start(h, k) PROVE OthersTyped' /\ Signs
  <2>1. PICK target \in Keys \cup {NoKey} : Begin(h, k, target)
    BY <1>3, StartMoves
  <2>2. UNCHANGED <<folders, connected, late, bound, signer, signed, faults, edits>>
    BY <2>1 DEF Begin, signVars, boundsVars
  <2>3. raced \subseteq raced' /\ raced' \subseteq Keys
    BY <1>1, <2>1 DEF Begin, OthersTyped
  <2> QED BY <1>1, <2>2, <2>3 DEF OthersTyped, Signs
<1>4. ASSUME NEW h \in Handlers, Abort(h) PROVE OthersTyped' /\ Signs
  <2>1. UNCHANGED <<folders, connected, late, raced, bound, signer, signed, edits>>
    BY <1>4 DEF Abort, signVars
  <2> QED BY <1>1, <1>4, <2>1, AbortMoves DEF OthersTyped, Signs
<1>5. ASSUME NEW k \in Keys, ReadEvidence(k) PROVE OthersTyped' /\ Signs
  <2>1. UNCHANGED <<folders, connected, late, raced, bound, signed, faults, edits>>
    BY <1>5 DEF ReadEvidence, handlerVars, boundsVars
  <2>2. k \in Range(bound) /\ \E pc \in {"content", "verified"} : signer' = [pc |-> pc, key |-> k]
    BY <1>5 DEF ReadEvidence
  <2>3. Candidate(k) /\ Quiet
    BY <1>5 DEF ReadEvidence, Candidate, Exact, Quiet, dbVars, handlerVars
  <2> QED BY <1>1, <2>1, <2>2, <2>3 DEF OthersTyped, Signs
<1>6. CASE ReadExactContent
  <2>1. UNCHANGED <<folders, connected, late, raced, bound, signed, faults, edits>>
    BY <1>6 DEF ReadExactContent, handlerVars, boundsVars
  <2>2. CASE signer' = NotSigning
    <3>1. signer' \in [pc : {"idle", "content", "verified"}, key : Keys \cup {NoKey}]
      BY <2>2 DEF NotSigning
    <3> QED BY <1>1, <2>1, <2>2, <3>1 DEF OthersTyped, Signs
  <2>3. CASE signer' = [signer EXCEPT !.pc = "verified"]
    <3>1. signer.key \in Range(bound) /\ signer.pc # "idle" /\ Quiet
      BY <1>6 DEF ReadExactContent, Shape, SignShape, Quiet, dbVars, handlerVars
    <3>2. /\ signer' \in [pc : {"idle", "content", "verified"}, key : Keys \cup {NoKey}]
          /\ signer' \in [pc : {"content", "verified"}, key : {signer.key}]
      BY <1>1, <2>3 DEF OthersTyped
    <3> QED BY <1>1, <2>1, <3>1, <3>2 DEF OthersTyped, Signs
  <2> QED BY <1>6, <2>2, <2>3 DEF ReadExactContent
<1>7. CASE Sign
  <2>1. UNCHANGED <<folders, connected, late, raced, bound, faults, edits>>
    BY <1>7 DEF Sign, handlerVars, boundsVars
  <2>2. /\ signer' = NotSigning /\ signer.pc = "verified" /\ Quiet
        /\ signed' = signed \/ (signed' = signer.key /\ ReadyDocument(signer.key))
    BY <1>7 DEF Sign, Quiet, dbVars, handlerVars
  <2>3. signed' \in Keys \cup {NoKey} /\ signer' \in [pc : {"idle", "content", "verified"}, key : Keys \cup {NoKey}]
    BY <1>1, <2>2 DEF OthersTyped, NotSigning
  <2> QED BY <1>1, <2>1, <2>2, <2>3 DEF OthersTyped, Signs
<1>8. ASSUME NEW k \in Keys, EditInSharePoint(k) PROVE OthersTyped' /\ Signs
  <2>1. UNCHANGED <<folders, connected, late, raced, bound, signer, signed, faults>>
    BY <1>8 DEF EditInSharePoint, signVars
  <2> QED BY <1>1, <1>8, <2>1, EditMoves DEF OthersTyped, Signs
<1>9. ASSUME NEW k \in Keys, LateWrite(k) PROVE OthersTyped' /\ Signs
  <2>1. UNCHANGED <<folders, connected, raced, bound, signer, signed, faults, edits>>
    BY <1>9 DEF LateWrite, signVars, boundsVars
  <2>2. late' \subseteq late
    BY <1>9 DEF LateWrite
  <2> QED BY <1>1, <2>1, <2>2 DEF OthersTyped, Signs
<1>10. ASSUME NEW ok \in BOOLEAN, ValidateConnection(ok) PROVE OthersTyped' /\ Signs
  <2>1. UNCHANGED <<folders, late, raced, bound, signer, signed, edits>>
    BY <1>10 DEF ValidateConnection, signVars
  <2>2. faults' \in 0 .. MaxFaults /\ connected' \in BOOLEAN
    BY <1>1, <1>10, DocumentUploadAssumption DEF ValidateConnection, OthersTyped
  <2> QED BY <1>1, <2>1, <2>2 DEF OthersTyped, Signs
<1>11. CASE UNCHANGED uploadVars
  BY <1>1, <1>11 DEF uploadVars, OthersTyped, Signs
<1> QED BY <1>2, <1>3, <1>4, <1>5, <1>6, <1>7, <1>8, <1>9, <1>10, <1>11, HandlerStepSigns DEF Next

LEMMA SignShapeKept ==
  ASSUME Shape, [Next]_uploadVars, Effect
  PROVE  SignShape'
<1>1. Signs /\ SignShape /\ OthersTyped
  BY StepSigns, TypeParts DEF Shape
<1>2. \A k \in Keys : /\ ~Absent(k) => ~Absent(k)'
                      /\ Stored(k) => Stored(k)'
  BY Growing, Steady, StoredIsKnown
<1>3. \A k \in late' : ~Absent(k)' /\ k \in raced'
  BY <1>1, <1>2 DEF Signs, SignShape, OthersTyped
<1>4. Range(bound) \subseteq Range(bound') /\ \A k \in Range(bound') : k \in Keys /\ Stored(k)
  <2>1. CASE bound' = bound
    BY <1>1, <2>1 DEF SignShape, OthersTyped, Range
  <2>2. ASSUME NEW k \in Keys, bound' = Append(bound, k), Stored(k)
        PROVE  Range(bound) \subseteq Range(bound') /\ \A j \in Range(bound') : j \in Keys /\ Stored(j)
    <3>1. bound \in Seq(Keys)
      BY <1>1 DEF OthersTyped
    <3>2. /\ DOMAIN bound = 1 .. Len(bound) /\ DOMAIN bound' = 1 .. Len(bound) + 1
          /\ bound'[Len(bound) + 1] = k /\ \A i \in 1 .. Len(bound) : bound'[i] = bound[i]
          /\ \A i \in 1 .. Len(bound) : bound[i] \in Keys
          /\ Len(bound) \in Nat
      BY <2>2, <3>1
    <3>3. \A i \in 1 .. Len(bound) : bound[i] \in Range(bound) /\ bound[i] \in Range(bound')
      BY <3>2 DEF Range
    <3>4. \A j \in Range(bound') : j = k \/ j \in Range(bound)
      <4> SUFFICES ASSUME NEW i \in 1 .. Len(bound) + 1
                   PROVE  bound'[i] = k \/ bound'[i] \in Range(bound)
        BY <3>2 DEF Range
      <4> QED BY <3>2, <3>3
    <3>5. Range(bound) \subseteq Range(bound')
      BY <3>2, <3>3 DEF Range
    <3>6. \A j \in Range(bound) : j \in Keys /\ Stored(j)
      BY <1>1, <3>2 DEF SignShape, Range
    <3> QED BY <2>2, <3>4, <3>5, <3>6
  <2> QED BY <1>1, <2>1, <2>2 DEF Signs
<1>5. signer'.pc # "idle" => signer'.key \in Range(bound')
  <2>1. CASE signer' = signer
    BY <1>1, <1>4, <2>1 DEF SignShape
  <2>2. CASE signer' = NotSigning
    BY <2>2 DEF NotSigning
  <2>3. ASSUME NEW k \in Range(bound), signer' \in [pc : {"content", "verified"}, key : {k}]
        PROVE  signer'.key \in Range(bound')
    BY <1>4, <2>3
  <2> QED BY <1>1, <2>1, <2>2, <2>3 DEF Signs
<1>6. (signed # NoKey => Stored(signed))'
  <2>1. CASE signed' = signed
    BY <1>1, <1>2, <2>1 DEF SignShape, OthersTyped, Stored
  <2>2. CASE signer.pc = "verified" /\ signed' = signer.key
    <3>1. signer.key \in Range(bound)
      BY <1>1, <2>2 DEF SignShape
    <3>2. version'[signer.key] # NoVersion
      BY <1>2, <1>4, <3>1 DEF Stored
    <3> QED BY <2>2, <3>2 DEF Stored
  <2> QED BY <1>1, <2>1, <2>2 DEF Signs
<1>7. \A k \in Range(bound') : Stored(k)'
  BY <1>2, <1>4
<1> QED BY <1>3, <1>5, <1>6, <1>7 DEF SignShape

LEMMA NextShape ==
  ASSUME Shape, [Next]_uploadVars
  PROVE  Shape'
<1>1. Effect
  BY Effects
<1>2. RowsTyped' /\ HandlersTyped' /\ OthersTyped'
  BY <1>1, Growing, HandlersOK, StepSigns
<1>3. TypeOK'
  BY <1>2 DEF TypeOK, RowsTyped, HandlersTyped, OthersTyped, Row, Request
<1>4. \A k \in Keys : (RowShape(k) /\ RowReach(k) /\ FileShape(k))'
  BY <1>1, RowShapeKept, RowReachKept, FileShapeKept
<1>5. \A h \in Handlers : (HandlerShape(h) /\ HandlerReach(h))'
  BY <1>1, HandlersOK DEF HandlerOK
<1> QED BY <1>1, <1>3, <1>4, <1>5, OnePendingKept, SignShapeKept DEF Shape

LEMMA InitShape == Init => Shape
<1> SUFFICES ASSUME Init PROVE Shape
  OBVIOUS
<1>1. /\ \A k \in Keys : /\ ops[k] = NoOp /\ docs[k] = 0 /\ version[k] = NoVersion
                         /\ drive[k] = <<>>
      /\ \A h \in Handlers : handler[h] = Idle
  BY DEF Init
<1>2. \A k \in Keys : /\ Absent(k) /\ ~Stored(k) /\ ~Versioning(k) /\ DocOf(k) = k
                      /\ ops[k].baseline = 0 /\ Newest(k) = 0
  BY <1>1 DEF Absent, Stored, Versioning, DocOf, NoOp, Newest
<1>3. RowsTyped
  <2>1. NoOp \in Row /\ NoVersion \in [ext : Nat, hash : Contents \cup {NoKey}]
    BY DocumentUploadAssumption DEF NoOp, NoVersion, Row
  <2> QED BY <2>1 DEF Init, RowsTyped
<1>4. HandlersTyped /\ OthersTyped
  <2>1. NotSigning \in [pc : {"idle", "content", "verified"}, key : Keys \cup {NoKey}]
    BY DEF NotSigning
  <2> QED BY <2>1, IdleTyped, DocumentUploadAssumption DEF Init, HandlersTyped, OthersTyped
<1>5. ASSUME NEW k \in Keys PROVE RowShape(k) /\ RowReach(k) /\ FileShape(k)
  <2>1. ops[k].state = "absent" /\ ~Known(k) /\ ops[k].target = NoKey
    BY <1>1 DEF NoOp, Known
  <2>2. RowShape(k) /\ RowReach(k)
    BY <1>1, <1>2, <2>1 DEF RowShape, RowReach
  <2>3. FileShape(k)
    BY <1>1 DEF FileShape
  <2> QED BY <2>2, <2>3
<1>6. \A h \in Handlers : HandlerShape(h) /\ HandlerReach(h)
  BY <1>1 DEF HandlerShape, HandlerReach, Idle, Reading
<1>7. OnePending
  BY <1>2 DEF OnePending, Pending
<1>8. SignShape
  BY DEF Init, SignShape, NotSigning, Range
<1> QED BY <1>3, <1>4, <1>5, <1>6, <1>7, <1>8, TypeParts DEF Shape

LEMMA ShapeCorrect == Spec => []Shape
<1>1. Init => Shape
  BY InitShape
<1>2. Shape /\ [Next]_uploadVars => Shape'
  BY NextShape
<1> QED BY <1>1, <1>2, PTL DEF Spec

\* The rows, the files and the running requests keep their shape.
THEOREM TypeCorrect == Spec => []TypeOK
<1>1. Shape => TypeOK
  BY DEF Shape
<1> QED BY <1>1, ShapeCorrect, PTL

-----------------------------------------------------------------------------
(* The steps by the request that moves                                     *)

\* The steps to and between the reads of the written file.
Reads(h) == \/ RecoverUploaded(h) \/ UploadFile(h)
            \/ ExternalVersionId(h) \/ DownloadVersion(h) \/ DownloadContent(h)

Starts(h) ==
    \E k \in Keys : /\ Quiet /\ handler'[h].pc = "reserve" /\ handler'[h].key = k
                    /\ raced' = raced \cup {x \in {k} : \E g \in Handlers : handler[g].key = k}

\* Another step of a request; it may have failed to write.
Passes(h) ==
    /\ handler'[h].pc \notin Reading \cup {"put"}
    /\ handler'[h].key \in {handler[h].key, NoKey}
    /\ \/ drive' = drive
       \/ At(h, "put") /\ Appends(DocOf(handler[h].key), handler[h].key)

\* No request moves; the file may be edited, or written late.
Rests ==
    /\ UNCHANGED handler
    /\ \/ drive' = drive
       \/ \E d \in Keys : \E c \in late \cup {Foreign} : Appends(d, c)

LEMMA TurnPasses ==
  ASSUME NEW h \in Handlers, drive' = drive,
         NEW pc \in {"reserve", "read", "folders", "mkdir", "prepare", "recover", "finalize", "bind"},
         Turns(h, pc) \/ Becomes(h, Idle)
  PROVE  OthersKept(h) /\ Passes(h)
BY DEF Turns, Becomes, Idle, Passes, Reading

LEMMA HandlerPasses ==
  ASSUME Shape, NEW h \in Handlers, HandlerStep(h), ~Reads(h)
  PROVE  OthersKept(h) /\ Passes(h)
<1>1. Quiet => drive' = drive
  BY DEF Quiet
<1>2. CASE ReserveUpload(h)
  <2>1. drive' = drive
    BY <1>2 DEF ReserveUpload
  <2> QED BY <1>2, <2>1, ReserveMoves, TurnPasses DEF Ends
<1>3. CASE ReadReservation(h)
  BY <1>1, <1>3, ReadMoves, TurnPasses DEF Ends, GoesOn
<1>4. CASE EnsureFolders(h) \/ CreateFolder(h)
  BY <1>1, <1>4, EnsureMoves, CreateMoves, TurnPasses
<1>5. CASE PrepareTarget(h)
  <2>1. drive' = drive
    BY <1>5 DEF PrepareTarget
  <2> QED BY <1>5, <2>1, PrepareMoves, TurnPasses
<1>6. CASE RecordGraphUpload(h)
  <2>1. drive' = drive
    BY <1>6 DEF RecordGraphUpload
  <2> QED BY <1>6, <2>1, RecordMoves, TurnPasses DEF Ends
<1>7. CASE FinalizeUpload(h)
  <2>1. drive' = drive
    BY <1>7 DEF FinalizeUpload
  <2> QED BY <1>7, <2>1, FinalizeMoves, TurnPasses
<1>8. CASE BindDocument(h)
  BY <1>1, <1>8, BindMoves, TurnPasses DEF Ends
<1> QED BY <1>2, <1>3, <1>4, <1>5, <1>6, <1>7, <1>8 DEF HandlerStep, Reads

LEMMA StepMoves ==
  ASSUME Shape, [Next]_uploadVars
  PROVE  \/ Rests
         \/ \E h \in Handlers : OthersKept(h) /\ (Reads(h) \/ Passes(h) \/ Starts(h))
<1>1. ASSUME NEW h \in Handlers, Reads(h) PROVE OthersKept(h)
  BY <1>1, RecoverMoves, UploadMoves, VersionMoves, DownloadMoves, ContentMoves
     DEF Reads, Turns, Becomes
<1>2. ASSUME NEW h \in Handlers, UploadFails(h) PROVE OthersKept(h) /\ Passes(h)
  <2>1. handler[h].pc = "put" /\ OthersKept(h) /\ handler'[h].pc = "recover"
        /\ handler'[h].key = handler[h].key
    BY <1>2, FailMoves DEF Turns
  <2>2. drive' = drive \/ Appends(DocOf(handler[h].key), handler[h].key)
    BY <1>2, FailMoves DEF Quiet
  <2> QED BY <2>1, <2>2 DEF Passes, Reading, At
<1>3. ASSUME NEW h \in Handlers, NEW k \in Keys, Start(h, k) PROVE OthersKept(h) /\ Starts(h)
  <2>1. PICK target \in Keys \cup {NoKey} : Begin(h, k, target)
    BY <1>3, StartMoves
  <2> QED BY <2>1, BeginMoves DEF Starts, Begin
<1>4. ASSUME NEW h \in Handlers, Abort(h) PROVE OthersKept(h) /\ Passes(h)
  BY <1>4, AbortMoves DEF Ends, Becomes, Idle, Passes, Reading, Quiet
<1>5. ASSUME NEW k \in Keys, ReadEvidence(k) PROVE Rests
  BY <1>5 DEF ReadEvidence, handlerVars, Rests
<1>6. ASSUME NEW k \in Keys, EditInSharePoint(k) PROVE Rests
  <2>1. UNCHANGED handler
    BY <1>6 DEF EditInSharePoint
  <2> QED BY <1>6, <2>1, EditMoves DEF Rests
<1>7. ASSUME NEW k \in Keys, LateWrite(k) PROVE Rests
  <2>1. UNCHANGED handler /\ k \in late
    BY <1>7 DEF LateWrite
  <2> QED BY <1>7, <2>1, LateMoves, DocTyped DEF Rests
<1>8. CASE ReadExactContent \/ Sign \/ UNCHANGED uploadVars
  BY <1>8 DEF ReadExactContent, Sign, handlerVars, uploadVars, Rests
<1>9. ASSUME NEW ok \in BOOLEAN, ValidateConnection(ok) PROVE Rests
  BY <1>9 DEF ValidateConnection, Rests
<1> QED BY <1>1, <1>2, <1>3, <1>4, <1>5, <1>6, <1>7, <1>8, <1>9, HandlerPasses DEF Next

-----------------------------------------------------------------------------
(* Settled and Evidence: the signature                                     *)

LEMMA SettledKept ==
  ASSUME Shape, [Next]_uploadVars, SignedDocumentSettled
  PROVE  SignedDocumentSettled'
<1> SUFFICES ASSUME signed' # NoKey, NEW k \in Keys, Versioning(k)', (DocOf(k) = DocOf(signed))'
             PROVE  ops'[k].state = "completed"
  BY DEF SignedDocumentSettled
<1>1. Effect /\ Signs
  BY Effects, StepSigns
<1>2. CASE signed' = signed
  <2>1. signed \in Keys /\ ~Absent(signed) /\ (DocOf(signed))' = DocOf(signed)
    <3>1. signed \in Keys /\ Stored(signed)
      BY <1>2, TypeParts DEF Shape, OthersTyped, SignShape
    <3>2. ~Absent(signed) /\ Grows(signed)
      BY <1>1, <3>1, StoredIsKnown, Growing
    <3> QED BY <1>2, <3>1, <3>2 DEF Grows, DocOf
  <2>2. ASSUME ops'[k] = ops[k] PROVE ops'[k].state = "completed"
    <3>1. Versioning(k) /\ DocOf(k) = DocOf(signed)
      BY <2>1, <2>2 DEF Versioning, DocOf
    <3> QED BY <1>2, <2>2, <3>1 DEF SignedDocumentSettled
  <2>3. CASE Quiet
    BY <2>2, <2>3 DEF Quiet
  <2>4. ASSUME NEW j \in Keys, NEW d \in Keys \cup {NoKey}, Reserves(j, d)
        PROVE  ops'[k].state = "completed"
    <3>1. CASE j = k
      <4>1. d # NoKey /\ d = DocOf(signed)
        BY <2>1, <2>4, <3>1, ReservesRows DEF Versioning, DocOf
      <4> QED BY <1>2, <2>4, <4>1 DEF Reserves, Refused, HasSignatureEvidence
    <3>2. CASE j # k
      BY <2>2, <2>4, <3>2, ReservesRows DEF RowsKept
    <3> QED BY <3>1, <3>2
  <2>5. ASSUME NEW j \in Keys, Prepares(j) PROVE ops'[k].state = "completed"
    <3>1. Versioning(k) /\ DocOf(k) = DocOf(signed) /\ ops'[k].state = ops[k].state
      BY <2>1, <2>5, PreparesRows DEF RowsKept, Versioning, DocOf
    <3> QED BY <1>2, <3>1 DEF SignedDocumentSettled
  <2>6. ASSUME NEW j \in Keys, Finalizes(j) PROVE ops'[k].state = "completed"
    BY <2>2, <2>6, FinalizesRows DEF RowsKept
  <2>7. ASSUME NEW h \in Handlers, Records(h) PROVE ops'[k].state = "completed"
    <3>1. CASE k = handler[h].key
      <4>1. Versioning(k) /\ DocOf(k) = DocOf(signed)
        BY <2>1, <2>7, <3>1, RecordsRows DEF Versioning, DocOf
      <4> QED BY <1>2, <2>7, <3>1, <4>1 DEF Records, HasSignatureEvidence
    <3>2. CASE k # handler[h].key
      BY <2>2, <2>7, <3>2, RecordsRows DEF RowsKept
    <3> QED BY <3>1, <3>2
  <2>8. ASSUME NEW d \in Keys, NEW c \in Contents, Appends(d, c)
        PROVE  ops'[k].state = "completed"
    BY <2>2, <2>8 DEF Appends
  <2> QED BY <1>1, <2>3, <2>4, <2>5, <2>6, <2>7, <2>8 DEF Effect
<1>3. CASE signer.pc = "verified" /\ signed' = signer.key /\ ReadyDocument(signer.key) /\ Quiet
  <2>1. ops[k].target # NoKey /\ DocOf(k) = DocOf(signer.key) /\ ops' = ops
    BY <1>3 DEF Quiet, Versioning, DocOf
  <2>2. ops[k].state \in {"absent", "completed"}
    BY <1>3, <2>1 DEF ReadyDocument, OpenUpload
  <2> QED BY <2>1, <2>2 DEF Shape, RowShape, Absent
<1> QED BY <1>1, <1>2, <1>3 DEF Signs

\* No new version of a signed document is on its way: it could not be finished.
THEOREM SettledCorrect == Spec => []SignedDocumentSettled
<1>1. Init => SignedDocumentSettled
  BY DEF Init, SignedDocumentSettled
<1>2. Shape /\ [Next]_uploadVars /\ SignedDocumentSettled => SignedDocumentSettled'
  BY SettledKept
<1> QED BY <1>1, <1>2, ShapeCorrect, PTL DEF Spec

\* What matches the newest version of a file still matches it, or is older.
LEMMA MatchKept ==
  ASSUME Shape, Effect, NEW d \in Keys, NEW ext \in Nat, NEW hash,
         ext <= Newest(d), 0 < Newest(d), Match(d, ext, hash)
  PROVE  Match(d, ext, hash)'
<1>1. Grows(d) /\ Len(drive[d]) \in Nat
  BY Growing, DocTyped
<1>2. ASSUME ext = Len(drive'[d]) PROVE ext = Len(drive[d]) /\ drive'[d][ext] = drive[d][ext]
  BY <1>1, <1>2 DEF Grows, Newest
<1> QED BY <1>1, <1>2 DEF Match, Newest

LEMMA ShownKept ==
  ASSUME Shape, Effect, NEW k \in Keys, Stored(k), Shown(k)
  PROVE  Shown(k)'
<1>1. ~Absent(k) /\ Grows(k) /\ DocOf(k) \in Keys
  BY Growing, DocTyped, StoredIsKnown
<1>2. DocOf(k)' = DocOf(k) /\ version'[k] = version[k]
  BY <1>1 DEF Grows, DocOf
<1>3. /\ Grows(DocOf(k)) /\ drive[DocOf(k)] \in Seq(Contents)
      /\ drive'[DocOf(k)] \in Seq(Contents)
  BY <1>1, Growing, DocTyped DEF RowsTyped
<1>4. version[k].ext \in 1 .. Len(drive[DocOf(k)])
  BY <1>3 DEF Shown
<1>5. /\ version[k].ext \in 1 .. Len(drive'[DocOf(k)])
      /\ drive'[DocOf(k)][version[k].ext] = drive[DocOf(k)][version[k].ext]
  BY <1>3, <1>4 DEF Grows
<1> QED BY <1>2, <1>3, <1>5 DEF Shown

\* The three parts of Evidence.
RowMatch(k) ==
    /\ Known(k)  => Match(DocOf(k), ops[k].ext, ops[k].hash)
    /\ Stored(k) => Match(DocOf(k), version[k].ext, version[k].hash)

HandlerMatch(h) ==
    At(h, "record") => Match(DocOf(handler[h].key), handler[h].ext, handler[h].hash)

SignMatch == /\ signer.pc # "idle" => Shown(signer.key)
             /\ signed # NoKey => Shown(signed)

LEMMA EvidenceParts ==
  Evidence <=> /\ \A k \in Keys : RowMatch(k)
               /\ \A h \in Handlers : HandlerMatch(h)
               /\ SignMatch
BY DEF Evidence, RowMatch, HandlerMatch, SignMatch

LEMMA RowMatchKept ==
  ASSUME Shape, Evidence, Effect, NEW j \in Keys
  PROVE  RowMatch(j)'
<1> DEFINE d == DocOf(j)
<1>1. RowMatch(j) /\ RowShape(j) /\ RowReach(j) /\ Grows(j) /\ d \in Keys
  BY EvidenceParts, Growing, DocTyped DEF Shape
<1>2. ops[j].ext \in Nat /\ version[j].ext \in Nat /\ Newest(d) \in Nat
  <2>1. RowsTyped
    BY TypeParts DEF Shape
  <2> QED BY <1>1, <2>1, DocTyped, RowFields DEF RowsTyped, Newest
<1>3. Known(j) => DocOf(j)' = d /\ Match(d, ops[j].ext, ops[j].hash)
  BY <1>1, Steady DEF RowMatch, Known, Absent
<1>4. ASSUME Known(j), ops'[j].ext = ops[j].ext, ops'[j].hash = ops[j].hash
      PROVE  Match(DocOf(j), ops[j].ext, ops[j].hash)'
  <2>1. 0 < Newest(d) /\ ops[j].ext <= Newest(d)
    BY <1>1, <1>2, <1>4 DEF RowReach
  <2>2. \A e \in {d}, x \in {ops[j].ext}, y \in {ops[j].hash} : Match(e, x, y)'
    BY <1>1, <1>2, <1>3, <1>4, <2>1, MatchKept
  <2> QED BY <1>3, <1>4, <2>2 DEF Match, Newest
<1>5. ASSUME Stored(j) PROVE Match(DocOf(j), version[j].ext, version[j].hash)'
  <2>1. Known(j) /\ version'[j] = version[j]
    BY <1>1, <1>5 DEF RowShape, Grows
  <2>2. 0 < Newest(d) /\ version[j].ext <= Newest(d) /\ Match(d, version[j].ext, version[j].hash)
    BY <1>1, <1>2, <1>5, <2>1 DEF RowReach, RowMatch
  <2>3. \A e \in {d}, x \in {version[j].ext}, y \in {version[j].hash} : Match(e, x, y)'
    BY <1>1, <1>2, <2>2, MatchKept
  <2> QED BY <1>3, <2>1, <2>3 DEF Match, Newest
<1>6. ASSUME ops'[j].state = ops[j].state, ops'[j].ext = ops[j].ext,
             ops'[j].hash = ops[j].hash, version'[j] = version[j]
      PROVE  RowMatch(j)'
  BY <1>4, <1>5, <1>6 DEF RowMatch, Known, Stored
<1>7. CASE Quiet
  BY <1>6, <1>7 DEF Quiet
<1>8. ASSUME NEW k \in Keys, NEW t \in Keys \cup {NoKey}, Reserves(k, t) PROVE RowMatch(j)'
  <2>1. CASE j = k
    <3>1. ~Known(j)' /\ (Stored(j)' => Stored(j))
      BY <1>8, <2>1, ReservesRows DEF Known, Stored
    <3> QED BY <1>5, <3>1 DEF RowMatch
  <2>2. CASE j # k
    BY <1>6, <1>8, <2>2, ReservesRows DEF RowsKept
  <2> QED BY <2>1, <2>2
<1>9. ASSUME NEW k \in Keys, Prepares(k) PROVE RowMatch(j)'
  <2>1. CASE j = k
    BY <1>6, <1>9, <2>1, PreparesRows
  <2>2. CASE j # k
    BY <1>6, <1>9, <2>2, PreparesRows DEF RowsKept
  <2> QED BY <2>1, <2>2
<1>10. ASSUME NEW k \in Keys, Finalizes(k) PROVE RowMatch(j)'
  <2>1. CASE j = k
    <3>1. Known(j) /\ ops'[j].ext = ops[j].ext /\ ops'[j].hash = ops[j].hash
      BY <1>10, <2>1, FinalizesRows DEF Finalizes, Known
    <3>2. version'[j] = [ext |-> ops[j].ext, hash |-> ops[j].hash]
      BY <1>10, <2>1, FinalizesRows
    <3>3. version'[j].ext = ops'[j].ext /\ version'[j].hash = ops'[j].hash
      BY <3>1, <3>2
    <3>4. Match(DocOf(j), ops[j].ext, ops[j].hash)'
      BY <1>4, <3>1
    <3> QED BY <3>3, <3>4 DEF RowMatch, Match
  <2>2. CASE j # k
    BY <1>6, <1>10, <2>2, FinalizesRows DEF RowsKept
  <2> QED BY <2>1, <2>2
<1>11. ASSUME NEW h \in Handlers, Records(h) PROVE RowMatch(j)'
  <2>1. CASE j = handler[h].key
    <3>1. Match(d, handler[h].ext, handler[h].hash)
      BY <1>11, <2>1 DEF Evidence, Records
    <3>2. /\ UNCHANGED <<docs, version, drive>> /\ ops'[j].target = ops[j].target
          /\ ops'[j].ext = handler[h].ext /\ ops'[j].hash = handler[h].hash
      BY <1>11, <2>1, RecordsRows
    <3>3. Match(DocOf(j), ops[j].ext, ops[j].hash)'
      BY <3>1, <3>2 DEF Match, Newest, DocOf
    <3>4. Stored(j)' => Stored(j)
      BY <3>2 DEF Stored
    <3> QED BY <1>5, <3>3, <3>4 DEF RowMatch
  <2>2. CASE j # handler[h].key
    BY <1>6, <1>11, <2>2, RecordsRows DEF RowsKept
  <2> QED BY <2>1, <2>2
<1>12. ASSUME NEW e \in Keys, NEW c \in Contents, Appends(e, c) PROVE RowMatch(j)'
  BY <1>6, <1>12 DEF Appends
<1> QED BY <1>7, <1>8, <1>9, <1>10, <1>11, <1>12 DEF Effect

\* The hash of a native version that is the newest is that of its bytes.
LEMMA HandlerMatchKept ==
  ASSUME Shape, Evidence, [Next]_uploadVars, Effect, NEW g \in Handlers
  PROVE  HandlerMatch(g)'
<1>1. ASSUME handler'[g] = handler[g] PROVE HandlerMatch(g)'
  <2> SUFFICES ASSUME handler[g].pc = "record" PROVE HandlerMatch(g)'
    BY <1>1 DEF HandlerMatch, At
  <2> DEFINE k == handler[g].key  d == DocOf(k)
  <2>1. k \in Keys /\ d \in Keys /\ ~Absent(k) /\ handler[g] \in Request
    BY Running
  <2>2. DocOf(k)' = d /\ Newest(d) \in Nat /\ handler[g].ext \in Nat
    BY <1>1, <2>1, Growing, Steady, DocTyped, RequestFields DEF Newest
  <2>3. 0 < Newest(d) /\ handler[g].ext <= Newest(d) /\ Match(d, handler[g].ext, handler[g].hash)
    BY <2>2 DEF Shape, HandlerReach, Reading, Evidence, At
  <2>4. \A e \in {d}, x \in {handler[g].ext}, y \in {handler[g].hash} : Match(e, x, y)'
    BY <2>1, <2>2, <2>3, MatchKept
  <2> QED BY <1>1, <2>2, <2>4 DEF HandlerMatch, Match, Newest, DocOf
<1>2. ASSUME handler'[g].pc # "record" PROVE HandlerMatch(g)'
  BY <1>2 DEF HandlerMatch, At
<1>3. ASSUME NEW h \in Handlers, OthersKept(h), h = g => HandlerMatch(g)' PROVE HandlerMatch(g)'
  BY <1>1, <1>3 DEF OthersKept
<1>4. ASSUME NEW h \in Handlers, OthersKept(h), Reads(h) PROVE HandlerMatch(g)'
  <2> DEFINE k == handler[h].key  d == DocOf(k)
  <2>1. CASE DownloadVersion(h)
    <3>1. /\ Quiet /\ handler'[h].key = k /\ handler'[h].ext = handler[h].ext
          /\ \/ handler'[h].pc = "content"
             \/ handler'[h].ext # Newest(d)
      BY <2>1, DownloadMoves DEF Turns
    <3>2. ASSUME h = g PROVE HandlerMatch(g)'
      BY <1>2, <3>1, <3>2 DEF HandlerMatch, Match, Newest, DocOf, Quiet
    <3> QED BY <1>3, <1>4, <3>2
  <2>2. CASE DownloadContent(h)
    <3>1. /\ Quiet /\ handler'[h].key = k /\ handler'[h].ext = handler[h].ext
          /\ handler'[h].hash = drive[d][Newest(d)]
      BY <2>2, ContentMoves DEF Turns
    <3>2. ASSUME h = g PROVE HandlerMatch(g)'
      BY <3>1, <3>2 DEF HandlerMatch, Match, Newest, DocOf, Quiet
    <3> QED BY <1>3, <1>4, <3>2
  <2>3. CASE RecoverUploaded(h) \/ UploadFile(h) \/ ExternalVersionId(h)
    <3>1. handler'[h].pc # "record"
      BY <2>3, RecoverMoves, UploadMoves, VersionMoves DEF Turns, Becomes, Idle
    <3> QED BY <1>2, <1>3, <1>4, <3>1
  <2> QED BY <1>4, <2>1, <2>2, <2>3 DEF Reads
<1>5. ASSUME NEW h \in Handlers, OthersKept(h), Passes(h) \/ Starts(h) PROVE HandlerMatch(g)'
  <2>1. handler'[h].pc # "record"
    BY <1>5 DEF Passes, Starts, Reading
  <2> QED BY <1>2, <1>3, <1>5, <2>1
<1> QED BY <1>1, <1>4, <1>5, StepMoves DEF Rests

\* A version that may be signed is read as it was stored, or was the newest one.
LEMMA CandidateShown ==
  ASSUME Shape, Evidence, NEW k \in Keys, Candidate(k)
  PROVE  Shown(k)
<1> DEFINE d == DocOf(k)
<1>1. Stored(k) /\ version[k].ext # 0
  BY DEF Candidate, ReadyDocument
<1>2. d \in Keys /\ drive[d] \in Seq(Contents) /\ version[k].ext \in Nat
  BY DocTyped, TypeParts DEF Shape, RowsTyped
<1>3. version[k].ext <= Newest(d) /\ Match(d, version[k].ext, version[k].hash)
  BY <1>1 DEF Shape, RowReach, Evidence
<1>4. version[k].ext \in DOMAIN drive[d]
  BY <1>1, <1>2, <1>3 DEF Newest
<1> QED BY <1>3, <1>4 DEF Candidate, Match, Shown

LEMMA SignMatchKept ==
  ASSUME Shape, Evidence, [Next]_uploadVars, Effect
  PROVE  SignMatch'
<1>1. Signs /\ SignMatch /\ SignShape
  BY StepSigns, EvidenceParts DEF Shape
<1>2. OthersTyped
  BY TypeParts DEF Shape
<1>3. \A k \in Range(bound) : k \in Keys /\ Stored(k)
  <2>1. bound \in Seq(Keys)
    BY <1>2 DEF OthersTyped
  <2>2. Range(bound) \subseteq Keys
    BY <2>1 DEF Range
  <2> QED BY <1>1, <2>2 DEF SignShape
<1>4. signer.pc # "idle" => signer.key \in Keys /\ Stored(signer.key) /\ Shown(signer.key)
  BY <1>1, <1>3 DEF SignShape, SignMatch
<1>5. \A k \in Keys : Stored(k) /\ Shown(k) => Shown(k)'
  BY ShownKept
<1>6. (signer.pc # "idle" => Shown(signer.key))'
  <2>1. CASE signer' = signer
    <3> SUFFICES ASSUME signer.pc # "idle" PROVE Shown(signer.key)'
      BY <2>1
    <3>1. \A k \in {signer.key} : Shown(k)'
      BY <1>4, <1>5
    <3> QED BY <2>1, <3>1 DEF Shown, DocOf
  <2>2. CASE signer' = NotSigning
    BY <2>2 DEF NotSigning
  <2>3. ASSUME NEW k \in Range(bound), signer' \in [pc : {"content", "verified"}, key : {k}],
               Quiet, Candidate(k) \/ (signer.pc # "idle" /\ signer.key = k)
        PROVE  Shown(signer.key)'
    <3>1. Shown(k)
      BY <1>3, <1>4, <2>3, CandidateShown
    <3>2. signer'.key = k
      BY <2>3
    <3> QED BY <2>3, <3>1, <3>2 DEF Shown, DocOf, Quiet
  <2> QED BY <1>1, <2>1, <2>2, <2>3 DEF Signs
<1>7. (signed # NoKey => Shown(signed))'
  <2>1. CASE signed' = signed
    <3> SUFFICES ASSUME signed # NoKey PROVE Shown(signed)'
      BY <2>1
    <3>1. signed \in Keys /\ Stored(signed) /\ Shown(signed)
      BY <1>1, <1>2 DEF OthersTyped, SignShape, SignMatch
    <3>2. \A k \in {signed} : Shown(k)'
      BY <1>5, <3>1
    <3> QED BY <2>1, <3>2 DEF Shown, DocOf
  <2>2. CASE signer.pc = "verified" /\ signed' = signer.key /\ Quiet
    <3>1. Shown(signer.key)
      BY <1>4, <2>2
    <3> QED BY <2>2, <3>1 DEF Shown, DocOf, Quiet
  <2> QED BY <1>1, <2>1, <2>2 DEF Signs
<1> QED BY <1>6, <1>7 DEF SignMatch

LEMMA EvidenceKept ==
  ASSUME Shape, Evidence, [Next]_uploadVars
  PROVE  Evidence'
<1>1. Effect
  BY Effects
<1>2. /\ \A k \in Keys : RowMatch(k)'
      /\ \A h \in Handlers : HandlerMatch(h)'
      /\ SignMatch'
  BY <1>1, RowMatchKept, HandlerMatchKept, SignMatchKept
<1> QED BY <1>2 DEF Evidence, RowMatch, HandlerMatch, SignMatch

LEMMA InitEvidence == Init => Evidence
<1> SUFFICES ASSUME Init PROVE Evidence
  OBVIOUS
<1>1. \A k \in Keys : ~Known(k) /\ ~Stored(k)
  BY DEF Init, Known, Stored, NoOp
<1>2. \A h \in Handlers : ~At(h, "record")
  BY DEF Init, At, Idle
<1> QED BY <1>1, <1>2 DEF Init, Evidence, NotSigning

\* The file under a signature can be shown with the hash recorded for it, also
\* when people edit it while it is uploaded, verified and signed.
THEOREM EvidenceCorrect == Spec => []SignedFileIsEvidence
<1>1. Shape /\ Evidence /\ [Next]_uploadVars => Evidence'
  BY EvidenceKept
<1>2. Evidence => SignedFileIsEvidence
  BY DEF Evidence, SignedFileIsEvidence, Shown
<1> QED BY <1>1, <1>2, InitEvidence, ShapeCorrect, PTL DEF Spec

-----------------------------------------------------------------------------
(* Solo: a request served alone is written once                            *)

\* The native versions of a request that the step does not write.
LEMMA NotWritten ==
  ASSUME Shape, Effect, NEW k \in Keys, ~Absent(k), ~Appends(DocOf(k), k)
  PROVE  /\ DocOf(k)' = DocOf(k)
         /\ \A i \in DOMAIN drive'[DocOf(k)] :
               drive'[DocOf(k)][i] = k => i \in DOMAIN drive[DocOf(k)] /\ drive[DocOf(k)][i] = k
<1> DEFINE d == DocOf(k)
<1>1. d \in Keys /\ DocOf(k)' = d
  BY DocTyped, Growing, Steady
<1>2. CASE drive'[d] = drive[d]
  BY <1>1, <1>2
<1>3. CASE drive'[d] # drive[d]
  <2>1. PICK e \in Keys, c \in Contents : Appends(e, c)
    BY <1>3 DEF Effect, Quiet, Reserves, Prepares, Finalizes, Records
  <2>2. e = d /\ c # k
    BY <1>1, <1>3, <2>1, AppendsRows
  <2>3. /\ drive'[d] \in Seq(Contents) /\ drive[d] \in Seq(Contents)
        /\ Len(drive'[d]) = Len(drive[d]) + 1 /\ drive'[d][Len(drive[d]) + 1] = c
        /\ \A i \in 1 .. Len(drive[d]) : drive'[d][i] = drive[d][i]
    BY <1>1, <2>1, <2>2, AppendsRows, DocTyped
  <2>4. \A i \in 1 .. Len(drive'[d]) : i \in 1 .. Len(drive[d]) \/ i = Len(drive[d]) + 1
    BY <2>3
  <2> QED BY <1>1, <2>2, <2>3, <2>4
<1> QED BY <1>2, <1>3

\* A request without a row has written nothing.
LEMMA AbsentUnwritten ==
  ASSUME Shape, NEW k \in Keys, Absent(k), NEW d \in Keys
  PROVE  \A i \in DOMAIN drive[d] : drive[d][i] # k
BY DocumentUploadAssumption DEF Shape, FileShape

LEMMA Inserted ==
  ASSUME Shape, Effect, NEW k \in Keys, Absent(k), ops'[k].state # "absent"
  PROVE  \E d \in Keys \cup {NoKey} : Reserves(k, d)
<1>1. ASSUME NEW j \in Keys, NEW d \in Keys \cup {NoKey}, Reserves(j, d) PROVE j = k
  BY <1>1, ReservesRows DEF RowsKept, Absent
<1>2. ASSUME NEW j \in Keys, Prepares(j) PROVE FALSE
  BY <1>2, PreparesRows DEF RowsKept, Absent
<1>3. ASSUME NEW j \in Keys, Finalizes(j) PROVE FALSE
  BY <1>3, FinalizesRows DEF RowsKept, Absent, Finalizes
<1>4. ASSUME NEW h \in Handlers, Records(h) PROVE FALSE
  BY <1>4, RecordsRows, Running DEF RowsKept, Absent, Records, At
<1> QED BY <1>1, <1>2, <1>3, <1>4 DEF Effect, Quiet, Appends, Absent

LEMMA LaterKept ==
  ASSUME Shape, Solo, Effect, NEW k \in Keys, Versioning(k)'
  PROVE  Later(k)'
<1>1. CASE Absent(k)
  <2>1. CASE ops'[k].state = "absent"
    BY <2>1, RowShapeKept DEF RowShape, Absent, Versioning
  <2>2. CASE ops'[k].state # "absent"
    <3>1. drive' = drive /\ DocOf(k)' \in Keys
      <4>1. PICK d \in Keys \cup {NoKey} : Reserves(k, d)
        BY <1>1, <2>2, Inserted
      <4> QED BY <4>1, ReservesRows DEF DocOf
    <3>2. \A d \in Keys : \A i \in DOMAIN drive[d] : drive[d][i] # k
      BY <1>1, AbsentUnwritten
    <3> QED BY <3>1, <3>2 DEF Later
  <2> QED BY <2>1, <2>2
<1>2. CASE ~Absent(k)
  <2> DEFINE d == DocOf(k)
  <2>1. /\ Later(k) /\ DocOf(k)' = d /\ ops'[k].baseline = ops[k].baseline /\ d \in Keys
    BY <1>2, Growing, Steady, DocTyped DEF Solo, Grows
  <2>2. CASE ~Appends(d, k)
    BY <1>2, <2>1, <2>2, NotWritten DEF Later
  <2>3. CASE Appends(d, k)
    <3>1. k \in Contents /\ ops[k].baseline <= Len(drive[d]) /\ ops[k].baseline \in Nat
          /\ drive[d] \in Seq(Contents)
      BY <2>1, DocTyped, RowFields DEF Contents, Shape, RowReach, Newest
    <3>2. /\ drive'[d] \in Seq(Contents) /\ Len(drive'[d]) = Len(drive[d]) + 1
          /\ \A i \in 1 .. Len(drive[d]) : drive'[d][i] = drive[d][i]
      BY <2>1, <2>3, <3>1, AppendsRows
    <3>3. ASSUME NEW i \in 1 .. Len(drive'[d]), drive'[d][i] = k PROVE ops[k].baseline < i
      <4>1. CASE i \in 1 .. Len(drive[d])
        BY <2>1, <3>1, <3>2, <3>3, <4>1 DEF Later
      <4>2. CASE i = Len(drive[d]) + 1
        BY <3>1, <4>2
      <4> QED BY <3>1, <3>2, <4>1, <4>2
    <3> QED BY <2>1, <3>2, <3>3 DEF Later
  <2> QED BY <2>2, <2>3
<1> QED BY <1>1, <1>2

\* A request served alone is written by its handler when it has no native version.
LEMMA WritesNew ==
  ASSUME Shape, Solo, Effect, NEW k \in Keys \ raced, ~Absent(k), Appends(DocOf(k), k)
  PROVE  k \notin Range(drive[DocOf(k)])
<1>1. k # Foreign /\ k \notin late /\ Alone(k)
  BY DocumentUploadAssumption DEF Shape, SignShape, Solo
<1>2. PICK h \in Handlers : At(h, "put") /\ handler[h].key = k
  BY <1>1 DEF Appends
<1> QED BY <1>1, <1>2 DEF Alone

LEMMA OnceKept ==
  ASSUME Shape, Solo, Effect, NEW k \in Keys \ raced
  PROVE  Once(k)'
<1>1. CASE Absent(k)
  <2>1. CASE ops'[k].state = "absent"
    <3>1. DocOf(k)' = k
      BY <2>1, RowShapeKept DEF RowShape, Absent, DocOf
    <3>2. FileShape(k)'
      BY FileShapeKept
    <3> QED BY <2>1, <3>1, <3>2, DocumentUploadAssumption DEF FileShape, Once, Absent
  <2>2. CASE ops'[k].state # "absent"
    <3>1. drive' = drive /\ DocOf(k)' \in Keys
      <4>1. PICK d \in Keys \cup {NoKey} : Reserves(k, d)
        BY <1>1, <2>2, Inserted
      <4> QED BY <4>1, ReservesRows DEF DocOf
    <3>2. \A d \in Keys : \A i \in DOMAIN drive[d] : drive[d][i] # k
      BY <1>1, AbsentUnwritten
    <3> QED BY <3>1, <3>2 DEF Once
  <2> QED BY <2>1, <2>2
<1>2. CASE ~Absent(k)
  <2> DEFINE d == DocOf(k)
  <2>1. Once(k) /\ DocOf(k)' = d /\ d \in Keys
    BY <1>2, Growing, Steady, DocTyped DEF Solo, Alone
  <2>2. CASE ~Appends(d, k)
    BY <1>2, <2>1, <2>2, NotWritten DEF Once
  <2>3. CASE Appends(d, k)
    <3>1. k \in Contents /\ drive[d] \in Seq(Contents) /\ k \notin Range(drive[d])
      BY <1>2, <2>1, <2>3, DocTyped, WritesNew DEF Contents
    <3>2. /\ drive'[d] \in Seq(Contents) /\ Len(drive'[d]) = Len(drive[d]) + 1
          /\ \A i \in 1 .. Len(drive[d]) : drive'[d][i] = drive[d][i]
      BY <2>1, <2>3, <3>1, AppendsRows
    <3>3. \A i \in 1 .. Len(drive[d]) : drive[d][i] # k
      BY <3>1 DEF Range
    <3>4. \A i \in 1 .. Len(drive'[d]) : drive'[d][i] = k => i = Len(drive[d]) + 1
      BY <3>1, <3>2, <3>3
    <3> QED BY <2>1, <3>2, <3>4 DEF Once
  <2> QED BY <2>2, <2>3
<1> QED BY <1>1, <1>2

LEMMA OneAppends ==
  ASSUME Shape, NEW d \in Keys, NEW c \in Contents, Appends(d, c),
         NEW e \in Keys, NEW b \in Contents, Appends(e, b)
  PROVE  d = e /\ b = c
<1>1. drive[d] \in Seq(Contents)
  BY DocTyped
<1>2. Len(drive'[d]) = Len(drive[d]) + 1 /\ drive'[d][Len(drive[d]) + 1] = c
  BY AppendsRows
<1>3. d # e => drive'[d] = drive[d]
  BY AppendsRows
<1>4. drive'[e][Len(drive[e]) + 1] = b
  BY AppendsRows
<1> QED BY <1>1, <1>2, <1>3, <1>4

\* Nobody else holds the key of a request served alone.
LEMMA UniqueKept ==
  ASSUME Shape, Solo, [Next]_uploadVars, NEW k \in Keys, k \notin raced',
         NEW g \in Handlers, NEW h \in Handlers, handler'[g].key = k, handler'[h].key = k
  PROVE  g = h
<1>1. Alone(k) /\ k # NoKey
  BY StepSigns, DocumentUploadAssumption DEF Signs, Solo
<1>2. CASE Rests
  BY <1>1, <1>2 DEF Rests, Alone
<1>3. ASSUME NEW m \in Handlers, OthersKept(m), handler'[m].key \in {handler[m].key, NoKey}
      PROVE  g = h
  BY <1>1, <1>3 DEF OthersKept, Alone
<1>4. ASSUME NEW m \in Handlers, OthersKept(m), Reads(m) PROVE g = h
  <2>1. handler'[m].key \in {handler[m].key, NoKey}
    BY <1>4, RecoverMoves, UploadMoves, VersionMoves, DownloadMoves, ContentMoves
       DEF Reads, Turns, Becomes, Idle
  <2> QED BY <1>3, <1>4, <2>1
<1>5. ASSUME NEW m \in Handlers, OthersKept(m), Starts(m) PROVE g = h
  <2>1. PICK j \in Keys :
            /\ handler'[m].key = j
            /\ raced' = raced \cup {x \in {j} : \E f \in Handlers : handler[f].key = j}
    BY <1>5 DEF Starts
  <2>2. CASE j = k
    <3>1. \A f \in Handlers : handler[f].key # k
      BY <2>1, <2>2
    <3> QED BY <1>5, <3>1 DEF OthersKept
  <2>3. CASE j # k
    BY <1>1, <1>5, <2>1, <2>3 DEF OthersKept, Alone
  <2> QED BY <2>2, <2>3
<1> QED BY <1>2, <1>3, <1>4, <1>5, StepMoves DEF Passes

\* A handler about to write a request served alone writes it for the first time.
LEMMA PutKept ==
  ASSUME Shape, Solo, [Next]_uploadVars, Effect, NEW k \in Keys, k \notin raced',
         NEW h \in Handlers, handler'[h].pc = "put", handler'[h].key = k
  PROVE  (k \notin Range(drive[DocOf(k)]))'
<1> DEFINE d == DocOf(k)
<1>1. Alone(k) /\ k \notin raced /\ k # NoKey /\ k # Foreign /\ k \notin late
  BY StepSigns, DocumentUploadAssumption DEF Signs, Solo, Shape, SignShape
<1>2. ops'[k].state # "absent"
  BY HandlersOK DEF HandlerOK, HandlerShape, Absent
<1>3. CASE Absent(k)
  <2>1. drive' = drive /\ DocOf(k)' \in Keys
    <3>1. PICK t \in Keys \cup {NoKey} : Reserves(k, t)
      BY <1>2, <1>3, Inserted
    <3> QED BY <3>1, ReservesRows DEF DocOf
  <2>2. \A e \in Keys : \A i \in DOMAIN drive[e] : drive[e][i] # k
    BY <1>3, AbsentUnwritten
  <2> QED BY <2>1, <2>2 DEF Range
<1>4. CASE ~Absent(k) /\ Appends(d, k)
  <2>1. d \in Keys /\ k \in Contents /\ drive' # drive
    <3>1. d \in Keys /\ k \in Contents /\ drive[d] \in Seq(Contents)
      BY DocTyped DEF Contents
    <3>2. Len(drive'[d]) = Len(drive[d]) + 1
      BY <1>4, <3>1, AppendsRows
    <3> QED BY <3>1, <3>2
  <2>2. ~Rests
    BY <1>1, <1>4, <2>1, OneAppends, TypeParts DEF Rests, Contents, Shape, OthersTyped
  <2>3. ASSUME NEW m \in Handlers, OthersKept(m), At(m, "put"), handler'[m].pc # "put",
               Appends(DocOf(handler[m].key), handler[m].key)
        PROVE  FALSE
    <3>1. handler[m].key = k
      BY <1>4, <2>1, <2>3, OneAppends, Running DEF At, Contents
    <3>2. h # m /\ handler[h].key = k
      BY <2>3 DEF OthersKept
    <3> QED BY <1>1, <3>1, <3>2 DEF Alone
  <2>4. ASSUME NEW m \in Handlers, OthersKept(m), Reads(m) PROVE FALSE
    <3>1. UploadFile(m)
      BY <2>1, <2>4, RecoverMoves, VersionMoves, DownloadMoves, ContentMoves DEF Reads, Quiet
    <3> QED BY <2>3, <2>4, <3>1, UploadMoves DEF Turns, At
  <2>5. ASSUME NEW m \in Handlers, OthersKept(m), Passes(m) PROVE FALSE
    BY <2>1, <2>3, <2>5 DEF Passes
  <2>6. ASSUME NEW m \in Handlers, Starts(m) PROVE FALSE
    BY <2>1, <2>6 DEF Starts, Quiet
  <2> QED BY <2>2, <2>4, <2>5, <2>6, StepMoves
<1>5. CASE ~Absent(k) /\ ~Appends(d, k)
  <2>1. k \notin Range(drive[d])
    <3>1. CASE handler'[h] = handler[h]
      BY <1>1, <3>1 DEF Alone, At
    <3>2. CASE handler'[h] # handler[h]
      <4>1. RecoverUploaded(h)
        <5>1. PICK m \in Handlers : OthersKept(m) /\ (Reads(m) \/ Passes(m) \/ Starts(m))
          BY <3>2, StepMoves DEF Rests
        <5>2. m = h
          BY <3>2, <5>1 DEF OthersKept
        <5>3. Reads(h)
          BY <5>1, <5>2 DEF Passes, Starts
        <5> QED BY <5>3, UploadMoves, VersionMoves, DownloadMoves, ContentMoves DEF Reads, Turns
      <4>2. ~Recoverable(h) /\ handler[h].key = k
        BY <1>1, <4>1, RecoverMoves DEF Turns, Becomes, Idle
      <4>3. drive[d] \in Seq(Contents)
        BY DocTyped
      <4>4. CASE Versioning(k)
        <5>1. Newest(d) = ops[k].baseline
          BY <4>2, <4>4 DEF Recoverable
        <5>2. Later(k) /\ Newest(d) \in Nat
          BY <4>3, <4>4 DEF Solo, Newest
        <5> QED BY <4>3, <5>1, <5>2 DEF Later, Range, Newest
      <4>5. CASE ~Versioning(k)
        <5>1. drive[d] = <<>>
          BY <4>2, <4>5 DEF Recoverable
        <5> QED BY <5>1 DEF Range
      <4> QED BY <4>4, <4>5
    <3> QED BY <3>1, <3>2
  <2>2. /\ DocOf(k)' = d
        /\ \A i \in DOMAIN drive'[d] : drive'[d][i] = k => i \in DOMAIN drive[d] /\ drive[d][i] = k
    BY <1>5, NotWritten
  <2> QED BY <2>1, <2>2 DEF Range
<1> QED BY <1>3, <1>4, <1>5

LEMMA SoloKept ==
  ASSUME Shape, Solo, [Next]_uploadVars
  PROVE  Solo'
<1>1. Effect
  BY Effects
<1>2. ASSUME NEW k \in Keys, k \notin raced' PROVE Alone(k)'
  <2>1. k \notin raced
    BY <1>2, StepSigns DEF Signs
  <2>2. Once(k)'
    BY <1>1, <2>1, OnceKept
  <2>3. \A g, h \in Handlers : handler'[g].key = k /\ handler'[h].key = k => g = h
    BY <1>2, UniqueKept
  <2>4. \A h \in Handlers : (At(h, "put") /\ handler[h].key = k => k \notin Range(drive[DocOf(k)]))'
    BY <1>1, <1>2, PutKept DEF At
  <2> QED BY <2>2, <2>3, <2>4 DEF Alone
<1>3. \A k \in Keys : Versioning(k)' => Later(k)'
  BY <1>1, LaterKept
<1> QED BY <1>2, <1>3 DEF Solo

LEMMA InitSolo == Init => Solo
<1> SUFFICES ASSUME Init PROVE Solo
  OBVIOUS
<1>1. /\ \A h \in Handlers : handler[h].key = NoKey /\ ~At(h, "put")
      /\ \A k \in Keys : ~Versioning(k) /\ DocOf(k) = k /\ drive[k] = <<>>
  BY DEF Init, Idle, At, NoOp, Versioning, DocOf
<1>2. \A k \in Keys : Once(k)
  BY <1>1 DEF Once
<1> QED BY <1>1, <1>2, DocumentUploadAssumption DEF Solo, Alone

\* A request that is repeated after any failure, but not while its first attempt
\* still runs, is written to SharePoint once.
THEOREM SoloCorrect == Spec => []SoloUploadsOnce
<1>1. Shape /\ Solo /\ [Next]_uploadVars => Solo'
  BY SoloKept
<1>2. Shape /\ Solo => SoloUploadsOnce
  <2> SUFFICES ASSUME Shape, Solo, NEW k \in Keys \ raced
               PROVE  Cardinality({i \in DOMAIN drive[DocOf(k)] : drive[DocOf(k)][i] = k}) <= 1
    BY DEF SoloUploadsOnce
  <2> DEFINE S == {i \in DOMAIN drive[DocOf(k)] : drive[DocOf(k)][i] = k}
  <2>1. \A i, j \in S : i = j
    BY DEF Solo, Alone, Once
  <2>2. CASE S = {}
    BY <2>2, FS_EmptySet
  <2>3. ASSUME NEW i \in S PROVE Cardinality(S) = 1
    <3>1. S = {i}
      BY <2>1
    <3> HIDE DEF S
    <3> QED BY <3>1, FS_Singleton
  <2> QED BY <2>2, <2>3
<1> QED BY <1>1, <1>2, InitSolo, ShapeCorrect, PTL DEF Spec

-----------------------------------------------------------------------------
(* Own: a file written by its uploads only                                 *)

\* A clean file was clean before.
LEMMA CleanBefore ==
  ASSUME Shape, Effect, NEW d \in Keys, Clean(d)'
  PROVE  Clean(d)
<1>1. /\ drive[d] \in Seq(Contents) /\ drive'[d] \in Seq(Contents)
      /\ Len(drive[d]) <= Len(drive'[d])
      /\ \A i \in 1 .. Len(drive[d]) : drive'[d][i] = drive[d][i]
  BY DocTyped, Growing DEF Grows, RowsTyped
<1>2. \A i \in 1 .. Len(drive[d]) : i \in 1 .. Len(drive'[d])
  BY <1>1
<1> QED BY <1>1, <1>2 DEF Clean, IsInjective, Range

\* A file that stays clean is written by a pending request, for the first time.
LEMMA CleanWriter ==
  ASSUME Shape, Own, Effect, NEW d \in Keys, NEW c \in Contents, Appends(d, c), Clean(d)'
  PROVE  /\ c \in Keys /\ Pending(c) /\ DocOf(c) = d /\ c \notin Range(drive[d])
         /\ Clean(d)
<1>1. /\ drive'[d] \in Seq(Contents) /\ Len(drive'[d]) = Len(drive[d]) + 1
      /\ drive'[d][Len(drive[d]) + 1] = c /\ drive[d] \in Seq(Contents)
      /\ \A i \in 1 .. Len(drive[d]) : drive'[d][i] = drive[d][i]
  BY AppendsRows, DocTyped
<1>2. c # Foreign
  <2>1. Len(drive[d]) + 1 \in DOMAIN drive'[d]
    BY <1>1
  <2> QED BY <1>1, <2>1 DEF Clean, Range
<1>3. \A i \in 1 .. Len(drive[d]) : drive[d][i] # c
  <2> SUFFICES ASSUME NEW i \in 1 .. Len(drive[d]), drive[d][i] = c PROVE FALSE
    OBVIOUS
  <2>1. /\ i \in DOMAIN drive'[d] /\ Len(drive[d]) + 1 \in DOMAIN drive'[d]
        /\ drive'[d][i] = drive'[d][Len(drive[d]) + 1]
    BY <1>1
  <2>2. i = Len(drive[d]) + 1
    BY <2>1 DEF Clean, IsInjective
  <2> QED BY <1>1, <2>2
<1>4. c \in Keys /\ ~Absent(c) /\ DocOf(c) = d
  BY <1>2 DEF Appends, Contents
<1>5. c \notin Range(drive[d]) /\ Clean(d)
  BY <1>1, <1>3, CleanBefore DEF Range
<1>6. ~Stored(c)
  BY <1>4, <1>5 DEF Own, OwnRow
<1> QED BY <1>4, <1>5, <1>6 DEF Pending

\* The file after the write ends with the bytes of the request.
LEMMA WriteIsLast ==
  ASSUME Shape, Effect, NEW c \in Keys, ~Absent(c), Appends(DocOf(c), c)
  PROVE  /\ Newly(c)' /\ (Newest(DocOf(c)))' = Newest(DocOf(c)) + 1
<1> DEFINE d == DocOf(c)
<1>1. d \in Keys /\ c \in Contents /\ DocOf(c)' = d
  BY DocTyped, Growing, Steady DEF Contents
<1>2. /\ drive'[d] \in Seq(Contents) /\ Len(drive'[d]) = Len(drive[d]) + 1
      /\ drive'[d][Len(drive[d]) + 1] = c /\ drive[d] \in Seq(Contents)
  BY <1>1, AppendsRows, DocTyped
<1>3. Len(drive'[d]) \in DOMAIN drive'[d] /\ drive'[d][Len(drive'[d])] = c
  BY <1>2
<1> QED BY <1>1, <1>2, <1>3 DEF Newly, Newest, Range, Last

\* A pending request was pending, or is reserved by this step.
LEMMA PendingBefore ==
  ASSUME Shape, Effect, NEW k \in Keys, Pending(k)', ~Absent(k)
  PROVE  Pending(k)
BY Growing, Steady DEF Pending

BaselineOK(k) == Pending(k) /\ Versioning(k) => ops[k].baseline = docs[DocOf(k)]

LEMMA BaselineKept ==
  ASSUME Shape, Own, Effect, NEW k \in Keys
  PROVE  BaselineOK(k)'
<1> SUFFICES ASSUME Pending(k)', Versioning(k)'
             PROVE  (ops[k].baseline = docs[DocOf(k)])'
  BY DEF BaselineOK
<1>1. CASE Absent(k)
  <2>1. PICK d \in Keys \cup {NoKey} : Reserves(k, d)
    BY <1>1, Inserted DEF Pending, Absent
  <2> QED BY <2>1, ReservesRows DEF DocOf, Versioning
<1>2. CASE ~Absent(k)
  <2> DEFINE d == DocOf(k)
  <2>1. /\ Pending(k) /\ d \in Keys /\ (DocOf(k))' = d /\ ops'[k].baseline = ops[k].baseline
        /\ ops[k].baseline = docs[d]
    BY <1>2, PendingBefore, DocTyped, Growing, Steady DEF Grows, Own
  <2>2. docs'[d] = docs[d]
    <3>1. ASSUME NEW j \in Keys, Finalizes(j) PROVE docs'[d] = docs[d]
      <4>1. CASE DocOf(j) = d
        <5>1. Pending(j)
          BY <3>1 DEF Finalizes, Pending, Absent
        <5>2. j = k
          BY <2>1, <4>1, <5>1 DEF Shape, OnePending
        <5>3. ops'[k].state = "completed" /\ RowShape(k)'
          BY <3>1, <5>2, FinalizesRows, RowShapeKept
        <5> QED BY <5>3 DEF RowShape, Pending
      <4>2. CASE DocOf(j) # d
        BY <2>1, <3>1, <4>2, FinalizesRows
      <4> QED BY <4>1, <4>2
    <3> QED BY <3>1 DEF Effect, Quiet, Reserves, Prepares, Records, Appends
  <2> QED BY <2>1, <2>2
<1> QED BY <1>1, <1>2

\* A row that the step leaves alone, as it leaves the file.
LEMMA OwnRowSame ==
  ASSUME Shape, NEW j \in Keys, OwnRow(j), (DocOf(j))' = DocOf(j),
         drive'[DocOf(j)] = drive[DocOf(j)], version'[j] = version[j],
         ops'[j].state = ops[j].state, ops'[j].etag = ops[j].etag,
         ops'[j].ext = ops[j].ext, ops'[j].hash = ops[j].hash
  PROVE  OwnRow(j)'
<1>1. /\ Newest(DocOf(j))' = Newest(DocOf(j))
      /\ Newly(j)' <=> Newly(j)
      /\ Stored(j)' <=> Stored(j)
      /\ Pending(j)' <=> Pending(j)
      /\ Known(j)' <=> Known(j)
  BY DEF Newest, Newly, Stored, Pending, Known, Absent
<1>2. Current(j, ops[j].etag, ops[j].ext)' <=> Current(j, ops[j].etag, ops[j].ext)
  BY <1>1 DEF Current
<1> QED BY <1>1, <1>2 DEF OwnRow

LEMMA OwnRowAppended ==
  ASSUME Shape, Own, Effect, NEW j \in Keys, ~Absent(j),
         NEW c \in Contents, Appends(DocOf(j), c), Clean(DocOf(j))'
  PROVE  OwnRow(j)'
<1> DEFINE d == DocOf(j)
<1>1. d \in Keys /\ (DocOf(j))' = d /\ UNCHANGED <<ops, docs, version>>
  BY DocTyped, Growing, Steady DEF Appends
<1>2. Clean(d)'
  BY <1>1 DEF Clean
<1>3. /\ c \in Keys /\ Pending(c) /\ DocOf(c) = d /\ c \notin Range(drive[d]) /\ Clean(d)
  BY <1>1, <1>2, CleanWriter
<1>4. /\ drive'[d] \in Seq(Contents) /\ Len(drive'[d]) = Len(drive[d]) + 1
      /\ \A i \in 1 .. Len(drive[d]) : drive'[d][i] = drive[d][i]
      /\ drive[d] \in Seq(Contents)
  BY <1>1, AppendsRows, DocTyped
<1>5. OwnRow(j)
  BY <1>3 DEF Own
<1>6. (Stored(j)' <=> Stored(j)) /\ (Pending(j)' <=> Pending(j)) /\ (Known(j)' <=> Known(j))
  BY <1>1 DEF Stored, Pending, Known, Absent
<1>7. CASE j = c
  <2>1. Newly(j)'
    BY <1>3, <1>7, WriteIsLast DEF Pending
  <2>2. ~Known(j) /\ ~Stored(j)
    BY <1>3, <1>5, <1>7 DEF OwnRow, Current, Newly, Pending
  <2> QED BY <1>6, <2>1, <2>2 DEF OwnRow
<1>8. CASE j # c
  <2>1. ~Pending(j) /\ Stored(j)
    BY <1>3, <1>8 DEF Shape, OnePending, Pending
  <2>2. version[j].ext \in Nat /\ version[j].ext <= Len(drive[d])
    BY <2>1, TypeParts DEF Shape, RowReach, RowsTyped, Newest
  <2>3. j \in Range(drive'[d])
    <3>1. PICK i \in DOMAIN drive[d] : drive[d][i] = j
      BY <1>5, <2>1 DEF OwnRow, Range
    <3>2. i \in DOMAIN drive'[d] /\ drive'[d][i] = j
      BY <1>4, <3>1
    <3> QED BY <3>2 DEF Range
  <2>4. version[j].ext # 0 => drive'[d][version[j].ext] = drive[d][version[j].ext]
    BY <1>4, <2>2
  <2> QED BY <1>1, <1>5, <1>6, <2>1, <2>3, <2>4 DEF OwnRow
<1> QED BY <1>7, <1>8

LEMMA OwnRowKept ==
  ASSUME Shape, Own, Effect, NEW j \in Keys, Clean(DocOf(j))'
  PROVE  OwnRow(j)'
<1> DEFINE d == DocOf(j)
<1>1. CASE Absent(j)
  <2>1. CASE ops'[j].state = "absent"
    <3>1. ~Stored(j)' /\ ~Pending(j)'
      BY <2>1, RowShapeKept DEF RowShape, Known, Absent, Pending
    <3> QED BY <3>1 DEF OwnRow
  <2>2. CASE ops'[j].state # "absent"
    <3>1. PICK t \in Keys \cup {NoKey} : Reserves(j, t)
      BY <1>1, <2>2, Inserted
    <3>2. /\ drive' = drive /\ (DocOf(j))' \in Keys /\ ~Known(j)' /\ (Stored(j)' => Stored(j))
      BY <3>1, ReservesRows DEF DocOf, Known, Stored
    <3>3. ~Stored(j)
      BY <1>1, StoredIsKnown
    <3>4. \A e \in Keys : \A i \in DOMAIN drive[e] : drive[e][i] # j
      BY <1>1, AbsentUnwritten
    <3> QED BY <3>2, <3>3, <3>4 DEF OwnRow, Range
  <2> QED BY <2>1, <2>2
<1>2. CASE ~Absent(j)
  <2>1. d \in Keys /\ (DocOf(j))' = d
    BY <1>2, DocTyped, Growing, Steady
  <2>2. Clean(d)' /\ Clean(d) /\ OwnRow(j)
    <3>1. Clean(d)'
      BY <2>1 DEF Clean
    <3>2. Clean(d)
      BY <2>1, <3>1, CleanBefore
    <3> QED BY <3>1, <3>2 DEF Own
  <2>3. CASE Quiet
    BY <2>1, <2>2, <2>3, OwnRowSame DEF Quiet
  <2>4. ASSUME NEW k \in Keys, NEW t \in Keys \cup {NoKey}, Reserves(k, t) PROVE OwnRow(j)'
    <3>1. j # k
      BY <1>2, <2>4 DEF Reserves
    <3> QED BY <2>1, <2>2, <2>4, <3>1, ReservesRows, OwnRowSame DEF RowsKept
  <2>5. ASSUME NEW k \in Keys, Prepares(k) PROVE OwnRow(j)'
    <3>1. CASE j = k
      BY <2>1, <2>2, <2>5, <3>1, PreparesRows, OwnRowSame
    <3>2. CASE j # k
      BY <2>1, <2>2, <2>5, <3>2, PreparesRows, OwnRowSame DEF RowsKept
    <3> QED BY <3>1, <3>2
  <2>6. ASSUME NEW k \in Keys, Finalizes(k) PROVE OwnRow(j)'
    <3>1. CASE j = k
      <4>1. Pending(j) /\ Known(j)
        BY <2>6, <3>1 DEF Finalizes, Pending, Known, Absent
      <4>2. Newly(j) /\ ops[j].hash = j /\ ops[j].ext \in {0, Newest(d)}
        BY <2>2, <4>1 DEF OwnRow, Current
      <4>3. version'[j] = [ext |-> ops[j].ext, hash |-> ops[j].hash]
            /\ drive' = drive /\ ops'[j].state = "completed"
        BY <2>6, <3>1, FinalizesRows
      <4>4. version'[j].ext = ops[j].ext /\ version'[j].hash = ops[j].hash
        BY <4>3
      <4>5. ~Pending(j)'
        BY <4>3, RowShapeKept DEF RowShape, Pending
      <4> QED BY <2>1, <4>2, <4>3, <4>4, <4>5 DEF OwnRow, Newly, Newest, Last
    <3>2. CASE j # k
      BY <2>1, <2>2, <2>6, <3>2, FinalizesRows, OwnRowSame DEF RowsKept
    <3> QED BY <3>1, <3>2
  <2>7. ASSUME NEW h \in Handlers, Records(h) PROVE OwnRow(j)'
    <3>1. CASE j = handler[h].key
      <4>1. /\ UNCHANGED <<docs, version, drive>> /\ ops'[j].etag = handler[h].etag
            /\ ops'[j].ext = handler[h].ext /\ ops'[j].hash = handler[h].hash
            /\ ops'[j].state = "uploaded"
        BY <2>7, <3>1, RecordsRows
      <4>2. (Stored(j)' <=> Stored(j)) /\ (Newly(j)' <=> Newly(j)) /\ (Pending(j)' <=> Pending(j))
        BY <1>2, <2>1, <4>1 DEF Stored, Newly, Pending, Absent
      <4>3. Pending(j) => Current(j, handler[h].etag, handler[h].ext) /\ handler[h].hash = j
        BY <2>2, <2>7, <3>1 DEF Own, OwnHandler, OwnRequest, Records, At, Reading
      <4>4. Pending(j)' => Current(j, ops[j].etag, ops[j].ext)' /\ ops'[j].hash = j
        BY <2>1, <4>1, <4>2, <4>3 DEF Current, Newest
      <4> QED BY <2>1, <2>2, <4>1, <4>2, <4>4 DEF OwnRow
    <3>2. CASE j # handler[h].key
      BY <2>1, <2>2, <2>7, <3>2, RecordsRows, OwnRowSame DEF RowsKept
    <3> QED BY <3>1, <3>2
  <2>8. ASSUME NEW e \in Keys, NEW c \in Contents, Appends(e, c) PROVE OwnRow(j)'
    <3>1. CASE e = d
      BY <1>2, <2>2, <2>8, <3>1, OwnRowAppended
    <3>2. CASE e # d
      BY <2>1, <2>2, <2>8, <3>2, AppendsRows, OwnRowSame
    <3> QED BY <3>1, <3>2
  <2> QED BY <2>3, <2>4, <2>5, <2>6, <2>7, <2>8 DEF Effect
<1> QED BY <1>1, <1>2

LEMMA OwnDocumentKept ==
  ASSUME Shape, Own, Effect, NEW d \in Keys, Clean(d)'
  PROVE  OwnDocument(d)'
<1>1. Clean(d) /\ OwnDocument(d)
  BY CleanBefore DEF Own
<1>2. ASSUME NEW k \in Keys, Pending(k), DocOf(k) = d, Newly(k), drive'[d] = drive[d],
             ~Stored(k)'
      PROVE  (Pending(k) /\ DocOf(k) = d /\ Newly(k))'
  BY <1>2, Growing, Steady DEF Pending, Newly
<1>3. ASSUME docs'[d] = docs[d], drive'[d] = drive[d],
             \A k \in Keys : DocOf(k) = d /\ ~Stored(k) => version'[k] = version[k]
      PROVE  OwnDocument(d)'
  <2> SUFFICES ASSUME docs[d] # 0, Newest(d) # docs[d]
               PROVE  OwnDocument(d)'
    BY <1>3 DEF OwnDocument, Newest
  <2>1. PICK k \in Keys : Pending(k) /\ DocOf(k) = d /\ Newly(k)
    BY <1>1 DEF OwnDocument
  <2>2. ~Stored(k)'
    BY <1>3, <2>1 DEF Pending, Stored
  <2> QED BY <1>2, <1>3, <2>1, <2>2 DEF OwnDocument
<1>4. CASE Quiet \/ (\E k \in Keys : Prepares(k) \/ \E t \in Keys \cup {NoKey} : Reserves(k, t))
           \/ (\E h \in Handlers : Records(h))
  <2>1. UNCHANGED <<docs, version, drive>>
    BY <1>4 DEF Quiet, Prepares, Reserves, Records
  <2> QED BY <1>3, <2>1
<1>5. ASSUME NEW k \in Keys, Finalizes(k) PROVE OwnDocument(d)'
  <2>1. CASE DocOf(k) = d
    <3>1. Pending(k) /\ Known(k)
      BY <1>5 DEF Finalizes, Pending, Known, Absent
    <3>2. ops[k].etag = Newest(d)
      BY <1>1, <2>1, <3>1 DEF Own, OwnRow, Current
    <3> QED BY <1>5, <2>1, <3>2, FinalizesRows DEF OwnDocument, Newest
  <2>2. CASE DocOf(k) # d
    BY <1>3, <1>5, <2>2, FinalizesRows
  <2> QED BY <2>1, <2>2
<1>6. ASSUME NEW e \in Keys, NEW c \in Contents, Appends(e, c) PROVE OwnDocument(d)'
  <2>1. CASE e = d
    <3>1. c \in Keys /\ Pending(c) /\ DocOf(c) = d
      BY <1>6, <2>1, CleanWriter
    <3>2. Newly(c)' /\ (DocOf(c))' = d /\ Pending(c)'
      BY <1>6, <2>1, <3>1, WriteIsLast, Growing, Steady DEF Pending, Appends, Absent, Stored
    <3> QED BY <3>1, <3>2 DEF OwnDocument
  <2>2. CASE e # d
    BY <1>3, <1>6, <2>2, AppendsRows
  <2> QED BY <2>1, <2>2
<1> QED BY <1>4, <1>5, <1>6 DEF Effect

\* What a handler of a pending request has read stays true of a clean file.
LEMMA CurrentKept ==
  ASSUME Shape, Own, Effect, NEW k \in Keys, Pending(k), Pending(k)', Clean(DocOf(k))',
         NEW etag, NEW ext, Current(k, etag, ext)
  PROVE  Current(k, etag, ext)' /\ (Newest(DocOf(k)))' = Newest(DocOf(k))
<1> DEFINE d == DocOf(k)
<1>1. d \in Keys /\ DocOf(k)' = d
  BY DocTyped, Growing, Steady DEF Pending
<1>2. Clean(d)'
  BY <1>1 DEF Clean
<1>3. drive'[d] = drive[d]
  <2>1. ASSUME NEW c \in Contents, Appends(d, c) PROVE FALSE
    <3>1. c \in Keys /\ Pending(c) /\ DocOf(c) = d /\ c \notin Range(drive[d])
      BY <1>1, <1>2, <2>1, CleanWriter
    <3>2. c = k
      BY <3>1 DEF Shape, OnePending
    <3> QED BY <3>1, <3>2 DEF Current, Newly
  <2>2. ASSUME NEW e \in Keys, NEW c \in Contents, Appends(e, c) PROVE drive'[d] = drive[d]
    BY <1>1, <2>1, <2>2, AppendsRows
  <2> QED BY <2>2 DEF Effect, Quiet, Reserves, Prepares, Finalizes, Records
<1> QED BY <1>1, <1>3 DEF Current, Newly, Newest

\* A file found for a pending request is its own.
LEMMA RecoveredOwn ==
  ASSUME Shape, Own, NEW h \in Handlers, handler[h].pc = "recover", Recoverable(h),
         Pending(handler[h].key), Clean(DocOf(handler[h].key))
  PROVE  Newly(handler[h].key)
<1> DEFINE k == handler[h].key  d == DocOf(k)
<1>1. k \in Keys /\ d \in Keys /\ drive[d] \in Seq(Contents)
  BY Running, DocTyped
<1>2. CASE Versioning(k)
  <2>1. Newest(d) # docs[d] /\ docs[d] # 0
    BY <1>1, <1>2 DEF Recoverable, Own, Shape, RowShape, Versioning, DocOf
  <2>2. PICK j \in Keys : Pending(j) /\ DocOf(j) = d /\ Newly(j)
    BY <1>1, <2>1 DEF Own, OwnDocument
  <2> QED BY <1>1, <2>2 DEF Shape, OnePending
<1>3. CASE ~Versioning(k)
  <2>1. drive[d] # <<>> /\ d = k
    BY <1>3 DEF Recoverable, DocOf, Versioning
  <2>2. Len(drive[d]) \in DOMAIN drive[d]
    BY <1>1, <2>1
  <2> DEFINE x == drive[d][Len(drive[d])]
  <2>3. x # Foreign
    BY <2>2 DEF Clean, Range
  <2>4. x \in Keys /\ ~Absent(x) /\ DocOf(x) = k
    BY <1>1, <2>1, <2>2, <2>3 DEF Shape, FileShape, Contents
  <2>5. docs[k] = 0
    BY <1>1, <1>3 DEF Shape, RowShape, Pending
  <2>6. x = k
    BY <2>4, <2>5 DEF Shape, RowShape, DocOf, Versioning
  <2> QED BY <2>1, <2>2, <2>6 DEF Newly, Range, Last
<1> QED BY <1>2, <1>3

LEMMA OwnRequestKept ==
  ASSUME Shape, Own, Effect, NEW r, r.pc \in Reading, r.key \in Keys,
         Pending(r.key), Pending(r.key)', Clean(DocOf(r.key))', OwnRequest(r)
  PROVE  OwnRequest(r)'
<1>1. ASSUME NEW etag, NEW ext, Current(r.key, etag, ext)
      PROVE  Current(r.key, etag, ext)'
  BY <1>1, CurrentKept
<1> QED BY <1>1 DEF OwnRequest

\* What a handler reads of a clean file, while nobody writes to it.
LEMMA CurrentQuiet ==
  ASSUME Quiet, NEW k, NEW etag, NEW ext
  PROVE  /\ Current(k, etag, ext)' <=> Current(k, etag, ext)
         /\ Pending(k)' <=> Pending(k)
         /\ Clean(DocOf(k))' <=> Clean(DocOf(k))
BY DEF Quiet, Current, Newly, Newest, DocOf, Pending, Absent, Stored, Clean

\* A handler that reads the written file of a pending request reads its bytes.
LEMMA ReadsOwn ==
  ASSUME Shape, Own, Effect, NEW h \in Handlers, Reads(h),
         NEW k \in Keys, handler[h].key = k, Pending(k)', Clean(DocOf(k))',
         NEW r, handler'[h] = r, r.pc \in Reading
  PROVE  r.key = k /\ OwnRequest(r)'
<1>1. CASE RecoverUploaded(h)
  <2>1. /\ handler[h].pc = "recover" /\ Quiet /\ Recoverable(h)
        /\ r.pc = "versions" /\ r.key = k /\ r.etag = Newest(DocOf(k))
    BY <1>1, RecoverMoves DEF Turns, Becomes, Idle, Reading
  <2>2. Pending(k) /\ Clean(DocOf(k))
    BY <2>1, CurrentQuiet
  <2>3. Current(k, r.etag, 0)
    BY <2>1, <2>2, RecoveredOwn DEF Current
  <2> QED BY <2>1, <2>3, CurrentQuiet DEF OwnRequest
<1>2. CASE UploadFile(h)
  <2>1. /\ handler[h].pc = "put" /\ Appends(DocOf(k), k)
        /\ r.pc = "versions" /\ r.key = k /\ r.etag = Newest(DocOf(k)) + 1
    BY <1>2, UploadMoves DEF Turns
  <2>2. ~Absent(k)
    BY <2>1, Running
  <2>3. Newly(k)' /\ (Newest(DocOf(k)))' = r.etag
    BY <2>1, <2>2, WriteIsLast
  <2> QED BY <2>1, <2>3 DEF OwnRequest, Current
<1>3. CASE ExternalVersionId(h)
  <2>1. /\ handler[h].pc = "versions" /\ Quiet /\ r.etag = handler[h].etag /\ r.key = k
        /\ \/ r.pc = "download" /\ r.ext = Newest(DocOf(k))
           \/ r.pc = "content" /\ r.ext = 0
    BY <1>3, VersionMoves DEF Turns
  <2>2. Current(k, r.etag, 0)
    BY <2>1, CurrentQuiet DEF Own, OwnHandler, OwnRequest, Reading
  <2>3. r.etag # 0
    BY <2>1 DEF Shape, HandlerReach, Reading
  <2>4. Current(k, r.etag, r.ext) /\ (r.pc = "download" => r.ext # 0)
    BY <2>1, <2>2, <2>3 DEF Current
  <2> QED BY <2>1, <2>4, CurrentQuiet DEF OwnRequest
<1>4. CASE DownloadVersion(h)
  <2>1. /\ handler[h].pc = "download" /\ Quiet /\ r.etag = handler[h].etag
        /\ r.ext = handler[h].ext /\ r.key = k
        /\ r.pc = "content" \/ r.ext # Newest(DocOf(k))
    BY <1>4, DownloadMoves DEF Turns
  <2>2. Current(k, r.etag, r.ext) /\ r.ext # 0
    BY <2>1, CurrentQuiet DEF Own, OwnHandler, OwnRequest, Reading
  <2>3. r.pc = "content"
    BY <2>1, <2>2 DEF Current
  <2> QED BY <2>1, <2>2, <2>3, CurrentQuiet DEF OwnRequest
<1>5. CASE DownloadContent(h)
  <2>1. /\ handler[h].pc = "content" /\ Quiet /\ r.etag = handler[h].etag
        /\ r.ext = handler[h].ext /\ r.key = k /\ r.pc = "record"
        /\ r.hash = drive[DocOf(k)][Newest(DocOf(k))]
    BY <1>5, ContentMoves DEF Turns
  <2>2. Current(k, r.etag, r.ext)
    BY <2>1, CurrentQuiet DEF Own, OwnHandler, OwnRequest, Reading
  <2>3. r.hash = k
    BY <2>1, <2>2 DEF Current, Newly, Last, Newest
  <2> QED BY <2>1, <2>2, <2>3, CurrentQuiet DEF OwnRequest
<1> QED BY <1>1, <1>2, <1>3, <1>4, <1>5 DEF Reads

LEMMA OwnHandlerKept ==
  ASSUME Shape, Own, [Next]_uploadVars, Effect, NEW g \in Handlers,
         NEW r, handler'[g] = r, r.pc \in Reading, Pending(r.key)', Clean(DocOf(r.key))'
  PROVE  OwnRequest(r)'
<1>1. ASSUME handler[g] = r PROVE OwnRequest(r)'
  <2>1. r.key \in Keys /\ ~Absent(r.key)
    BY <1>1, Running DEF Reading
  <2>2. Pending(r.key) /\ DocOf(r.key) \in Keys /\ (DocOf(r.key))' = DocOf(r.key)
    BY <2>1, PendingBefore, Growing, Steady, DocTyped
  <2>3. Clean(DocOf(r.key))
    <3>1. \A e \in {DocOf(r.key)} : Clean(e)'
      BY <2>2 DEF Clean
    <3> QED BY <2>2, <3>1, CleanBefore
  <2>4. OwnRequest(r)
    BY <1>1, <2>2, <2>3 DEF Own, OwnHandler
  <2> QED BY <2>1, <2>2, <2>4, OwnRequestKept
<1>2. ASSUME NEW h \in Handlers, OthersKept(h), Reads(h) PROVE OwnRequest(r)'
  <2>1. CASE h = g
    <3>1. handler[g].pc # "idle" /\ handler[g].key = r.key
      BY <1>2, <2>1, RecoverMoves, UploadMoves, VersionMoves, DownloadMoves, ContentMoves
         DEF Reads, Turns, Becomes, Idle, Reading
    <3>2. r.key \in Keys
      BY <3>1, Running
    <3> QED BY <1>2, <2>1, <3>1, <3>2, ReadsOwn
  <2>2. CASE h # g
    BY <1>1, <1>2, <2>2 DEF OthersKept
  <2> QED BY <2>1, <2>2
<1>3. ASSUME NEW h \in Handlers, OthersKept(h), Passes(h) \/ Starts(h) PROVE OwnRequest(r)'
  <2>1. h # g
    BY <1>3 DEF Passes, Starts, Reading
  <2> QED BY <1>1, <1>3, <2>1 DEF OthersKept
<1> QED BY <1>1, <1>2, <1>3, StepMoves DEF Rests

LEMMA OwnKept ==
  ASSUME Shape, Own, [Next]_uploadVars
  PROVE  Own'
<1>1. Effect
  BY Effects
<1>2. \A k \in Keys : (Pending(k) /\ Versioning(k) => ops[k].baseline = docs[DocOf(k)])'
  BY <1>1, BaselineKept DEF BaselineOK
<1>3. \A k \in Keys : Clean(DocOf(k))' => OwnRow(k)'
  BY <1>1, OwnRowKept
<1>4. \A h \in Handlers : (/\ handler[h].pc \in Reading
                           /\ Pending(handler[h].key) /\ Clean(DocOf(handler[h].key))
                           => OwnHandler(h))'
  <2> SUFFICES ASSUME NEW h \in Handlers, handler'[h].pc \in Reading,
                      (Pending(handler[h].key) /\ Clean(DocOf(handler[h].key)))'
               PROVE  (OwnRequest(handler[h]))'
    BY DEF OwnHandler
  <2>1. \A r \in {handler'[h]} : OwnRequest(r)'
    <3> SUFFICES ASSUME NEW r, handler'[h] = r PROVE OwnRequest(r)'
      OBVIOUS
    <3>1. Pending(r.key)' /\ Clean(DocOf(r.key))'
      BY DEF Pending, Absent, Stored, Clean, DocOf
    <3> QED BY <1>1, <3>1, OwnHandlerKept
  <2> QED BY <2>1 DEF OwnRequest, Current, Newly, Newest, DocOf
<1>5. \A d \in Keys : Clean(d)' => OwnDocument(d)'
  BY <1>1, OwnDocumentKept
<1> QED BY <1>2, <1>3, <1>4, <1>5 DEF Own

LEMMA InitOwn == Init => Own
<1> SUFFICES ASSUME Init PROVE Own
  OBVIOUS
<1>1. /\ \A h \in Handlers : handler[h].pc \notin Reading
      /\ \A k \in Keys : Absent(k) /\ ~Stored(k) /\ docs[k] = 0
  BY DEF Init, Idle, NoOp, Absent, Stored, Reading
<1> QED BY <1>1 DEF Own, OwnRow, OwnDocument, Pending

\* As long as a file is written by its uploads only, each document version of it
\* points at the native version with the bytes of its own request and holds their
\* hash: recovering what an earlier attempt left, asking for the newest native
\* version and reading it back never takes up the file of another request.
THEOREM OwnBytesCorrect == Spec => []VersionHoldsOwnBytes
<1>1. Shape /\ Own /\ [Next]_uploadVars => Own'
  BY OwnKept
<1>2. Shape /\ Own => VersionHoldsOwnBytes
  BY DEF Own, OwnRow, VersionHoldsOwnBytes
<1> QED BY <1>1, <1>2, InitOwn, ShapeCorrect, PTL DEF Spec
=============================================================================
