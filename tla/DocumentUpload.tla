--------------------------- MODULE DocumentUpload ---------------------------
(***************************************************************************)
(* Uploads of documents to SharePoint and the signature of the uploaded    *)
(* file.                                                                   *)
(*                                                                         *)
(* An upload reserves an operation in the database, writes the file with   *)
(* Microsoft Graph, records what Graph stored and finalizes the document   *)
(* version.  Each of these is a transaction or a call of its own; any of   *)
(* them may fail, and the client repeats the request under its key, also   *)
(* while the first attempt still runs.  Other people edit the same files   *)
(* in SharePoint.                                                          *)
(*                                                                         *)
(* The bytes of a request are named by its idempotency key, and so is the  *)
(* document that a request creates.  Native versions of a file are         *)
(* numbered from 1; the number of the newest one is also its ETag.  One    *)
(* contract.  Its approval is not modelled: it is possible whenever the    *)
(* contract may be signed.                                                 *)
(***************************************************************************)
EXTENDS Integers, Sequences, FiniteSets, SequencesExt, Functions

CONSTANTS
    Keys,        \* idempotency keys of upload requests
    External,    \* the keys of final documents uploaded for the contract
    Docx,        \* the keys whose file is a DOCX, the others are PDF
    Handlers,    \* requests of the API that run at the same time
    NoKey,       \* no key: an idle handler, a new document, no signature
    Foreign,     \* bytes written by somebody in SharePoint
    PathLength,  \* folders above a file
    MaxFaults,   \* bound: lost and late calls, crashes, failing validations
    MaxEdits     \* bound: edits in SharePoint

ASSUME DocumentUploadAssumption ==
    /\ External \subseteq Keys /\ Docx \subseteq Keys
    /\ NoKey \notin Keys /\ Foreign \notin Keys /\ NoKey # Foreign
    /\ PathLength \in Nat /\ MaxFaults \in Nat /\ MaxEdits \in Nat

VARIABLES
    ops,         \* document_upload_operations, by key
    docs,        \* documents.etag, by creating key; 0: no document
    version,     \* document_versions, by the key of their operation
    drive,       \* native versions of each file, oldest first
    folders,     \* how much of the folder path exists
    connected,   \* sharepoint_connections.connection_status
    handler,     \* the running requests
    late,        \* writes reported as failed that Graph may still apply
    bound,       \* contract_versions of the contract, in order
    signer,      \* the request that signs the contract
    signed,      \* the version under signature
    raced,       \* keys served by two handlers at a time, or written late
    faults, edits

uploadVars == <<ops, docs, version, drive, folders, connected, handler, late,
                bound, signer, signed, raced, faults, edits>>

-----------------------------------------------------------------------------
(* Rows and requests                                                       *)

Contents == Keys \cup {Foreign}

NoOp == [state |-> "absent", target |-> NoKey, path |-> FALSE, baseline |-> 0,
         etag |-> 0, ext |-> 0, hash |-> NoKey]
NoVersion == [ext |-> 0, hash |-> NoKey]

Idle == [pc |-> "idle", key |-> NoKey, target |-> NoKey, at |-> 0, tries |-> 0,
         fatal |-> FALSE, etag |-> 0, ext |-> 0, hash |-> NoKey]

NotSigning == [pc |-> "idle", key |-> NoKey]

Init ==
    /\ ops = [k \in Keys |-> NoOp]
    /\ docs = [k \in Keys |-> 0]
    /\ version = [k \in Keys |-> NoVersion]
    /\ drive = [k \in Keys |-> <<>>]
    /\ folders = 0 /\ connected = TRUE
    /\ handler = [h \in Handlers |-> Idle]
    /\ late = {}
    /\ bound = <<>> /\ signer = NotSigning /\ signed = NoKey
    /\ raced = {} /\ faults = 0 /\ edits = 0

\* The document that an operation creates or extends.
DocOf(k) == IF ops[k].target = NoKey THEN k ELSE ops[k].target

Stored(k) == version[k] # NoVersion
Newest(d) == Len(drive[d])
Versioning(k) == ops[k].target # NoKey

\* Operations of a document that are not completed keep it from new versions
\* and from being signed.
OpenUpload(d) == \E k \in Keys : /\ ops[k].state \notin {"absent", "completed"}
                                 /\ DocOf(k) = d

HasSignatureEvidence(d) == signed # NoKey /\ DocOf(signed) = d

\* Mutant: an open upload of the document is not looked for.
ReadyDespiteOpenUpload(k) ==
    /\ Stored(k) /\ version[k].ext # 0
    /\ ops[k].state = "completed" /\ ops[k].hash = version[k].hash

\* The contract may be bound to, and signed with, this version.
ReadyDocument(k) ==
    /\ Stored(k) /\ version[k].ext # 0
    /\ ops[k].state = "completed" /\ ops[k].hash = version[k].hash
    /\ ~OpenUpload(DocOf(k))

-----------------------------------------------------------------------------
(* Steps of a handler                                                      *)

dbVars   == <<ops, docs, version>>
signVars == <<bound, signer, signed>>
boundsVars == <<faults, edits>>

At(h, pc) == handler[h].pc = pc
Goto(h, pc) == handler' = [handler EXCEPT ![h].pc = pc]
Finish(h) == handler' = [handler EXCEPT ![h] = Idle]

\* A request arrives, or is repeated; another handler may still serve its key.
Begin(h, k, target) ==
    /\ At(h, "idle")
    /\ handler' = [handler EXCEPT ![h] = [Idle EXCEPT !.pc = "reserve",
                                               !.key = k, !.target = target]]
    /\ raced' = raced \cup {x \in {k} : \E g \in Handlers : handler[g].key = k}
    /\ UNCHANGED <<dbVars, drive, folders, connected, late, signVars, boundsVars>>

\* A client keeps the target of its request when it repeats it.
StartUpload(h, k, target) ==
    /\ k \notin External
    /\ target # NoKey => docs[target] # 0
    /\ ops[k].state # "absent" => target = ops[k].target
    /\ Begin(h, k, target)

\* Mutant: the target of a repeated request is inferred anew.
InferredTarget(k) ==
    IF bound # <<>> /\ (k \in Docx <=> DocOf(Last(bound)) \in Docx)
    THEN DocOf(Last(bound)) ELSE NoKey

\* The target is that of the reserved operation; for a new one it is the
\* document bound last, if the file has its type.
ExternalTarget(k) ==
    IF ops[k].state # "absent" THEN ops[k].target
    ELSE IF bound # <<>> /\ (k \in Docx <=> DocOf(Last(bound)) \in Docx)
         THEN DocOf(Last(bound))
         ELSE NoKey

StartExternal(h, k) ==
    /\ k \in External /\ signed = NoKey
    /\ Begin(h, k, ExternalTarget(k))

\* A document takes no new version while one is open or under a signature.
Refused(d) == d # NoKey /\ (OpenUpload(d) \/ HasSignatureEvidence(d))

GoRead(h) == handler' = [handler EXCEPT ![h].pc = "read", ![h].target = NoKey]

\* reserve_document_upload: repeated, refused or inserted.
ReserveUpload(h) ==
    LET k == handler[h].key  d == handler[h].target IN
    /\ At(h, "reserve")
    /\ \/ /\ ops[k].state # "absent" /\ ops[k].target = d
          /\ GoRead(h) /\ UNCHANGED ops
       \/ /\ IF ops[k].state # "absent" THEN ops[k].target # d ELSE Refused(d)
          /\ Finish(h) /\ UNCHANGED ops
       \/ /\ ops[k].state = "absent" /\ ~Refused(d)
          /\ ops' = [ops EXCEPT ![k] = [NoOp EXCEPT !.state = "reserved", !.target = d,
                                     !.baseline = IF d = NoKey THEN 0 ELSE docs[d]]]
          /\ GoRead(h)
    /\ UNCHANGED <<docs, version, drive, folders, connected, late, signVars,
                   raced, boundsVars>>

\* Where a request goes on after the state it read.
AfterRead(k) ==
    CASE ops[k].state = "completed" -> IF k \in External THEN "bind" ELSE "idle"
      [] ops[k].state = "uploaded"  -> "finalize"
      [] OTHER -> IF ops[k].target = NoKey THEN "folders" ELSE "recover"

\* The reservation and the connection are read; the handler follows this state
\* of the operation to the end, whatever another one does to it.
ReadReservation(h) ==
    LET k == handler[h].key IN
    /\ At(h, "read")
    /\ IF connected /\ AfterRead(k) # "idle"
       THEN Goto(h, AfterRead(k))
       ELSE Finish(h)
    /\ UNCHANGED <<dbVars, drive, folders, connected, late, signVars, raced,
                   boundsVars>>

\* Mutant: one segment too many.
EnsureFoldersPastEnd(h) ==
    /\ At(h, "folders")
    /\ IF handler[h].at > PathLength
       THEN Goto(h, IF ops[handler[h].key].path THEN "recover" ELSE "prepare")
       ELSE IF handler[h].at < folders
            THEN handler' = [handler EXCEPT ![h].at = @ + 1]
            ELSE Goto(h, "mkdir")
    /\ UNCHANGED <<dbVars, drive, folders, connected, late, signVars, raced,
                   boundsVars>>

\* One segment of the path: listed, or missing and to be created.
EnsureFolders(h) ==
    /\ At(h, "folders")
    /\ IF handler[h].at = PathLength
       THEN Goto(h, IF ops[handler[h].key].path THEN "recover" ELSE "prepare")
       ELSE IF handler[h].at < folders
            THEN handler' = [handler EXCEPT ![h].at = @ + 1]
            ELSE Goto(h, "mkdir")
    /\ UNCHANGED <<dbVars, drive, folders, connected, late, signVars, raced,
                   boundsVars>>

\* A folder that appeared meanwhile is a conflict, and then found by listing.
CreateFolder(h) ==
    /\ At(h, "mkdir")
    /\ folders' = IF handler[h].at < folders THEN folders ELSE folders + 1
    /\ handler' = [handler EXCEPT ![h].pc = "folders", ![h].at = @ + 1]
    /\ UNCHANGED <<dbVars, drive, connected, late, signVars, raced, boundsVars>>

\* prepare_document_upload_target; the reservation is read again.
PrepareTarget(h) ==
    LET k == handler[h].key IN
    /\ At(h, "prepare")
    /\ ops' = [ops EXCEPT ![k].path = TRUE]
    /\ handler' = [handler EXCEPT ![h].pc = "recover", ![h].at = 0]
    /\ UNCHANGED <<docs, version, drive, folders, connected, late, signVars,
                   raced, boundsVars>>

\* Mutant: an earlier attempt at a version is not looked for.
RecoverableNew(h) ==
    LET d == DocOf(handler[h].key) IN
    ~Versioning(handler[h].key) /\ drive[d] # <<>>

\* Mutant: any file of the document is taken for the result of an earlier attempt.
RecoverableExisting(h) == drive[DocOf(handler[h].key)] # <<>>

\* A file of the document that an earlier attempt has left: for a new document
\* any file of its name, for a version any change since the reservation.
Recoverable(h) ==
    LET d == DocOf(handler[h].key) IN
    IF Versioning(handler[h].key) THEN Newest(d) # ops[handler[h].key].baseline
                                  ELSE drive[d] # <<>>

\* The file is there with this ETag; the rest of the snapshot is used no more.
Written(h, etag) ==
    handler' = [handler EXCEPT ![h] = [Idle EXCEPT !.pc = "versions", !.etag = etag,
                                               !.key = handler[h].key]]

RecoverUploaded(h) ==
    LET d == DocOf(handler[h].key) IN
    /\ At(h, "recover")
    /\ \/ /\ Recoverable(h)
          /\ Written(h, Newest(d))
       \/ /\ ~Recoverable(h) /\ handler[h].tries < 2 /\ ~handler[h].fatal
          /\ Goto(h, "put")
       \/ /\ ~Recoverable(h) /\ (handler[h].tries = 2 \/ handler[h].fatal)
          /\ Finish(h)
    /\ UNCHANGED <<dbVars, drive, folders, connected, late, signVars, raced,
                   boundsVars>>

UploadFile(h) ==
    LET k == handler[h].key  d == DocOf(k) IN
    /\ At(h, "put")
    /\ drive' = [drive EXCEPT ![d] = Append(@, k)]
    /\ Written(h, Newest(d) + 1)
    /\ UNCHANGED <<dbVars, folders, connected, late, signVars, raced, boundsVars>>

\* The write fails: refused, or applied with its answer lost, or applied later.
UploadFails(h) ==
    LET k == handler[h].key  d == DocOf(k) IN
    /\ At(h, "put") /\ faults < MaxFaults
    /\ \E fatal \in BOOLEAN :
          /\ handler' = [handler EXCEPT ![h].pc = "recover", ![h].tries = @ + 1,
                                        ![h].fatal = fatal]
          /\ \/ UNCHANGED <<drive, late, raced>>
             \/ /\ ~fatal /\ drive' = [drive EXCEPT ![d] = Append(@, k)]
                /\ UNCHANGED <<late, raced>>
             \/ /\ ~fatal /\ late' = late \cup {k} /\ raced' = raced \cup {k}
                /\ UNCHANGED drive
    /\ faults' = faults + 1
    /\ UNCHANGED <<dbVars, folders, connected, signVars, edits>>

\* The newest native version is taken for the written one; without an answer
\* the upload goes on without a version.
ExternalVersionId(h) ==
    LET d == DocOf(handler[h].key) IN
    /\ At(h, "versions")
    /\ \/ /\ handler' = [handler EXCEPT ![h].pc = "download", ![h].ext = Newest(d)]
          /\ UNCHANGED faults
       \/ /\ faults < MaxFaults /\ faults' = faults + 1
          /\ handler' = [handler EXCEPT ![h].pc = "content", ![h].ext = 0]
    /\ UNCHANGED <<dbVars, drive, folders, connected, late, signVars, raced, edits>>

\* A historical version is read by its id; the current one by its content.
DownloadVersion(h) ==
    LET d == DocOf(handler[h].key)  ext == handler[h].ext IN
    /\ At(h, "download")
    /\ handler' = IF ext = Newest(d)
                  THEN [handler EXCEPT ![h].pc = "content"]
                  ELSE [handler EXCEPT ![h].pc = "record", ![h].hash = drive[d][ext]]
    /\ UNCHANGED <<dbVars, drive, folders, connected, late, signVars, raced,
                   boundsVars>>

DownloadContent(h) ==
    /\ At(h, "content")
    /\ handler' = [handler EXCEPT ![h].pc = "record",
                                  ![h].hash = Last(drive[DocOf(handler[h].key)])]
    /\ UNCHANGED <<dbVars, drive, folders, connected, late, signVars, raced,
                   boundsVars>>

\* record_document_graph_upload: whatever the state was, unless the document
\* that gets a version is signed.
RecordGraphUpload(h) ==
    LET k == handler[h].key IN
    /\ At(h, "record")
    /\ IF Versioning(k) /\ HasSignatureEvidence(DocOf(k))
       THEN Finish(h) /\ UNCHANGED ops
       ELSE /\ ops' = [ops EXCEPT ![k] = [@ EXCEPT !.state = "uploaded",
                                               !.etag = handler[h].etag,
                                               !.ext = handler[h].ext,
                                               !.hash = handler[h].hash]]
            /\ Goto(h, "finalize")
    /\ UNCHANGED <<docs, version, drive, folders, connected, late, signVars,
                   raced, boundsVars>>

\* finalize_document_upload refuses the row: the version or the document exists,
\* the native version belongs to another one, or the document is signed.
FinalizeRefused(k) ==
    \/ Stored(k)
    \/ /\ ops[k].ext # 0
       /\ \E x \in Keys : Stored(x) /\ DocOf(x) = DocOf(k) /\ version[x].ext = ops[k].ext
    \/ Versioning(k) /\ HasSignatureEvidence(DocOf(k))

FinalizeUpload(h) ==
    LET k == handler[h].key
        done == IF k \in External THEN Goto(h, "bind") ELSE Finish(h) IN
    /\ At(h, "finalize")
    /\ CASE ops[k].state = "completed" -> done /\ UNCHANGED dbVars
         [] ops[k].state # "completed" /\ FinalizeRefused(k) ->
               Finish(h) /\ UNCHANGED dbVars
         [] OTHER ->
               /\ docs' = [docs EXCEPT ![DocOf(k)] = ops[k].etag]
               /\ version' = [version EXCEPT ![k] = [ext  |-> ops[k].ext,
                                                     hash |-> ops[k].hash]]
               /\ ops' = [ops EXCEPT ![k].state = "completed"]
               /\ done
    /\ UNCHANGED <<drive, folders, connected, late, signVars, raced, boundsVars>>

\* bind_external_contract_document
BindDocument(h) ==
    LET k == handler[h].key IN
    /\ At(h, "bind")
    /\ bound' = IF signed = NoKey /\ ReadyDocument(k) /\ k \notin Range(bound)
                THEN Append(bound, k) ELSE bound
    /\ Finish(h)
    /\ UNCHANGED <<dbVars, drive, folders, connected, late, signer, signed,
                   raced, boundsVars>>

\* A crash, a lost connection or a failing read ends the request.
Abort(h) ==
    /\ ~At(h, "idle") /\ faults < MaxFaults
    /\ faults' = faults + 1
    /\ Finish(h)
    /\ UNCHANGED <<dbVars, drive, folders, connected, late, signVars, raced, edits>>

-----------------------------------------------------------------------------
(* The signature: signableFile, then the signing command                   *)

handlerVars == <<drive, folders, connected, handler, late, raced>>

\* Mutant: the bytes are read but not compared.
Readable(k, content) == content \in Contents

\* The bytes read are those whose hash the version holds.
Exact(k, content) == content = version[k].hash

\* evidence and the first read of readExact: like the download of an upload, by
\* the version's id, or in a second read by the content of the current version.
ReadEvidence(k) ==
    LET d == DocOf(k)  ext == version[k].ext IN
    /\ signer.pc = "idle" /\ signed = NoKey
    /\ k \in Range(bound) /\ ReadyDocument(k) /\ connected
    /\ \/ /\ ext = Newest(d)
          /\ signer' = [pc |-> "content", key |-> k]
       \/ /\ ext # Newest(d) /\ Exact(k, drive[d][ext])
          /\ signer' = [pc |-> "verified", key |-> k]
    /\ UNCHANGED <<dbVars, handlerVars, bound, signed, boundsVars>>

ReadExactContent ==
    /\ signer.pc = "content"
    /\ signer' = IF Exact(signer.key, Last(drive[DocOf(signer.key)]))
                 THEN [signer EXCEPT !.pc = "verified"] ELSE NotSigning
    /\ UNCHANGED <<dbVars, handlerVars, bound, signed, boundsVars>>

\* The command checks the version again, but not the file.
Sign ==
    /\ signer.pc = "verified"
    /\ signed' = IF signer.key = Last(bound) /\ ReadyDocument(signer.key)
                 THEN signer.key ELSE signed
    /\ signer' = NotSigning
    /\ UNCHANGED <<dbVars, handlerVars, bound, boundsVars>>

-----------------------------------------------------------------------------
(* SharePoint and its administration                                       *)

\* Somebody saves the file in SharePoint.
EditInSharePoint(d) ==
    /\ drive[d] # <<>> /\ edits < MaxEdits
    /\ drive' = [drive EXCEPT ![d] = Append(@, Foreign)]
    /\ edits' = edits + 1
    /\ UNCHANGED <<dbVars, folders, connected, handler, late, signVars, raced, faults>>

LateWrite(k) ==
    /\ k \in late
    /\ late' = late \ {k}
    /\ drive' = [drive EXCEPT ![DocOf(k)] = Append(@, k)]
    /\ UNCHANGED <<dbVars, folders, connected, handler, signVars, raced, boundsVars>>

\* SharePointConnectionService.validate records its result.
ValidateConnection(ok) ==
    /\ ok # connected
    /\ ok \/ faults < MaxFaults
    /\ faults' = IF ok THEN faults ELSE faults + 1
    /\ connected' = ok
    /\ UNCHANGED <<dbVars, drive, folders, handler, late, signVars, raced, edits>>

-----------------------------------------------------------------------------

HandlerStep(h) ==
    \/ ReserveUpload(h) \/ ReadReservation(h) \/ EnsureFolders(h) \/ CreateFolder(h)
    \/ PrepareTarget(h) \/ RecoverUploaded(h) \/ UploadFile(h)
    \/ ExternalVersionId(h) \/ DownloadVersion(h) \/ DownloadContent(h)
    \/ RecordGraphUpload(h) \/ FinalizeUpload(h) \/ BindDocument(h)

Start(h, k) ==
    \/ \E target \in Keys \cup {NoKey} : StartUpload(h, k, target)
    \/ StartExternal(h, k)

Next ==
    \/ \E h \in Handlers : \/ HandlerStep(h) \/ UploadFails(h) \/ Abort(h)
                           \/ \E k \in Keys : Start(h, k)
    \/ \E k \in Keys : ReadEvidence(k) \/ EditInSharePoint(k) \/ LateWrite(k)
    \/ ReadExactContent \/ Sign
    \/ \E ok \in BOOLEAN : ValidateConnection(ok)

Spec == Init /\ [][Next]_uploadVars

\* A request that runs goes on, a client repeats a request that was reserved,
\* and an administrator repairs the connection.
Retry(k) == /\ ops[k].state # "absent" /\ \A g \in Handlers : handler[g].key # k
            /\ \E h \in Handlers : Start(h, k)

FairSpec ==
    /\ Spec
    /\ \A h \in Handlers : WF_uploadVars(HandlerStep(h))
    /\ \A k \in Keys : SF_uploadVars(Retry(k))
    /\ WF_uploadVars(ValidateConnection(TRUE))
    /\ \A k \in Keys : WF_uploadVars(LateWrite(k))

-----------------------------------------------------------------------------
(* Properties                                                              *)

\* The rows, the files and the running requests keep their shape.
TypeOK ==
    /\ ops \in [Keys -> [state : {"absent", "reserved", "uploaded", "completed"},
                         target : Keys \cup {NoKey}, path : BOOLEAN,
                         baseline : Nat, etag : Nat, ext : Nat,
                         hash : Contents \cup {NoKey}]]
    /\ docs \in [Keys -> Nat]
    /\ version \in [Keys -> [ext : Nat, hash : Contents \cup {NoKey}]]
    /\ drive \in [Keys -> Seq(Contents)]
    /\ folders \in 0 .. PathLength /\ connected \in BOOLEAN
    /\ handler \in [Handlers ->
          [pc : {"idle", "reserve", "read", "folders", "mkdir", "prepare", "recover",
                 "put", "versions", "download", "content", "record", "finalize", "bind"},
           key : Keys \cup {NoKey}, target : Keys \cup {NoKey},
           at : 0 .. PathLength, tries : 0 .. 2, fatal : BOOLEAN, etag : Nat, ext : Nat, hash : Contents \cup {NoKey}]]
    /\ late \subseteq Keys /\ raced \subseteq Keys
    /\ bound \in Seq(Keys)
    /\ signer \in [pc : {"idle", "content", "verified"}, key : Keys \cup {NoKey}]
    /\ signed \in Keys \cup {NoKey}
    /\ faults \in 0 .. MaxFaults /\ edits \in 0 .. MaxEdits

\* Nobody else wrote to the file, and no upload wrote to it twice.
Clean(d) == IsInjective(drive[d]) /\ Foreign \notin Range(drive[d])

\* As long as a file is written by its uploads only, each document version
\* points at the native version with the bytes of its own request, and holds
\* their hash, whatever failed, was repeated or ran at the same time.
VersionHoldsOwnBytes ==
    \A k \in Keys : LET d == DocOf(k) IN
        Stored(k) /\ Clean(d) =>
            /\ version[k].hash = k
            /\ version[k].ext # 0 => drive[d][version[k].ext] = k

\* A request that is repeated after any failure, but not while its first attempt
\* still runs, is written to SharePoint once.
SoloUploadsOnce ==
    \A k \in Keys \ raced :
        Cardinality({i \in DOMAIN drive[DocOf(k)] : drive[DocOf(k)][i] = k}) <= 1

\* The file under a signature can be shown with the hash recorded for it, also
\* when people edit it in SharePoint while it is uploaded, verified and signed.
SignedFileIsEvidence ==
    signed # NoKey =>
        LET v == version[signed] IN
        /\ v.ext \in DOMAIN drive[DocOf(signed)]
        /\ drive[DocOf(signed)][v.ext] = v.hash

\* No new version of a signed document is on its way: it could not be finished.
SignedDocumentSettled ==
    signed # NoKey =>
        \A k \in Keys : Versioning(k) /\ DocOf(k) = DocOf(signed)
                         => ops[k].state = "completed"

\* Writes that the database does not know of, or a version without native id.
Disturbed == \/ raced # {}
             \/ \E k \in Keys : ~Clean(k) \/ (Stored(k) /\ version[k].ext = 0)

\* An upload that was reserved is stored in the end, and a final document is bound
\* to its contract, if the client repeats its request.
EveryUploadEnds ==
    \A k \in Keys :
        ops[k].state = "reserved" ~>
            \/ Stored(k) /\ (k \in External => k \in Range(bound))
            \/ k \in External /\ signed # NoKey
            \/ Disturbed

\* document-evidence-service.ts:83, of a document that was verified: "Historical
\* download stays available; only a new signature is gated."
Downloadable(k) == k # NoKey /\ ReadyDocument(k)
DocHistoricalDownload ==
    [][signed # NoKey /\ Downloadable(signed) => Downloadable(signed)']_uploadVars
=============================================================================
