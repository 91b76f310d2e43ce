---------------------------- MODULE MediaUpload ----------------------------
(***************************************************************************)
(* Upload of the cover of a project or the floor plan of a unit.           *)
(*                                                                         *)
(* The browser asks the BFF for a session, sends the file in parts and     *)
(* asks the BFF to finish.  The BFF keeps the session and the parts in the *)
(* object store, puts the whole file beside them, has the backend register *)
(* it as the current picture and clears up; what it stored is deleted when *)
(* the backend does not accept it.  Any call may fail or lose its answer,  *)
(* a request of the BFF may die, the browser may be closed, and other      *)
(* users replace the same picture.                                         *)
(*                                                                         *)
(* One picture of one unit; the form upload without parts and the preview  *)
(* mode without a backend are left out.                                    *)
(***************************************************************************)
EXTENDS Integers, FiniteSets, FiniteSetsExt

CONSTANTS
    Uploads,      \* choices of a file for the one picture, by any user
    Size,         \* of each file
    ChunkSize,    \* of the parts it is sent in
    MaxMishaps    \* bound: lost answers, refusals, failures, closed browsers

ASSUME MediaUploadAssumption ==
    /\ Size \in Nat \ {0} /\ ChunkSize \in Nat \ {0}
    /\ MaxMishaps \in Nat

VARIABLES
    client,    \* what the browser is doing for each upload
    next,      \* the part it sends next
    put,       \* a request that stores a part
    finish,    \* a request that finishes the upload
    call,      \* its call of the backend
    session,   \* manifests in the object store
    chunks,    \* parts in the object store
    object,    \* whole files in the object store
    asset,     \* media_assets of the picture, by the upload of their file
    mishaps    \* what went wrong, by upload

browserVars == <<client, next>>
requestVars == <<put, finish, call>>
sessionVars == <<session, chunks>>
mediaVars == <<browserVars, requestVars, sessionVars, object, asset, mishaps>>

Mishaps == {"registration", \* the BFF never got the answer of the backend
            "answer",       \* the browser never got the answer of the BFF
            "crash",        \* the request that finishes the upload died
            "refusal",      \* a call failed and said so
            "expiry",       \* the session is older than its 30 minutes
            "cleanup"}      \* something was left for nobody to clear

Init ==
    /\ client = [u \in Uploads |-> "chosen"] /\ next = [u \in Uploads |-> 0]
    /\ put = [u \in Uploads |-> FALSE]
    /\ finish = [u \in Uploads |-> "idle"] /\ call = [u \in Uploads |-> "none"]
    /\ session = [u \in Uploads |-> FALSE] /\ chunks = [u \in Uploads |-> {}]
    /\ object = [u \in Uploads |-> FALSE]
    /\ asset = [u \in Uploads |-> "none"]
    /\ mishaps = [u \in Uploads |-> {}]

-----------------------------------------------------------------------------
(* Parts and sessions                                                      *)

ChunkCount == (Size + ChunkSize - 1) \div ChunkSize

ChunkLength(i) == Min({Size, (i + 1) * ChunkSize}) - i * ChunkSize

\* Every part is there and together they have the announced size.
Complete(u) ==
    /\ 0 .. ChunkCount - 1 \subseteq chunks[u]
    /\ MapThenSumSet(ChunkLength, chunks[u]) = Size

\* The session can be read and its time is not over.
Usable(u) == session[u] /\ "expiry" \notin mishaps[u]

MishapsSoFar == MapThenSumSet(LAMBDA u : Cardinality(mishaps[u]), Uploads)

Mishap(u, kind) ==
    /\ MishapsSoFar < MaxMishaps
    /\ mishaps' = [mishaps EXCEPT ![u] = @ \cup {kind}]

Fine == UNCHANGED mishaps

\* One call deletes the manifest and all parts of the session.
ClearSession(u) ==
    /\ session' = [session EXCEPT ![u] = FALSE]
    /\ chunks' = [chunks EXCEPT ![u] = {}]

\* Where an error sends a browser that has a session.
AfterErrorNothing == "failed"
AfterError == "cancelling"

BrowserGoes(u, pc) == client' = [client EXCEPT ![u] = pc] /\ UNCHANGED next

\* The answer of a request reaches a browser that still waits for it.
Answer(u, waiting, pc) ==
    BrowserGoes(u, IF client[u] = waiting THEN pc ELSE client[u])

-----------------------------------------------------------------------------
(* The browser asks for a session and sends the parts                      *)

Start(u) ==
    /\ client[u] = "chosen"
    /\ UNCHANGED <<requestVars, chunks, object, asset>>
    /\ \/ BrowserGoes(u, "sending") /\ session' = [session EXCEPT ![u] = TRUE] /\ Fine
       \/ BrowserGoes(u, "failed") /\ UNCHANGED session /\ Mishap(u, "refusal")
       \* the browser does not learn the name of the session
       \/ BrowserGoes(u, "failed") /\ session' = [session EXCEPT ![u] = TRUE]
          /\ Mishap(u, "cleanup")

\* The next request of the browser meets no session, or one that is too old.
SessionRefused(u) ==
    /\ client[u] = "sending" /\ ~put[u] /\ ~Usable(u)
    /\ BrowserGoes(u, AfterError)
    /\ UNCHANGED <<requestVars, object, asset>>
    /\ \/ ClearSession(u) /\ Fine
       \/ UNCHANGED sessionVars /\ Mishap(u, "cleanup")

SendPart(u) ==
    /\ client[u] = "sending" /\ next[u] < ChunkCount /\ ~put[u] /\ Usable(u)
    /\ put' = [put EXCEPT ![u] = TRUE]
    /\ UNCHANGED <<browserVars, finish, call, sessionVars, object, asset, mishaps>>

\* The part is stored, for a browser that gave up as well.
StorePart(u) ==
    /\ put[u] /\ put' = [put EXCEPT ![u] = FALSE]
    /\ chunks' = [chunks EXCEPT ![u] = @ \cup {next[u]}]
    /\ next' = IF client[u] = "sending" THEN [next EXCEPT ![u] = @ + 1] ELSE next
    /\ UNCHANGED <<client, finish, call, session, object, asset, mishaps>>

PartRefused(u) ==
    /\ put[u] /\ put' = [put EXCEPT ![u] = FALSE]
    /\ Answer(u, "sending", AfterError)
    /\ Mishap(u, "refusal")
    /\ UNCHANGED <<finish, call, sessionVars, object, asset>>

\* The part may be stored after the browser has cancelled the upload.
PartAnswerLost(u) ==
    /\ put[u] /\ client[u] = "sending"
    /\ BrowserGoes(u, AfterError)
    /\ Mishap(u, "cleanup")
    /\ UNCHANGED <<requestVars, sessionVars, object, asset>>

-----------------------------------------------------------------------------
(* The BFF finishes the upload                                             *)

Finish(u) ==
    /\ client[u] = "sending" /\ next[u] = ChunkCount /\ ~put[u] /\ Usable(u)
    /\ BrowserGoes(u, "finishing")
    /\ finish' = [finish EXCEPT ![u] = "reading"]
    /\ UNCHANGED <<put, call, sessionVars, object, asset, mishaps>>

StoreObject(u) ==
    /\ finish[u] = "reading" /\ Complete(u)
    /\ object' = [object EXCEPT ![u] = TRUE]
    /\ finish' = [finish EXCEPT ![u] = "stored"]
    /\ UNCHANGED <<browserVars, put, call, sessionVars, asset, mishaps>>

\* A part is missing, or the object store fails, perhaps after it has kept the
\* file; nothing is deleted.
StoreRefused(u) ==
    /\ finish[u] = "reading" /\ finish' = [finish EXCEPT ![u] = "idle"]
    /\ Answer(u, "finishing", AfterError)
    /\ \/ ~Complete(u) /\ UNCHANGED object /\ Fine
       \/ UNCHANGED object /\ Mishap(u, "refusal")
       \/ Complete(u) /\ object' = [object EXCEPT ![u] = TRUE] /\ Mishap(u, "cleanup")
    /\ UNCHANGED <<put, call, sessionVars, asset>>

CallBackend(u) ==
    /\ finish[u] = "stored" /\ finish' = [finish EXCEPT ![u] = "registering"]
    /\ call' = [call EXCEPT ![u] = "sent"]
    /\ UNCHANGED <<browserVars, put, sessionVars, object, asset, mishaps>>

\* One transaction of the backend, under the lock of the unit.
Register(u) ==
    /\ call[u] = "sent" /\ call' = [call EXCEPT ![u] = "done"]
    /\ asset' = [v \in Uploads |-> IF v = u THEN "active"
                                   ELSE IF asset[v] = "active" THEN "replaced" ELSE asset[v]]
    /\ UNCHANGED <<browserVars, put, finish, sessionVars, object, mishaps>>

\* The unit was archived, the permission withdrawn or the token expired since the
\* session was read.  (The browser repeats a request once with a new token when
\* the answer is 401; by then Undo has cleared the session, so it fails as well.)
RefuseRegistration(u) ==
    /\ call[u] = "sent" /\ call' = [call EXCEPT ![u] = "refused"]
    /\ Mishap(u, "refusal")
    /\ UNCHANGED <<browserVars, put, finish, sessionVars, object, asset>>

\* A session that cannot be cleared does not make the upload fail.
ConfirmOrFail(u) ==
    /\ finish[u] = "registering" /\ call[u] = "done"
    /\ finish' = [finish EXCEPT ![u] = "idle"]
    /\ \/ ClearSession(u) /\ Fine /\ Answer(u, "finishing", "loading")
       \/ UNCHANGED sessionVars /\ Mishap(u, "cleanup") /\ Answer(u, "finishing", AfterError)
    /\ UNCHANGED <<put, call, object, asset>>

Confirm(u) ==
    /\ finish[u] = "registering" /\ call[u] = "done"
    /\ finish' = [finish EXCEPT ![u] = "idle"]
    /\ Answer(u, "finishing", "loading")
    /\ \/ ClearSession(u) /\ Fine
       \/ UNCHANGED sessionVars /\ Mishap(u, "cleanup")
    /\ UNCHANGED <<put, call, object, asset>>

Rejected(u) ==
    /\ finish[u] = "registering" /\ call[u] = "refused"
    /\ finish' = [finish EXCEPT ![u] = "undoing"]
    /\ UNCHANGED <<browserVars, put, call, sessionVars, object, asset, mishaps>>

\* The connection breaks; the backend may have registered the picture, or may
\* still do so.
CallLost(u) ==
    /\ finish[u] = "registering"
    /\ finish' = [finish EXCEPT ![u] = "undoing"]
    /\ Mishap(u, "registration")
    /\ UNCHANGED <<browserVars, put, call, sessionVars, object, asset>>

Undo(u) ==
    /\ finish[u] = "undoing" /\ finish' = [finish EXCEPT ![u] = "idle"]
    /\ Answer(u, "finishing", AfterError)
    /\ \/ object' = [object EXCEPT ![u] = FALSE] /\ ClearSession(u) /\ Fine
       \/ /\ object' \in {object, [object EXCEPT ![u] = FALSE]}
          /\ UNCHANGED sessionVars \/ ClearSession(u)
          /\ Mishap(u, "cleanup")
    /\ UNCHANGED <<put, call, asset>>

FinishDies(u) ==
    /\ finish[u] # "idle" /\ finish' = [finish EXCEPT ![u] = "idle"]
    /\ Answer(u, "finishing", AfterError)
    /\ Mishap(u, "crash")
    /\ UNCHANGED <<put, call, sessionVars, object, asset>>

FinishAnswerLost(u) ==
    /\ client[u] = "finishing" /\ BrowserGoes(u, AfterError)
    /\ Mishap(u, "answer")
    /\ UNCHANGED <<requestVars, sessionVars, object, asset>>

-----------------------------------------------------------------------------
(* The browser shows the picture, or cancels the upload                    *)

\* A file is handed out for the current picture only.
Current(u) == asset[u] = "active"
Shown(u) == Current(u) /\ object[u]

Load(u) ==
    /\ client[u] = "loading"
    /\ \/ BrowserGoes(u, IF Shown(u) THEN "done" ELSE "failed") /\ Fine
       \/ BrowserGoes(u, "failed") /\ Mishap(u, "answer")
    /\ UNCHANGED <<requestVars, sessionVars, object, asset>>

CancelWithFile(u) ==
    /\ client[u] = "cancelling" /\ BrowserGoes(u, "failed")
    /\ \/ ClearSession(u) /\ object' = [object EXCEPT ![u] = FALSE] /\ Fine
       \/ UNCHANGED <<sessionVars, object>> /\ Mishap(u, "cleanup")
    /\ UNCHANGED <<requestVars, asset>>

\* The file of the upload is left alone: it may be registered by now.
Cancel(u) ==
    /\ client[u] = "cancelling" /\ BrowserGoes(u, "failed")
    /\ \/ ClearSession(u) /\ Fine
       \/ UNCHANGED sessionVars /\ Mishap(u, "cleanup")
    /\ UNCHANGED <<requestVars, object, asset>>

CloseBrowser(u) ==
    /\ client[u] \in {"sending", "finishing", "loading", "cancelling"}
    /\ BrowserGoes(u, "closed")
    /\ Mishap(u, "cleanup")
    /\ UNCHANGED <<requestVars, sessionVars, object, asset>>

Expire(u) ==
    /\ session[u] /\ Usable(u) /\ Mishap(u, "expiry")
    /\ UNCHANGED <<browserVars, requestVars, sessionVars, object, asset>>

BrowserStep(u) ==
    Start(u) \/ SessionRefused(u) \/ SendPart(u) \/ Finish(u) \/ Load(u) \/ Cancel(u)

RequestStep(u) ==
    \/ StorePart(u) \/ StoreObject(u) \/ StoreRefused(u) \/ CallBackend(u)
    \/ Register(u) \/ Confirm(u) \/ Rejected(u) \/ Undo(u)

Trouble(u) ==
    \/ PartRefused(u) \/ PartAnswerLost(u) \/ RefuseRegistration(u) \/ CallLost(u)
    \/ FinishDies(u) \/ FinishAnswerLost(u) \/ CloseBrowser(u) \/ Expire(u)

Next == \E u \in Uploads : BrowserStep(u) \/ RequestStep(u) \/ Trouble(u)

Spec == Init /\ [][Next]_mediaVars

\* A browser that stays open goes on, a request that does not die goes on, and
\* the backend runs what it was sent.
FairSpec == Spec /\ \A u \in Uploads : WF_mediaVars(BrowserStep(u)) /\ WF_mediaVars(RequestStep(u))

-----------------------------------------------------------------------------
(* Properties                                                              *)

\* The state of every upload, request, session and picture has its shape, and
\* the unit has one current picture.
TypeOK ==
    /\ client \in [Uploads -> {"chosen", "sending", "finishing", "loading", "cancelling",
                               "done", "failed", "closed"}]
    /\ next \in [Uploads -> Nat]
    /\ put \in [Uploads -> BOOLEAN]
    /\ finish \in [Uploads -> {"idle", "reading", "stored", "registering", "undoing"}]
    /\ call \in [Uploads -> {"none", "sent", "done", "refused"}]
    /\ session \in [Uploads -> BOOLEAN]
    /\ chunks \in [Uploads -> SUBSET Nat]
    /\ object \in [Uploads -> BOOLEAN]
    /\ asset \in [Uploads -> {"none", "active", "replaced"}]
    /\ mishaps \in [Uploads -> SUBSET Mishaps]
    /\ \A u, v \in Uploads : asset[u] = "active" /\ asset[v] = "active" => u = v

\* A registered picture, current or replaced, has its file, whoever cancels,
\* retries or cleans up meanwhile; only a registration whose answer was lost may
\* lose it (route.ts deletes the file although the backend may have accepted it).
PictureHasFile ==
    \A u \in Uploads :
        asset[u] # "none" /\ "registration" \notin mishaps[u] => object[u]

\* What the user is told is true: a picture reported as saved was registered and
\* its file is kept; one reported as failed is not shown to anybody, unless an
\* answer was lost or the request died on the way (route.ts, media-repository.ts).
AnswerIsTrue ==
    \A u \in Uploads :
        /\ client[u] = "done" => asset[u] # "none" /\ object[u]
        /\ client[u] = "failed" /\ asset[u] = "active" =>
             mishaps[u] \cap {"registration", "answer", "crash"} # {}

\* Every upload ends without remains: its session and parts are gone, a file
\* without a row in media_assets is deleted, and if the user was told of a failure
\* something did fail or somebody else's picture came later; unless the request
\* died, or the one call that clears was itself lost (route.ts, PATCH and DELETE).
UploadSettles ==
    \A u \in Uploads :
        session[u] ~> \/ mishaps[u] \cap {"crash", "cleanup"} # {}
                      \/ /\ client[u] \in {"done", "failed"}
                         /\ ~session[u] /\ chunks[u] = {}
                         /\ object[u] => asset[u] # "none"
                         /\ client[u] = "done" \/ mishaps[u] # {} \/ asset[u] = "replaced"

=============================================================================
