------------------------- MODULE MediaUploadProofs -------------------------
(* Proofs about MediaUpload, for any number of uploads and mishaps.          *)
EXTENDS MediaUpload, TLAPS

ClientStates == {"chosen", "sending", "finishing", "loading", "cancelling",
                 "done", "failed", "closed"}

\* The shape of the state.
Shape ==
    /\ client \in [Uploads -> ClientStates]
    /\ next \in [Uploads -> Nat]
    /\ put \in [Uploads -> BOOLEAN]
    /\ finish \in [Uploads -> {"idle", "reading", "stored", "registering", "undoing"}]
    /\ call \in [Uploads -> {"none", "sent", "done", "refused"}]
    /\ session \in [Uploads -> BOOLEAN]
    /\ chunks \in [Uploads -> SUBSET Nat]
    /\ object \in [Uploads -> BOOLEAN]
    /\ asset \in [Uploads -> {"none", "active", "replaced"}]
    /\ mishaps \in [Uploads -> SUBSET Mishaps]

OneCurrent ==
    \A u, v \in Uploads : asset[u] = "active" /\ asset[v] = "active" => u = v

\* The request that finishes an upload, its call of the backend and the file.
RequestInOrder(u) ==
    /\ finish[u] \in {"reading", "stored"} => call[u] = "none"
    /\ finish[u] = "registering" => call[u] # "none"
    /\ finish[u] = "undoing" => call[u] = "refused" \/ "registration" \in mishaps[u]
    /\ finish[u] \in {"stored", "registering"} => object[u]
    /\ client[u] \in {"chosen", "sending"} => finish[u] = "idle" /\ call[u] = "none"
    /\ client[u] = "finishing" => finish[u] # "idle"

\* A file the backend knows, or is about to know, stays unless an answer was lost.
RegisteredFile(u) ==
    /\ asset[u] # "none" <=> call[u] = "done"
    /\ call[u] \in {"sent", "done"} /\ "registration" \notin mishaps[u] => object[u]

\* What the browser has been told, and what it will be told.
Told(u) ==
    /\ client[u] \in {"loading", "done"} =>
         finish[u] = "idle" /\ asset[u] # "none" /\ object[u]
    /\ client[u] \in {"cancelling", "failed"} /\ asset[u] = "active" =>
         mishaps[u] \cap {"registration", "answer", "crash"} # {}
    /\ client[u] \in {"cancelling", "failed"} /\ (call[u] = "sent" \/ finish[u] # "idle") =>
         mishaps[u] \cap {"registration", "answer", "crash"} # {}

Inv ==
    /\ Shape /\ OneCurrent
    /\ \A u \in Uploads : RequestInOrder(u) /\ RegisteredFile(u) /\ Told(u)

-----------------------------------------------------------------------------
(* Every step preserves the invariant                                        *)

\* What went wrong is remembered.
LEMMA Growing ==
    ASSUME mishaps \in [Uploads -> SUBSET Mishaps], NEW u \in Uploads, NEW k \in Mishaps,
           Fine \/ Mishap(u, k)
    PROVE  /\ mishaps' \in [Uploads -> SUBSET Mishaps]
           /\ \A v \in Uploads : mishaps[v] \subseteq mishaps'[v]
  BY DEF Fine, Mishap

\* A step of one upload changes nothing else than its own row, the pictures it
\* replaces, and what went wrong with it.
LEMMA InvStep ==
    ASSUME Inv, NEW u \in Uploads, BrowserStep(u) \/ RequestStep(u) \/ Trouble(u)
    PROVE  Inv'
<1> USE DEF ClientStates, browserVars, requestVars, sessionVars, BrowserGoes, AfterError
<1>s. Shape /\ OneCurrent /\ \A v \in Uploads : RequestInOrder(v) /\ RegisteredFile(v) /\ Told(v)
  BY DEF Inv
<1>1. CASE Start(u)
  <2>1. Fine \/ Mishap(u, "refusal") \/ Mishap(u, "cleanup")
    BY <1>1 DEF Start
  <2>2. /\ mishaps' \in [Uploads -> SUBSET Mishaps]
        /\ \A v \in Uploads : mishaps[v] \subseteq mishaps'[v]
    BY <1>s, <2>1, Growing DEF Shape, Mishaps
  <2>3. Shape' /\ OneCurrent'
    BY <1>1, <1>s, <2>2 DEF Start, Shape, OneCurrent
  <2>4. ASSUME NEW v \in Uploads
        PROVE  RequestInOrder(v)' /\ RegisteredFile(v)'
    BY <1>1, <1>s, <2>2 DEF Start, Shape, RequestInOrder, RegisteredFile
  <2>5. ASSUME NEW v \in Uploads
        PROVE  Told(v)'
    BY <1>1, <1>s, <2>2 DEF Start, Shape, RequestInOrder, RegisteredFile, Told
  <2>6. QED BY <2>3, <2>4, <2>5 DEF Inv
<1>2. CASE SessionRefused(u)
  <2>1. Fine \/ Mishap(u, "cleanup")
    BY <1>2 DEF SessionRefused
  <2>2. /\ mishaps' \in [Uploads -> SUBSET Mishaps]
        /\ \A v \in Uploads : mishaps[v] \subseteq mishaps'[v]
    BY <1>s, <2>1, Growing DEF Shape, Mishaps
  <2>3. Shape' /\ OneCurrent'
    BY <1>2, <1>s, <2>2 DEF SessionRefused, ClearSession, Shape, OneCurrent
  <2>4. ASSUME NEW v \in Uploads
        PROVE  RequestInOrder(v)' /\ RegisteredFile(v)'
    BY <1>2, <1>s, <2>2 DEF SessionRefused, ClearSession, Shape, RequestInOrder, RegisteredFile
  <2>5. ASSUME NEW v \in Uploads
        PROVE  Told(v)'
    BY <1>2, <1>s, <2>2 DEF SessionRefused, ClearSession, Shape, RequestInOrder, RegisteredFile, Told
  <2>6. QED BY <2>3, <2>4, <2>5 DEF Inv
<1>3. CASE SendPart(u)
  BY <1>3, <1>s, SMTT(30) DEF SendPart, Inv, Shape, OneCurrent, RequestInOrder, RegisteredFile,
     Told, Mishap, Fine, Mishaps
<1>4. CASE StorePart(u)
  BY <1>4, <1>s, SMTT(30) DEF StorePart, Inv, Shape, OneCurrent, RequestInOrder, RegisteredFile,
     Told, Mishap, Fine, Mishaps
<1>5. CASE PartRefused(u)
  BY <1>5, <1>s, SMTT(30) DEF PartRefused, Answer, Inv, Shape, OneCurrent, RequestInOrder, RegisteredFile,
     Told, Mishap, Fine, Mishaps
<1>6. CASE PartAnswerLost(u)
  BY <1>6, <1>s, SMTT(30) DEF PartAnswerLost, Inv, Shape, OneCurrent, RequestInOrder, RegisteredFile,
     Told, Mishap, Fine, Mishaps
<1>7. CASE Finish(u)
  BY <1>7, <1>s, SMTT(30) DEF Finish, Inv, Shape, OneCurrent, RequestInOrder, RegisteredFile,
     Told, Mishap, Fine, Mishaps
<1>8. CASE StoreObject(u)
  BY <1>8, <1>s, SMTT(30) DEF StoreObject, Inv, Shape, OneCurrent, RequestInOrder, RegisteredFile,
     Told, Mishap, Fine, Mishaps
<1>9. CASE StoreRefused(u)
  <2>1. Fine \/ Mishap(u, "refusal") \/ Mishap(u, "cleanup")
    BY <1>9 DEF StoreRefused
  <2>2. /\ mishaps' \in [Uploads -> SUBSET Mishaps]
        /\ \A v \in Uploads : mishaps[v] \subseteq mishaps'[v]
    BY <1>s, <2>1, Growing DEF Shape, Mishaps
  <2>3. Shape' /\ OneCurrent'
    BY <1>9, <1>s, <2>2 DEF StoreRefused, Answer, Shape, OneCurrent
  <2>4. ASSUME NEW v \in Uploads
        PROVE  RequestInOrder(v)' /\ RegisteredFile(v)'
    BY <1>9, <1>s, <2>2 DEF StoreRefused, Answer, Shape, RequestInOrder, RegisteredFile
  <2>5. ASSUME NEW v \in Uploads
        PROVE  Told(v)'
    BY <1>9, <1>s, <2>2 DEF StoreRefused, Answer, Shape, RequestInOrder, RegisteredFile, Told
  <2>6. QED BY <2>3, <2>4, <2>5 DEF Inv
<1>10. CASE CallBackend(u)
  BY <1>10, <1>s, SMTT(30) DEF CallBackend, Inv, Shape, OneCurrent, RequestInOrder, RegisteredFile,
     Told, Mishap, Fine, Mishaps
<1>11. CASE Register(u)
  BY <1>11, <1>s, SMTT(30) DEF Register, Inv, Shape, OneCurrent, RequestInOrder, RegisteredFile,
     Told, Mishap, Fine, Mishaps
<1>12. CASE RefuseRegistration(u)
  BY <1>12, <1>s, SMTT(30) DEF RefuseRegistration, Inv, Shape, OneCurrent, RequestInOrder, RegisteredFile,
     Told, Mishap, Fine, Mishaps
<1>13. CASE Confirm(u)
  <2>1. Fine \/ Mishap(u, "cleanup")
    BY <1>13 DEF Confirm
  <2>2. /\ mishaps' \in [Uploads -> SUBSET Mishaps]
        /\ \A v \in Uploads : mishaps[v] \subseteq mishaps'[v]
    BY <1>s, <2>1, Growing DEF Shape, Mishaps
  <2>3. Shape' /\ OneCurrent'
    BY <1>13, <1>s, <2>2 DEF Confirm, ClearSession, Answer, Shape, OneCurrent
  <2>4. ASSUME NEW v \in Uploads
        PROVE  RequestInOrder(v)' /\ RegisteredFile(v)'
    BY <1>13, <1>s, <2>2 DEF Confirm, ClearSession, Answer, Shape, RequestInOrder, RegisteredFile
  <2>5. ASSUME NEW v \in Uploads
        PROVE  Told(v)'
    BY <1>13, <1>s, <2>2 DEF Confirm, ClearSession, Answer, Shape, RequestInOrder, RegisteredFile, Told
  <2>6. QED BY <2>3, <2>4, <2>5 DEF Inv
<1>14. CASE Rejected(u)
  BY <1>14, <1>s, SMTT(30) DEF Rejected, Inv, Shape, OneCurrent, RequestInOrder, RegisteredFile,
     Told, Mishap, Fine, Mishaps
<1>15. CASE CallLost(u)
  BY <1>15, <1>s, SMTT(30) DEF CallLost, Inv, Shape, OneCurrent, RequestInOrder, RegisteredFile,
     Told, Mishap, Fine, Mishaps
<1>16. CASE Undo(u)
  <2>1. Fine \/ Mishap(u, "cleanup")
    BY <1>16 DEF Undo
  <2>2. /\ mishaps' \in [Uploads -> SUBSET Mishaps]
        /\ \A v \in Uploads : mishaps[v] \subseteq mishaps'[v]
    BY <1>s, <2>1, Growing DEF Shape, Mishaps
  <2>3. Shape' /\ OneCurrent'
    BY <1>16, <1>s, <2>2 DEF Undo, ClearSession, Answer, Shape, OneCurrent
  <2>4. ASSUME NEW v \in Uploads
        PROVE  RequestInOrder(v)' /\ RegisteredFile(v)'
    BY <1>16, <1>s, <2>2 DEF Undo, ClearSession, Answer, Shape, RequestInOrder, RegisteredFile
  <2>5. ASSUME NEW v \in Uploads
        PROVE  Told(v)'
    BY <1>16, <1>s, <2>2 DEF Undo, ClearSession, Answer, Shape, RequestInOrder, RegisteredFile, Told
  <2>6. QED BY <2>3, <2>4, <2>5 DEF Inv
<1>17. CASE FinishDies(u)
  BY <1>17, <1>s, SMTT(30) DEF FinishDies, Answer, Inv, Shape, OneCurrent, RequestInOrder, RegisteredFile,
     Told, Mishap, Fine, Mishaps
<1>18. CASE FinishAnswerLost(u)
  BY <1>18, <1>s, SMTT(30) DEF FinishAnswerLost, Inv, Shape, OneCurrent, RequestInOrder, RegisteredFile,
     Told, Mishap, Fine, Mishaps
<1>19. CASE Load(u)
  BY <1>19, <1>s, SMTT(30) DEF Load, Shown, Current, Inv, Shape, OneCurrent, RequestInOrder, RegisteredFile,
     Told, Mishap, Fine, Mishaps
<1>20. CASE Cancel(u)
  <2>1. Fine \/ Mishap(u, "cleanup")
    BY <1>20 DEF Cancel
  <2>2. /\ mishaps' \in [Uploads -> SUBSET Mishaps]
        /\ \A v \in Uploads : mishaps[v] \subseteq mishaps'[v]
    BY <1>s, <2>1, Growing DEF Shape, Mishaps
  <2>3. Shape' /\ OneCurrent'
    BY <1>20, <1>s, <2>2 DEF Cancel, ClearSession, Shape, OneCurrent
  <2>4. ASSUME NEW v \in Uploads
        PROVE  RequestInOrder(v)' /\ RegisteredFile(v)'
    BY <1>20, <1>s, <2>2 DEF Cancel, ClearSession, Shape, RequestInOrder, RegisteredFile
  <2>5. ASSUME NEW v \in Uploads
        PROVE  Told(v)'
    BY <1>20, <1>s, <2>2 DEF Cancel, ClearSession, Shape, RequestInOrder, RegisteredFile, Told
  <2>6. QED BY <2>3, <2>4, <2>5 DEF Inv
<1>21. CASE CloseBrowser(u)
  BY <1>21, <1>s, SMTT(30) DEF CloseBrowser, Inv, Shape, OneCurrent, RequestInOrder, RegisteredFile,
     Told, Mishap, Fine, Mishaps
<1>22. CASE Expire(u)
  BY <1>22, <1>s, SMTT(30) DEF Expire, Inv, Shape, OneCurrent, RequestInOrder, RegisteredFile,
     Told, Mishap, Fine, Mishaps
<1>23. QED BY <1>1, <1>2, <1>3, <1>4, <1>5, <1>6, <1>7, <1>8, <1>9, <1>10, <1>11, <1>12, <1>13, <1>14, <1>15, <1>16, <1>17, <1>18, <1>19, <1>20, <1>21, <1>22 DEF BrowserStep, RequestStep, Trouble

-----------------------------------------------------------------------------
(* Theorems                                                                  *)

\* The inductive invariant about requests, registered files and answers.
THEOREM InvCorrect == Spec => []Inv
<1>1. Init => Inv
  BY DEF Init, Inv, Shape, OneCurrent, RequestInOrder, RegisteredFile, Told, ClientStates, Mishaps
<1>2. Inv /\ [Next]_mediaVars => Inv'
  <2> SUFFICES ASSUME Inv, [Next]_mediaVars PROVE Inv'
    OBVIOUS
  <2>1. CASE Next
    BY <2>1, InvStep DEF Next
  <2>2. CASE UNCHANGED mediaVars
    BY <2>2 DEF mediaVars, browserVars, requestVars, sessionVars, Inv, Shape, OneCurrent,
                RequestInOrder, RegisteredFile, Told
  <2>3. QED BY <2>1, <2>2
<1>3. QED BY <1>1, <1>2, PTL DEF Spec

\* The tables and programs keep their shape and the unit has one current picture.
THEOREM TypeCorrect == Spec => []TypeOK
<1>1. Inv => TypeOK
  BY DEF Inv, Shape, OneCurrent, TypeOK, ClientStates
<1>2. QED BY <1>1, InvCorrect, PTL

\* A registered picture has its file: the file is deleted only by the request
\* that stored it, once the backend refused it or its answer was lost.
THEOREM PictureHasFileCorrect == Spec => []PictureHasFile
<1>1. Inv => PictureHasFile
  BY DEF Inv, RegisteredFile, PictureHasFile
<1>2. QED BY <1>1, InvCorrect, PTL

\* The user is told the truth about an upload, saved or failed.
THEOREM AnswerCorrect == Spec => []AnswerIsTrue
<1>1. Inv => AnswerIsTrue
  BY DEF Inv, Told, AnswerIsTrue
<1>2. QED BY <1>1, InvCorrect, PTL

=============================================================================
