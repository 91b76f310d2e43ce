------------------------- MODULE DocumentGeneration -------------------------
(***************************************************************************)
(* Generation of the document of a reservation or future purchase contract *)
(* from an approved template.                                              *)
(*                                                                         *)
(* A request looks for an earlier attempt under its key, loads the facts   *)
(* of the contract, reserves an operation that freezes them, renders and   *)
(* uploads the file, completes the operation and binds the file to a       *)
(* version of the contract.  Each of these is a transaction of its own,    *)
(* and a request that dies between two of them is repeated under its key.  *)
(* Meanwhile other people add versions and external documents, change the  *)
(* preparation, approve, sign or end the contract, and replace the         *)
(* template.                                                               *)
(*                                                                         *)
(* One contract and one template with several versions.  A key is known    *)
(* only to the member who made it, so the checks of the creator hold.  A   *)
(* file is named by the key or by the external upload that stored it, a    *)
(* document by the first of its files.  The upload itself, one step here,  *)
(* is the subject of DocumentUpload.                                       *)
(***************************************************************************)
EXTENDS Integers, Sequences, FiniteSets, SequencesExt

CONSTANTS
    Keys,        \* idempotency keys of generations
    Requests,    \* requests of the API that run at the same time
    Templates,   \* versions of the template of the contract
    Externals,   \* final documents uploaded for the contract
    Pdfs,        \* those that are PDF, the others are DOCX like generated ones
    Kinds,       \* among the kinds of contract below
    None,        \* no file, no key
    MaxVersions, \* bound: versions, before those added by a generation
    MaxFacts,    \* bound: changes of the facts of the contract
    MaxCrashes   \* bound: requests that die between two steps

\* Original profiles carry numbered appendices and planned days of signature;
\* a future purchase contract exists with such a profile only.
AllKinds == {"rs", "rs_original", "sbk_original"}
Original == {"rs_original", "sbk_original"}

ASSUME DocumentGenerationAssumption ==
    /\ Kinds \subseteq AllKinds
    /\ Pdfs \subseteq Externals
    /\ Keys \cap Externals = {} /\ None \notin Keys \cup Externals
    /\ MaxVersions \in Nat \ {0} /\ MaxFacts \in Nat /\ MaxCrashes \in Nat

VARIABLES
    kind,        \* type and template profile of the contract
    templates,   \* document_template_versions.approval_status
    status,      \* contracts.current_status; "sent" covers negotiation,
                 \* "ended" a cancelled or terminated contract, its sale too
    versions,    \* contract_versions, oldest first
    facts,       \* how often the buyer, price, ... have changed
    ops,         \* document_generation_operations, by key
    files,       \* the generated files that are stored
    request,     \* the running requests
    approved,    \* the file that the last approval was about
    crashes

genVars == <<kind, templates, status, versions, facts, ops, files, request,
             approved, crashes>>

-----------------------------------------------------------------------------
(* Rows                                                                    *)

Files == Keys \cup Externals

NoInput == [template |-> None, facts |-> 0, plan |-> 0, prep |-> 0,
            appendix |-> 0, target |-> None]
NoOp == [state |-> "absent", input |-> NoInput, seen |-> None]
Idle == [pc |-> "idle", key |-> None, input |-> NoInput]

\* A version without a document, before its preparation.
Draft == [source |-> "manual", state |-> "working", doc |-> None, file |-> None,
          plan |-> 0, appendix |-> 0]

Open == status \notin {"signed", "ended"}
Latest == Last(versions)

Bound(f) == \E i \in DOMAIN versions : versions[i].file = f

Unfinished(k) ==
    \/ ops[k].state = "reserved"
    \/ ops[k].state = "completed" /\ ~Bound(k)
Generating == {k \in Keys : Unfinished(k)}

\* The last version with a document among the first n.
NewestFile(n) ==
    LET with == {i \in 1..n : versions[i].file # None}
    IN  IF with = {} THEN None
        ELSE versions[CHOOSE i \in with : \A j \in with : j <= i].file

DocOf(f) ==
    IF f = None THEN None
    ELSE versions[CHOOSE i \in DOMAIN versions : versions[i].file = f].doc

SameType(f, g) == f \in Pdfs <=> g \in Pdfs

Superseded == [i \in DOMAIN versions |->
    IF versions[i].state \in {"working", "approved_for_signing"}
    THEN [versions[i] EXCEPT !.state = "superseded"] ELSE versions[i]]

HasSignatureEvidence(d) ==
    \E i \in DOMAIN versions : versions[i].doc = d /\ versions[i].state = "signed"

Init ==
    /\ kind \in Kinds
    /\ \E t \in Templates : templates =
           [u \in Templates |-> IF u = t THEN "approved" ELSE "draft"]
    /\ status = "draft" /\ versions = <<Draft>> /\ facts = 0
    /\ ops = [k \in Keys |-> NoOp] /\ files = {}
    /\ request = [r \in Requests |-> Idle]
    /\ approved = None /\ crashes = 0

-----------------------------------------------------------------------------
(* The steps of a request                                                  *)

At(r, pc) == request[r].pc = pc
Goto(r, pc) == request' = [request EXCEPT ![r].pc = pc]
Finish(r) == request' = [request EXCEPT ![r] = Idle]

contractVars == <<kind, templates, status, versions, facts, approved>>

\* A new key, one whose outcome the panel does not know, or one that the
\* readiness of the contract has returned to its creator.
Submit(r, k) ==
    /\ At(r, "idle")
    /\ request' = [request EXCEPT ![r] = [Idle EXCEPT !.pc = "completed", !.key = k]]
    /\ UNCHANGED <<contractVars, ops, files, crashes>>

\* A completed operation goes straight to the binding.
FindCompleted(r) ==
    /\ At(r, "completed")
    /\ LET op == ops[request[r].key]
       IN  IF op.state = "completed"
           THEN request' = [request EXCEPT ![r].pc = "bind", ![r].input = op.input]
           ELSE Goto(r, "pending")
    /\ UNCHANGED <<contractVars, ops, files, crashes>>

\* Mutant: a repeated request is loaded afresh.
FindNothing(r) ==
    /\ At(r, "pending")
    /\ Goto(r, "load")
    /\ UNCHANGED <<contractVars, ops, files, crashes>>

\* An unfinished one is repeated with the request it has stored.
FindPending(r) ==
    /\ At(r, "pending")
    /\ LET k == request[r].key
       IN  IF Unfinished(k) /\ Open
           THEN request' = [request EXCEPT ![r].pc = "template",
                                           ![r].input = ops[k].input]
           ELSE Goto(r, "load")
    /\ UNCHANGED <<contractVars, ops, files, crashes>>

\* The document that a generation extends: the newest one, unless it is a PDF.
TargetDocument ==
    LET f == NewestFile(Len(versions)) IN IF f \in Pdfs THEN None ELSE DocOf(f)

\* What a request freezes: the facts, the document it extends and, with an
\* original profile, the preparation of the newest version.
Loaded(t) ==
    [template |-> t, facts |-> facts, target |-> TargetDocument,
     plan |-> IF kind \in Original THEN Latest.plan ELSE 0,
     prep |-> IF kind \in Original THEN Len(versions) ELSE 0,
     appendix |-> IF kind \in Original THEN Latest.appendix ELSE 0]

\* Reads the contract, the one approved template and the preparation.
Load(r) ==
    /\ At(r, "load")
    /\ \/ /\ Open
          /\ kind \in Original => Latest.plan # 0 /\ Latest.appendix # 0
          /\ \E t \in Templates :
                 /\ templates[t] = "approved"
                 /\ request' = [request EXCEPT ![r].pc = "template",
                                               ![r].input = Loaded(t)]
       \/ /\ \/ ~Open
             \/ kind \in Original /\ (Latest.plan = 0 \/ Latest.appendix = 0)
             \/ \A t \in Templates : templates[t] # "approved"
          /\ Finish(r)
    /\ UNCHANGED <<contractVars, ops, files, crashes>>

\* Every attempt needs the template to be approved still.
GetTemplate(r) ==
    /\ At(r, "template")
    /\ IF templates[request[r].input.template] = "approved"
       THEN Goto(r, "reserve") ELSE Finish(r)
    /\ UNCHANGED <<contractVars, ops, files, crashes>>

\* The newest version carries the document that the request was loaded with,
\* or a PDF, which is left alone.
SameDocument(in) ==
    \/ Latest.doc \in {None, in.target}
    \/ Latest.file \in Pdfs /\ in.target = None

\* Nothing was generated, changed or added since the appendices were read.
SamePreparation(in) ==
    /\ Open /\ in.prep = Len(versions)
    /\ Latest.state = "working" /\ Latest.file = None
    /\ Latest.appendix = in.appendix

\* Mutant: an operation that is completed but not bound is not waited for.
MayReserveAfterCompletion(in) ==
    /\ \A k \in Keys : ops[k].state # "reserved"
    /\ SameDocument(in)
    /\ kind \in Original => SamePreparation(in)

MayReserve(in) ==
    /\ Generating = {}
    /\ SameDocument(in)
    /\ kind \in Original => SamePreparation(in)

\* The same key must come with the same request; an operation that exists is
\* continued where it stands.
Reserve(r) ==
    /\ At(r, "reserve")
    /\ LET k == request[r].key
           in == request[r].input
       IN  \/ /\ ops[k].state # "absent" /\ ops[k].input = in
              /\ Goto(r, IF ops[k].state = "completed" THEN "bind" ELSE "upload")
              /\ UNCHANGED ops
           \/ /\ ops[k].state = "absent" /\ MayReserve(in)
              /\ ops' = [ops EXCEPT ![k] = [state |-> "reserved", input |-> in,
                                            seen |-> NewestFile(Len(versions))]]
              /\ Goto(r, "upload")
           \/ /\ IF ops[k].state = "absent" THEN ~MayReserve(in) ELSE ops[k].input # in
              /\ Finish(r)
              /\ UNCHANGED ops
    /\ UNCHANGED <<contractVars, files, crashes>>

\* Renders the frozen facts and stores the file, once for each operation.  A
\* document that was signed takes no further version.
Upload(r) ==
    /\ At(r, "upload")
    /\ LET k == request[r].key
           in == request[r].input
       IN  IF k \in files \/ in.target = None \/ ~HasSignatureEvidence(in.target)
           THEN files' = files \cup {k} /\ Goto(r, "complete")
           ELSE Finish(r) /\ UNCHANGED files
    /\ UNCHANGED <<contractVars, ops, crashes>>

Complete(r) ==
    /\ At(r, "complete")
    /\ ops' = [ops EXCEPT ![request[r].key].state = "completed"]
    /\ Goto(r, "bind")
    /\ UNCHANGED <<contractVars, files, crashes>>

-----------------------------------------------------------------------------
(* Binding a generated file                                                *)

\* A version that waits for its document takes the file, otherwise the file
\* becomes a version of its own and replaces those before it.
InPlace == Latest.source = "manual" /\ Latest.file = None

BindVersion(k) ==
    LET doc == IF ops[k].input.target = None THEN k ELSE ops[k].input.target
    IN  IF InPlace
        THEN [versions EXCEPT ![Len(versions)].source = "generated",
                              ![Len(versions)].doc = doc, ![Len(versions)].file = k]
        ELSE Append(Superseded, [source |-> "generated", state |-> "working", doc |-> doc,
                                 file |-> k, plan |-> Latest.plan, appendix |-> 0])

\* Mutant: a later version is taken for the frozen one if it says the same.
PreparationAlike(k) ==
    kind \in Original =>
        /\ Latest.plan = ops[k].input.plan
        /\ Latest.appendix = ops[k].input.appendix

\* The preparation that was frozen is the one the file is bound to.
PreparationKept(k) ==
    kind \in Original =>
        /\ ops[k].input.prep = Len(versions) /\ InPlace
        /\ Latest.plan = ops[k].input.plan
        /\ Latest.appendix = ops[k].input.appendix

\* Mutant: nobody looks whether the file is bound already.
MayBindAgain(k) ==
    /\ Open /\ ops[k].state = "completed"
    /\ PreparationKept(k)
    /\ kind # "sbk_original" => Generating \subseteq {k}

MayBind(k) ==
    /\ Open /\ ops[k].state = "completed" /\ ~Bound(k)
    /\ PreparationKept(k)
    /\ kind # "sbk_original" => Generating = {k}

\* Mutant: the approval of the replaced document stays in force.
ReopenKeepingApproval == status' = status

\* A contract that was approved returns to preparation.
Reopen == status' = IF status = "approved" THEN "draft" ELSE status

Bind(r) ==
    /\ At(r, "bind")
    /\ LET k == request[r].key
       IN  IF MayBind(k)
           THEN versions' = BindVersion(k) /\ Reopen
           ELSE UNCHANGED <<versions, status>>
    /\ Finish(r)
    /\ UNCHANGED <<kind, templates, facts, ops, files, approved, crashes>>

\* The process dies, or a call to the database or to Graph fails.
Crash(r) ==
    /\ ~At(r, "idle") /\ crashes < MaxCrashes
    /\ crashes' = crashes + 1
    /\ Finish(r)
    /\ UNCHANGED <<contractVars, ops, files>>

-----------------------------------------------------------------------------
(* Other people                                                            *)

requestVars == <<ops, files, request>>

\* A new version takes over nothing and needs a review of its own.
NewVersion ==
    /\ Open /\ Len(versions) < MaxVersions
    /\ versions' = Append(Superseded, Draft)
    /\ status' = "draft"
    /\ UNCHANGED <<kind, templates, facts, approved, requestVars, crashes>>

\* Planned days of signature, while the version waits for its document.
SetPlan(p) ==
    /\ kind \in Original /\ Open
    /\ Latest.state = "working" /\ Latest.file = None /\ Latest.plan # p
    /\ versions' = [versions EXCEPT ![Len(versions)].plan = p]
    /\ UNCHANGED <<kind, templates, status, facts, approved, requestVars, crashes>>

\* No generation was started from this version.
AppendicesEditable ==
    /\ Latest.state = "working" /\ Latest.file = None
    /\ \A k \in Keys : ops[k].state # "absent" => ops[k].input.prep # Len(versions)

\* A choice of exact appendix files for the newest version.
SetAppendix(a) ==
    /\ kind \in Original /\ Open
    /\ AppendicesEditable /\ Latest.appendix # a
    /\ versions' = [versions EXCEPT ![Len(versions)].appendix = a]
    /\ UNCHANGED <<kind, templates, status, facts, approved, requestVars,
                   crashes>>

ChangeFacts ==
    /\ facts < MaxFacts
    /\ facts' = facts + 1
    /\ UNCHANGED <<kind, templates, status, versions, approved, requestVars,
                   crashes>>

\* Mutant: a final document is taken while another one is being generated.
SettledIgnoringGeneration == TRUE

\* The documents of a reservation contract are settled: no generation of it
\* is reserved or unbound.  Other contracts are not asked.
Settled == kind # "sbk_original" => Generating = {}

\* The document that an external file extends: that of the newest version, if
\* it has one of the same type.
ExternalDocument(x) ==
    IF Latest.file # None /\ SameType(Latest.file, x) THEN Latest.doc ELSE x

\* Only the first version is filled in place, later ones are replaced.
BindExternal(x) ==
    LET first == Len(versions) = 1 /\ InPlace
    IN  /\ Open /\ Settled /\ ~Bound(x)
        /\ first \/ Len(versions) < MaxVersions
        /\ first => \A k \in Generating : ops[k].input.prep # 1
        /\ versions' =
              IF first
              THEN <<[Latest EXCEPT !.source = "imported", !.state = "working",
                                    !.doc = x, !.file = x]>>
              ELSE Append(Superseded, [Draft EXCEPT !.source = "imported",
                                           !.doc = ExternalDocument(x), !.file = x])
        /\ Reopen
        /\ UNCHANGED <<kind, templates, facts, approved, requestVars, crashes>>

Review ==
    /\ \/ status \in {"draft", "approved"} /\ status' = "sent"
          /\ UNCHANGED <<versions, approved>>
       \/ /\ status = "sent" /\ status' = "approved"
          /\ versions' = IF Latest.state = "working"
                THEN [versions EXCEPT ![Len(versions)].state = "approved_for_signing"]
                ELSE versions
          /\ approved' = Latest.file
    /\ UNCHANGED <<kind, templates, facts, requestVars, crashes>>

\* The appendices of a generated version are those it was generated with.
AppendicesInOrder ==
    kind \in Original /\ Latest.file \in Keys =>
        LET in == ops[Latest.file].input
        IN  in.prep = Len(versions) /\ in.appendix = Latest.appendix

Sign ==
    /\ status = "approved" /\ Latest.state = "approved_for_signing"
    /\ Latest.file # None /\ Settled /\ AppendicesInOrder
    /\ status' = "signed"
    /\ versions' = [versions EXCEPT ![Len(versions)].state = "signed"]
    /\ UNCHANGED <<kind, templates, facts, approved, requestVars, crashes>>

End ==
    /\ status # "ended" /\ status' = "ended"
    /\ UNCHANGED <<kind, templates, versions, facts, approved, requestVars, crashes>>

ValidateTemplate(t) ==
    /\ templates[t] = "draft"
    /\ templates' = [templates EXCEPT ![t] = "validated"]
    /\ UNCHANGED <<kind, status, versions, facts, approved, requestVars,
                   crashes>>

\* Mutant: the version that was approved before stays approved.
ApproveBeside(t) ==
    /\ templates[t] = "validated"
    /\ templates' = [templates EXCEPT ![t] = "approved"]
    /\ UNCHANGED <<kind, status, versions, facts, approved, requestVars, crashes>>

\* The version that was approved before is retired in the same step.
ApproveTemplate(t) ==
    /\ templates[t] = "validated"
    /\ templates' = [u \in Templates |-> IF u = t THEN "approved"
                        ELSE IF templates[u] = "approved" THEN "retired" ELSE templates[u]]
    /\ UNCHANGED <<kind, status, versions, facts, approved, requestVars, crashes>>

RetireTemplate(t) ==
    /\ templates[t] # "retired"
    /\ templates' = [templates EXCEPT ![t] = "retired"]
    /\ UNCHANGED <<kind, status, versions, facts, approved, requestVars, crashes>>

-----------------------------------------------------------------------------
(* Specification                                                           *)

Handle(r) ==
    \/ FindCompleted(r) \/ FindPending(r) \/ Load(r) \/ GetTemplate(r)
    \/ Reserve(r) \/ Upload(r) \/ Complete(r) \/ Bind(r)

Next ==
    \/ \E r \in Requests : Handle(r) \/ Crash(r) \/ \E k \in Keys : Submit(r, k)
    \/ NewVersion \/ ChangeFacts \/ Review \/ Sign \/ End
    \/ \E p \in 0..1 : SetPlan(p)
    \/ \E a \in 0..2 : SetAppendix(a)
    \/ \E x \in Externals : BindExternal(x)
    \/ \E t \in Templates : ValidateTemplate(t) \/ ApproveTemplate(t) \/ RetireTemplate(t)

Spec == Init /\ [][Next]_genVars

\* A request that runs goes on, and the creator of an unfinished generation,
\* whom the readiness of the contract shows its key, repeats it again and again.
FairSpec ==
    /\ Spec
    /\ \A r \in Requests : WF_genVars(Handle(r))
    /\ \A k \in Keys :
          SF_genVars(Unfinished(k) /\ \E r \in Requests : Submit(r, k))

-----------------------------------------------------------------------------
(* Properties                                                              *)

Inputs == [template : Templates \cup {None}, facts : 0..MaxFacts, plan : 0..1,
           prep : Nat, appendix : 0..2,
           target : Files \cup {None}]

Versions == [source : {"manual", "generated", "imported"},
             state : {"working", "approved_for_signing", "superseded", "signed"},
             doc : Files \cup {None}, file : Files \cup {None},
             plan : 0..1, appendix : 0..2]

\* Types; the contract always has a version, and at most one version of the
\* template is approved.
TypeOK ==
    /\ kind \in Kinds
    /\ templates \in [Templates -> {"draft", "validated", "approved", "retired"}]
    /\ \A t, u \in Templates : templates[t] = "approved" /\ templates[u] = "approved" => t = u
    /\ status \in {"draft", "sent", "approved", "signed", "ended"}
    /\ versions \in Seq(Versions) /\ versions # <<>>
    /\ facts \in 0..MaxFacts
    /\ ops \in [Keys -> [state : {"absent", "reserved", "completed"}, input : Inputs,
                         seen : Files \cup {None}]]
    /\ files \subseteq Keys
    /\ request \in [Requests -> [pc : {"idle", "completed", "pending", "load", "template",
                                       "reserve", "upload", "complete", "bind"},
                                 key : Keys \cup {None}, input : Inputs]]
    /\ approved \in Files \cup {None}
    /\ crashes \in 0..MaxCrashes

\* At any moment at most one generation of the contract is reserved or not yet
\* bound, however many keys and requests there are (reserve).
OneGenerationAtATime == \A j, k \in Generating : j = k

\* A file becomes a version of the contract once, although the request is
\* repeated, also while the first one still runs (bind).
BoundOnce ==
    \A i, j \in DOMAIN versions :
        versions[i].file = versions[j].file /\ versions[i].file # None => i = j

\* A generated version replaces the document that was the newest when its
\* operation was reserved, never one that came in meanwhile (bind, reserve,
\* bind_external_contract_document).
NothingUnseenReplaced ==
    \A i \in DOMAIN versions :
        versions[i].file \in Keys => NewestFile(i - 1) = ops[versions[i].file].seen

\* While a contract is approved or signed, its newest version carries the file
\* that the approval was about, although generations and external documents
\* end at any time (bind, bind_external_contract_document, create_contract_version).
ApprovedAsSeen == status \in {"approved", "signed"} => Latest.file = approved

\* The appendices of a generated version with an original profile are the ones
\* frozen when its generation was reserved (reserve, set_contract_appendix, bind).
AppendicesAsGenerated ==
    \A i \in DOMAIN versions :
        kind \in Original /\ versions[i].file \in Keys =>
            LET in == ops[versions[i].file].input
            IN  in.prep = i /\ in.appendix = versions[i].appendix

\* What an unfinished generation stands on was taken away: the open contract,
\* the approved template, the preparation that was frozen.
Undercut(k) ==
    \/ ~Open
    \/ ops[k].state = "reserved" /\ templates[ops[k].input.template] # "approved"
    \/ kind \in Original /\ ~PreparationKept(k)

\* A generation that was reserved gets bound, through crashes of its requests
\* and changes of the facts, if its creator repeats it and nobody takes away
\* what it was reserved on.
EveryGenerationBound ==
    \A k \in Keys : Unfinished(k) ~> Bound(k) \/ Undercut(k)
=============================================================================
