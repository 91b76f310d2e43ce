---------------------- MODULE DocumentGenerationProofs ----------------------
(* Theorems about DocumentGeneration for any number of requests, keys,       *)
(* templates, external documents and versions.                               *)
EXTENDS DocumentGeneration, WellFoundedInduction, TLAPS

-----------------------------------------------------------------------------
(* The newest version with a document                                        *)

\* A bounded, nonempty set of positions has a last one.
LEMMA LastPosition ==
  ASSUME NEW n \in Nat, NEW S \in SUBSET (1..n), S # {}
  PROVE  \E m \in S : \A j \in S : j <= m
<1> DEFINE R == {p \in Nat \X Nat : p[1] < p[2]}
           T == {n - i : i \in S}
<1>1. IsWellFoundedOn(R, Nat)
  <2>1. OpToRel(<, Nat) = R
    BY DEF OpToRel
  <2> QED BY <2>1, NatLessThanWellFounded
<1>2. T \subseteq Nat
  OBVIOUS
<1>3. T # {}
  <2>1. PICK s \in S : TRUE
    OBVIOUS
  <2> QED BY <2>1
<1>4. PICK x \in T : \A y \in T : <<y, x>> \notin R
  <2> HIDE DEF R, T
  <2> QED BY <1>1, <1>2, <1>3, WFMin
<1>5. PICK m \in S : x = n - m
  OBVIOUS
<1>6. ASSUME NEW j \in S PROVE j <= m
  <2>1. n - j \in T /\ n - j \in Nat /\ x \in Nat
    OBVIOUS
  <2>2. ~ (n - j < x)
    <3>1. <<n - j, x>> \notin R
      <4> HIDE DEF T, R
      <4> QED BY <1>4, <2>1
    <3> QED BY <3>1, <2>1
  <2> QED BY <2>2, <1>5
<1> QED BY <1>6

\* The positions among the first n of a list that carry a document.
With(vs, n) == {i \in 1..n : vs[i].file # None}
LastOf(S) == CHOOSE i \in S : \A j \in S : j <= i
Newest(vs, n) == IF With(vs, n) = {} THEN None ELSE vs[LastOf(With(vs, n))].file

LEMMA NewestIsLast ==
  /\ \A n : NewestFile(n) = Newest(versions, n)
  /\ \A n : NewestFile(n)' = Newest(versions', n)
BY DEF NewestFile, Newest, With, LastOf

LEMMA LastInside ==
  ASSUME NEW n \in Nat, NEW S \in SUBSET (1..n), S # {}
  PROVE  LastOf(S) \in S
BY LastPosition DEF LastOf

\* The newest file is the file of a version, if it is a file.
LEMMA NewestExists ==
  ASSUME NEW n \in Nat, NEW vs, Newest(vs, n) # None
  PROVE  \E i \in 1..n : vs[i].file = Newest(vs, n)
<1>1. With(vs, n) \in SUBSET (1..n) /\ With(vs, n) # {}
  BY DEF With, Newest
<1>2. LastOf(With(vs, n)) \in 1..n
  BY <1>1, LastInside
<1> QED BY <1>1, <1>2 DEF Newest

\* It depends on the files only.
LEMMA NewestKept ==
  ASSUME NEW n \in Nat, NEW vs, NEW ws, \A i \in 1..n : ws[i].file = vs[i].file
  PROVE  Newest(ws, n) = Newest(vs, n)
<1>1. With(ws, n) = With(vs, n)
  BY DEF With
<1>2. CASE With(vs, n) = {}
  BY <1>1, <1>2 DEF Newest
<1>3. CASE With(vs, n) # {}
  <2>1. LastOf(With(vs, n)) \in 1..n
    BY <1>3, LastInside DEF With
  <2> QED BY <1>1, <1>3, <2>1 DEF Newest
<1> QED BY <1>2, <1>3

\* A version without a document changes nothing.
LEMMA NewestBefore ==
  ASSUME NEW n \in Nat, NEW vs, vs[n + 1].file = None
  PROVE  Newest(vs, n + 1) = Newest(vs, n)
<1>1. With(vs, n + 1) = With(vs, n)
  BY DEF With
<1> QED BY <1>1 DEF Newest

-----------------------------------------------------------------------------
(* Types                                                                     *)

\* A running request has a key.
OwnKeys == \A r \in Requests : request[r].pc # "idle" => request[r].key \in Keys

TypeInvariant == TypeOK /\ OwnKeys

\* The three things that happen to the list of versions: no file changes, the
\* last version gets its file, or a version is added.
Edited ==
    /\ versions' \in Seq(Versions) /\ Len(versions') = Len(versions)
    /\ \A i \in 1..Len(versions) :
          /\ versions'[i].file = versions[i].file
          /\ versions[i].file # None => versions'[i].appendix = versions[i].appendix

Filled(f) ==
    /\ versions' \in Seq(Versions) /\ Len(versions') = Len(versions)
    /\ versions[Len(versions)].file = None
    /\ versions'[Len(versions)].file = f
    /\ \A i \in 1..Len(versions) :
          /\ i # Len(versions) => versions'[i].file = versions[i].file
          /\ versions'[i].appendix = versions[i].appendix

Extended(f) ==
    /\ versions' \in Seq(Versions) /\ Len(versions') = Len(versions) + 1
    /\ versions'[Len(versions) + 1].file = f
    /\ \A i \in 1..Len(versions) :
          /\ versions'[i].file = versions[i].file
          /\ versions'[i].appendix = versions[i].appendix

LEMMA VersionsTyped ==
  ASSUME TypeOK
  PROVE  /\ Len(versions) \in Nat \ {0}
         /\ DOMAIN versions = 1..Len(versions)
         /\ \A i \in 1..Len(versions) : versions[i] \in Versions
         /\ Latest = versions[Len(versions)] /\ Latest \in Versions
<1>1. versions \in Seq(Versions) /\ versions # <<>>
  BY DEF TypeOK
<1> HIDE DEF Versions
<1> QED BY <1>1 DEF Latest, Last

LEMMA SupersededTyped ==
  ASSUME TypeOK
  PROVE  /\ Superseded \in Seq(Versions) /\ Len(Superseded) = Len(versions)
         /\ \A i \in 1..Len(versions) :
               /\ Superseded[i].file = versions[i].file
               /\ Superseded[i].appendix = versions[i].appendix
<1> DEFINE n == Len(versions)
           row(i) == IF versions[i].state \in {"working", "approved_for_signing"}
                     THEN [versions[i] EXCEPT !.state = "superseded"] ELSE versions[i]
<1>1. \A i \in 1..n : /\ row(i) \in Versions
                      /\ row(i).file = versions[i].file
                      /\ row(i).appendix = versions[i].appendix
  BY VersionsTyped DEF Versions
<1>2. Superseded = [i \in 1..n |-> row(i)]
  BY VersionsTyped DEF Superseded
<1>3. n \in Nat
  BY VersionsTyped
<1> HIDE DEF row, n
<1>4. Superseded \in Seq(Versions) /\ Len(Superseded) = n
  <2>1. \A i \in 1..n : row(i) \in Versions
    BY <1>1
  <2> HIDE DEF Versions
  <2> QED BY <1>2, <1>3, <2>1
<1> QED BY <1>1, <1>2, <1>4 DEF n

\* One version changes in place.
LEMMA Replaced ==
  ASSUME TypeOK, NEW v \in Versions,
         versions' = [versions EXCEPT ![Len(versions)] = v]
  PROVE  /\ versions' \in Seq(Versions) /\ Len(versions') = Len(versions)
         /\ versions'[Len(versions)] = v
         /\ \A i \in 1..Len(versions) : i # Len(versions) => versions'[i] = versions[i]
<1>1. versions \in Seq(Versions) /\ Len(versions) \in 1..Len(versions)
  BY VersionsTyped DEF TypeOK
<1> HIDE DEF Versions
<1> QED BY <1>1

LEMMA Added ==
  ASSUME TypeOK, NEW v \in Versions, versions' = Append(Superseded, v)
  PROVE  Extended(v.file)
<1> HIDE DEF Versions
<1> QED BY SupersededTyped, VersionsTyped DEF Extended

LEMMA RowTyped ==
  ASSUME NEW v \in Versions
  PROVE  /\ v = [source |-> v.source, state |-> v.state, doc |-> v.doc,
                 file |-> v.file, plan |-> v.plan, appendix |-> v.appendix]
         /\ v.source \in {"manual", "generated", "imported"}
         /\ v.state \in {"working", "approved_for_signing", "superseded", "signed"}
         /\ v.doc \in Files \cup {None} /\ v.file \in Files \cup {None}
         /\ v.plan \in 0..1 /\ v.appendix \in 0..2
BY DEF Versions

LEMMA NewVersionExtends == TypeOK /\ NewVersion => Extended(None)
<1> SUFFICES ASSUME TypeOK, NewVersion PROVE Extended(None)
  OBVIOUS
<1>1. Draft \in Versions /\ Draft.file = None
  BY DEF Draft, Versions
<1> QED BY <1>1, Added DEF NewVersion

LEMMA SetPlanEdits ==
  ASSUME TypeOK, NEW p \in 0..1, SetPlan(p)
  PROVE  Edited
<1> DEFINE v == [Latest EXCEPT !.plan = p]
<1>1. v \in Versions /\ v.file = Latest.file /\ v.appendix = Latest.appendix
  BY VersionsTyped DEF Versions
<1>2. versions' = [versions EXCEPT ![Len(versions)] = v]
  BY VersionsTyped DEF SetPlan
<1> HIDE DEF v
<1> QED BY <1>1, <1>2, Replaced, VersionsTyped DEF Edited

LEMMA SetAppendixEdits ==
  ASSUME TypeOK, NEW a \in 0..2, SetAppendix(a)
  PROVE  Edited
<1> DEFINE v == [Latest EXCEPT !.appendix = a]
<1>1. v \in Versions /\ v.file = Latest.file /\ Latest.file = None
  BY VersionsTyped DEF Versions, SetAppendix, AppendicesEditable
<1>2. versions' = [versions EXCEPT ![Len(versions)] = v]
  BY VersionsTyped DEF SetAppendix
<1> HIDE DEF v
<1> QED BY <1>1, <1>2, Replaced, VersionsTyped DEF Edited

\* A change of the state of the last version, at approval and at signature.
LEMMA StateEdits ==
  ASSUME TypeOK, NEW s \in {"approved_for_signing", "signed"},
         versions' = [versions EXCEPT ![Len(versions)].state = s]
  PROVE  Edited
<1> DEFINE v == [Latest EXCEPT !.state = s]
<1>1. v \in Versions /\ v.file = Latest.file /\ v.appendix = Latest.appendix
  BY VersionsTyped DEF Versions
<1>2. versions' = [versions EXCEPT ![Len(versions)] = v]
  BY VersionsTyped
<1> HIDE DEF v
<1> QED BY <1>1, <1>2, Replaced, VersionsTyped DEF Edited

LEMMA UnchangedEdits == TypeOK /\ UNCHANGED versions => Edited
BY DEF TypeOK, Edited

LEMMA NewestTyped ==
  ASSUME TypeOK, NEW n \in 0..Len(versions)
  PROVE  NewestFile(n) \in Files \cup {None}
<1>1. CASE Newest(versions, n) = None
  BY <1>1, NewestIsLast
<1>2. CASE Newest(versions, n) # None
  <2>1. PICK i \in 1..n : versions[i].file = NewestFile(n)
    BY <1>2, NewestExists, NewestIsLast, VersionsTyped
  <2> QED BY <2>1, VersionsTyped, RowTyped
<1> QED BY <1>1, <1>2

LEMMA TargetTyped == TypeOK => TargetDocument \in Files \cup {None}
<1> SUFFICES ASSUME TypeOK PROVE TargetDocument \in Files \cup {None}
  OBVIOUS
<1> DEFINE f == NewestFile(Len(versions))
<1>1. CASE f = None
  BY <1>1 DEF TargetDocument, DocOf
<1>2. CASE f # None
  <2>1. \E i \in DOMAIN versions : versions[i].file = f
    BY <1>2, NewestExists, NewestIsLast, VersionsTyped
  <2>2. (CHOOSE i \in DOMAIN versions : versions[i].file = f) \in DOMAIN versions
    <3> HIDE DEF f
    <3> QED BY <2>1
  <2>3. DocOf(f) \in Files \cup {None}
    <3> HIDE DEF f
    <3> QED BY <1>2, <2>2, VersionsTyped, RowTyped DEF DocOf
  <2> QED BY <2>3 DEF TargetDocument
<1> QED BY <1>1, <1>2

LEMMA BindExternalChanges ==
  ASSUME TypeOK, NEW x \in Externals, BindExternal(x)
  PROVE  \/ Extended(x)
         \/ /\ Filled(x) /\ Len(versions) = 1
            /\ \A k \in Generating : ops[k].input.prep # 1
<1>1. x \in Files
  BY DEF Files
<1>2. CASE Len(versions) = 1 /\ InPlace
  <2> DEFINE v == [Latest EXCEPT !.source = "imported", !.state = "working",
                                 !.doc = x, !.file = x]
  <2>1. v \in Versions /\ v.file = x /\ v.appendix = Latest.appendix
    BY <1>1, VersionsTyped DEF Versions
  <2>2. versions' = <<v>> /\ \A k \in Generating : ops[k].input.prep # 1
    BY <1>2 DEF BindExternal
  <2>3. Latest.file = None
    BY <1>2 DEF InPlace
  <2> HIDE DEF v
  <2>4. <<v>> \in Seq(Versions) /\ Len(<<v>>) = 1 /\ <<v>>[1] = v
    <3> HIDE DEF Versions
    <3> QED BY <2>1
  <2> QED BY <1>2, <2>1, <2>2, <2>3, <2>4, VersionsTyped DEF Filled
<1>3. CASE ~ (Len(versions) = 1 /\ InPlace)
  <2> DEFINE v == [Draft EXCEPT !.source = "imported", !.doc = ExternalDocument(x), !.file = x]
  <2>1. ExternalDocument(x) \in Files \cup {None}
    BY <1>1, VersionsTyped, RowTyped DEF ExternalDocument
  <2>2. v \in Versions /\ v.file = x
    <3>1. Draft \in Versions
      BY DEF Draft, Versions
    <3> HIDE DEF Draft
    <3> QED BY <1>1, <2>1, <3>1 DEF Versions
  <2>3. versions' = Append(Superseded, v)
    BY <1>3 DEF BindExternal
  <2> HIDE DEF v
  <2> QED BY <2>2, <2>3, Added
<1> QED BY <1>2, <1>3

LEMMA BindChanges ==
  ASSUME TypeOK, NEW k \in Keys, versions' = BindVersion(k)
  PROVE  \/ Extended(k) /\ ~InPlace
         \/ Filled(k) /\ InPlace
<1> DEFINE doc == IF ops[k].input.target = None THEN k ELSE ops[k].input.target
<1>1. doc \in Files \cup {None} /\ k \in Files
  BY DEF TypeOK, Inputs, Files
<1>2. CASE InPlace
  <2> DEFINE v == [Latest EXCEPT !.source = "generated", !.doc = doc, !.file = k]
  <2>1. v \in Versions /\ v.file = k /\ v.appendix = Latest.appendix
    <3> HIDE DEF doc
    <3> QED BY <1>1, VersionsTyped DEF Versions
  <2>2. versions' = [versions EXCEPT ![Len(versions)] = v]
    BY <1>2, VersionsTyped DEF BindVersion
  <2>3. Latest.file = None
    BY <1>2 DEF InPlace
  <2> HIDE DEF v
  <2> QED BY <1>2, <2>1, <2>2, <2>3, Replaced, VersionsTyped DEF Filled
<1>3. CASE ~InPlace
  <2> DEFINE v == [source |-> "generated", state |-> "working", doc |-> doc,
                   file |-> k, plan |-> Latest.plan, appendix |-> 0]
  <2>1. v \in Versions /\ v.file = k
    <3> HIDE DEF doc
    <3> QED BY <1>1, VersionsTyped, RowTyped DEF Versions
  <2>2. versions' = Append(Superseded, v)
    BY <1>3 DEF BindVersion
  <2> HIDE DEF v
  <2> QED BY <1>3, <2>1, <2>2, Added
<1> QED BY <1>2, <1>3

-----------------------------------------------------------------------------
(* The type is kept                                                          *)

Requested == [pc : {"idle", "completed", "pending", "load", "template",
                    "reserve", "upload", "complete", "bind"},
              key : Keys \cup {None}, input : Inputs]

Operation == [state : {"absent", "reserved", "completed"}, input : Inputs,
              seen : Files \cup {None}]

LEMMA InitTyped == Init => TypeInvariant
<1> SUFFICES ASSUME Init PROVE TypeInvariant
  OBVIOUS
<1>1. NoInput \in Inputs
  BY DocumentGenerationAssumption DEF NoInput, Inputs
<1>2. versions \in Seq(Versions) /\ versions # <<>>
  <2>1. Draft \in Versions
    BY DEF Draft, Versions
  <2> HIDE DEF Versions
  <2> QED BY <2>1 DEF Init
<1>3. ops \in [Keys -> Operation] /\ request \in [Requests -> Requested]
  <2> HIDE DEF Inputs
  <2> QED BY <1>1 DEF Init, NoOp, Idle, Operation, Requested
<1>4. OwnKeys
  BY DEF Init, Idle, OwnKeys
<1>5. /\ templates \in [Templates -> {"draft", "validated", "approved", "retired"}]
      /\ \A t, u \in Templates :
            templates[t] = "approved" /\ templates[u] = "approved" => t = u
  BY DEF Init
<1> QED
  BY <1>2, <1>3, <1>4, <1>5, DocumentGenerationAssumption
     DEF Init, TypeInvariant, TypeOK, Operation, Requested

\* A running request has stored inputs, and its key an operation.
LEMMA RequestTyped ==
  ASSUME TypeInvariant, NEW r \in Requests
  PROVE  /\ request \in [Requests -> Requested]
         /\ request[r].input \in Inputs
         /\ request[r].pc # "idle" => /\ request[r].key \in Keys
                                      /\ ops[request[r].key] \in Operation
                                      /\ ops[request[r].key].input \in Inputs
<1>1. request \in [Requests -> Requested] /\ ops \in [Keys -> Operation]
  BY DEF TypeInvariant, TypeOK, Requested, Operation
<1> HIDE DEF Inputs
<1> QED BY <1>1 DEF TypeInvariant, OwnKeys, Requested, Operation

\* What the steps of a request write into its own state.
RequestKept == request' \in [Requests -> Requested] /\ OwnKeys'

LEMMA IdleKept ==
  ASSUME TypeInvariant, NEW r \in Requests, Finish(r)
  PROVE  RequestKept
<1>1. Idle \in Requested /\ Idle.pc = "idle"
  BY DocumentGenerationAssumption DEF Idle, Requested, NoInput, Inputs
<1>2. request \in [Requests -> Requested]
  BY RequestTyped
<1> HIDE DEF Requested
<1> QED BY <1>1, <1>2 DEF Finish, RequestKept, OwnKeys, TypeInvariant

LEMMA GotoKept ==
  ASSUME TypeInvariant, NEW r \in Requests, request[r].pc # "idle",
         NEW pc \in {"pending", "load", "template", "reserve", "upload", "complete", "bind"},
         NEW in \in Inputs,
         \/ Goto(r, pc)
         \/ request' = [request EXCEPT ![r].pc = pc, ![r].input = in]
  PROVE  RequestKept
<1>1. request \in [Requests -> Requested] /\ request[r].key \in Keys
  BY RequestTyped
<1>2. request[r].input \in Inputs
  BY RequestTyped
<1> HIDE DEF Inputs
<1>3. request' \in [Requests -> Requested]
  BY <1>1, <1>2 DEF Goto, Requested
<1>4. \A q \in Requests : request'[q].key = request[q].key
                          /\ (q # r => request'[q].pc = request[q].pc)
  BY <1>1 DEF Goto, Requested
<1> QED BY <1>1, <1>3, <1>4 DEF RequestKept, OwnKeys, TypeInvariant

LEMMA SubmitKept ==
  ASSUME TypeInvariant, NEW r \in Requests, NEW k \in Keys, Submit(r, k)
  PROVE  RequestKept
<1> DEFINE q == [Idle EXCEPT !.pc = "completed", !.key = k]
<1>1. Idle \in Requested
  BY DocumentGenerationAssumption DEF Idle, Requested, NoInput, Inputs
<1>2. q \in Requested /\ q.key = k
  <2> HIDE DEF Idle, Inputs
  <2> QED BY <1>1 DEF Requested
<1>3. request \in [Requests -> Requested] /\ request' = [request EXCEPT ![r] = q]
  BY RequestTyped DEF Submit
<1> HIDE DEF q, Requested
<1> QED BY <1>2, <1>3 DEF RequestKept, OwnKeys, TypeInvariant

\* The request is loaded with what the contract holds.
LEMMA LoadKept ==
  ASSUME TypeInvariant, NEW r \in Requests, Load(r)
  PROVE  RequestKept
<1>1. CASE Finish(r)
  BY <1>1, IdleKept
<1>2. ASSUME NEW t \in Templates,
             request' = [request EXCEPT ![r].pc = "template", ![r].input = Loaded(t)]
      PROVE  RequestKept
  <2>1. TargetDocument \in Files \cup {None} /\ Len(versions) \in Nat
        /\ Latest.plan \in 0..1 /\ Latest.appendix \in 0..2 /\ facts \in 0..MaxFacts
    BY TargetTyped, VersionsTyped, RowTyped DEF TypeInvariant, TypeOK
  <2>2. Loaded(t) \in Inputs
    BY <2>1 DEF Loaded, Inputs
  <2> QED BY <1>2, <2>2, GotoKept DEF Load, At
<1> QED BY <1>1, <1>2 DEF Load

\* Steps of a request that leave its operation alone.
LEMMA HandleKept ==
  ASSUME TypeInvariant, NEW r \in Requests,
         \/ FindCompleted(r) \/ FindPending(r) \/ Load(r) \/ GetTemplate(r)
         \/ Reserve(r) \/ Upload(r) \/ Complete(r) \/ Bind(r) \/ Crash(r)
  PROVE  RequestKept
<1> DEFINE k == request[r].key
<1>1. request[r].pc # "idle"
  BY DEF FindCompleted, FindPending, Load, GetTemplate, Reserve, Upload, Complete,
         Bind, Crash, At
<1>2. k \in Keys /\ ops[k].input \in Inputs /\ request[r].input \in Inputs
  BY <1>1, RequestTyped
<1>3. CASE Finish(r)
  BY <1>3, IdleKept
<1>4. ASSUME NEW pc \in {"pending", "load", "template", "reserve", "upload", "complete", "bind"},
             \/ Goto(r, pc)
             \/ request' = [request EXCEPT ![r].pc = pc, ![r].input = ops[k].input]
      PROVE  RequestKept
  BY <1>1, <1>2, <1>4, GotoKept
<1> HIDE DEF k
<1>5. CASE FindCompleted(r) \/ FindPending(r)
  BY <1>4, <1>5 DEF FindCompleted, FindPending, k
<1>6. CASE Load(r)
  BY <1>6, LoadKept
<1>7. CASE GetTemplate(r) \/ Reserve(r) \/ Upload(r) \/ Complete(r) \/ Bind(r) \/ Crash(r)
  BY <1>3, <1>4, <1>7 DEF GetTemplate, Reserve, Upload, Complete, Bind, Crash
<1> QED BY <1>5, <1>6, <1>7

\* What a request does to its operation: nothing, a reservation of a key that
\* was free while nothing else was being generated, or its completion.
Reserved(r) ==
    /\ ops[request[r].key].state = "absent" /\ MayReserve(request[r].input)
    /\ ops' = [ops EXCEPT ![request[r].key] =
                  [state |-> "reserved", input |-> request[r].input,
                   seen |-> NewestFile(Len(versions))]]

LEMMA OpsTyped ==
  ASSUME TypeInvariant, NEW r \in Requests, request[r].pc # "idle",
         \/ Reserved(r)
         \/ ops' = [ops EXCEPT ![request[r].key].state = "completed"]
         \/ UNCHANGED ops
  PROVE  ops' \in [Keys -> Operation]
<1> DEFINE k == request[r].key
<1>1. ops \in [Keys -> Operation] /\ k \in Keys /\ request[r].input \in Inputs
  BY RequestTyped DEF TypeInvariant, TypeOK, Operation
<1>2. NewestFile(Len(versions)) \in Files \cup {None}
  BY NewestTyped, VersionsTyped DEF TypeInvariant
<1> HIDE DEF Inputs
<1>3. CASE Reserved(r)
  <2> DEFINE op == [state |-> "reserved", input |-> request[r].input,
                    seen |-> NewestFile(Len(versions))]
  <2>1. op \in Operation
    BY <1>1, <1>2 DEF Operation
  <2> HIDE DEF op, Operation
  <2> QED BY <1>1, <1>3, <2>1 DEF Reserved, op
<1>4. CASE ops' = [ops EXCEPT ![k].state = "completed"]
  <2>1. [ops[k] EXCEPT !.state = "completed"] \in Operation
    BY <1>1 DEF Operation
  <2> QED BY <1>1, <1>4, <2>1
<1> QED BY <1>1, <1>3, <1>4

LEMMA RequestStepTyped ==
  ASSUME TypeInvariant, NEW r \in Requests,
         Handle(r) \/ Crash(r) \/ \E k \in Keys : Submit(r, k)
  PROVE  TypeInvariant'
<1> USE DEF TypeInvariant
<1>1. RequestKept
  BY HandleKept, SubmitKept DEF Handle
<1>2. ops' \in [Keys -> Operation]
  <2>1. CASE UNCHANGED ops
    BY <2>1 DEF TypeOK, Operation
  <2>2. CASE Reserve(r) \/ Complete(r)
    <3>1. request[r].pc # "idle"
      BY <2>2 DEF Reserve, Complete, At
    <3>2. \/ Reserved(r)
          \/ ops' = [ops EXCEPT ![request[r].key].state = "completed"]
          \/ UNCHANGED ops
      BY <2>2 DEF Reserve, Complete, Reserved
    <3> QED BY <3>1, <3>2, OpsTyped
  <2> QED BY <2>1, <2>2
          DEF Handle, FindCompleted, FindPending, Load, GetTemplate, Upload, Bind,
              Crash, Submit
<1>3. files' \subseteq Keys
  <2>1. CASE Upload(r)
    <3>1. request[r].key \in Keys
      BY <2>1, RequestTyped DEF Upload, At
    <3> QED BY <2>1, <3>1 DEF Upload, TypeOK
  <2> QED BY <2>1
          DEF Handle, FindCompleted, FindPending, Load, GetTemplate, Reserve, Complete,
              Bind, Crash, Submit, TypeOK
<1>4. versions' \in Seq(Versions) /\ versions' # <<>>
      /\ status' \in {"draft", "sent", "approved", "signed", "ended"}
  <2>1. CASE UNCHANGED <<versions, status>>
    BY <2>1 DEF TypeOK
  <2>2. CASE Bind(r) /\ versions' = BindVersion(request[r].key) /\ Reopen
    <3>1. request[r].key \in Keys
      BY <2>2, RequestTyped DEF Bind, At
    <3>2. versions' \in Seq(Versions) /\ Len(versions') \in Nat \ {0}
      <4> HIDE DEF Versions
      <4> QED BY <2>2, <3>1, BindChanges, VersionsTyped DEF Extended, Filled
    <3>3. versions' # <<>>
      BY <3>2
    <3> QED BY <2>2, <3>2, <3>3 DEF Reopen, TypeOK
  <2> QED BY <2>1, <2>2
          DEF Handle, FindCompleted, FindPending, Load, GetTemplate, Reserve, Upload,
              Complete, Bind, Crash, Submit, contractVars
<1>5. crashes' \in 0..MaxCrashes
  <2>1. CASE Crash(r)
    BY <2>1, DocumentGenerationAssumption DEF Crash, TypeOK
  <2>2. CASE UNCHANGED crashes
    BY <2>2 DEF TypeOK
  <2> QED BY <2>1, <2>2
          DEF Handle, FindCompleted, FindPending, Load, GetTemplate, Reserve, Upload,
              Complete, Bind, Submit
<1>6. UNCHANGED <<kind, templates, facts, approved>>
  BY DEF Handle, FindCompleted, FindPending, Load, GetTemplate, Reserve, Upload,
         Complete, Bind, Crash, Submit, contractVars
<1> QED BY <1>1, <1>2, <1>3, <1>4, <1>5, <1>6 DEF TypeOK, RequestKept, Operation, Requested

\* The commands of other people.
People ==
    \/ NewVersion \/ ChangeFacts \/ Review \/ Sign \/ End
    \/ \E p \in 0..1 : SetPlan(p)
    \/ \E a \in 0..2 : SetAppendix(a)
    \/ \E x \in Externals : BindExternal(x)
    \/ \E t \in Templates : ValidateTemplate(t) \/ ApproveTemplate(t) \/ RetireTemplate(t)

LEMMA PeopleChanges ==
  ASSUME TypeOK, People
  PROVE  \/ Edited
         \/ NewVersion /\ Extended(None)
         \/ \E x \in Externals : BindExternal(x) /\ (Extended(x) \/ Filled(x))
<1>1. CASE UNCHANGED versions
  BY <1>1, UnchangedEdits
<1>2. CASE Review \/ Sign
  <2>1. \/ UNCHANGED versions
        \/ \E s \in {"approved_for_signing", "signed"} :
              versions' = [versions EXCEPT ![Len(versions)].state = s]
    BY <1>2 DEF Review, Sign
  <2> QED BY <2>1, StateEdits, UnchangedEdits
<1> QED
  BY <1>1, <1>2, NewVersionExtends, SetPlanEdits, SetAppendixEdits, BindExternalChanges
     DEF People, ChangeFacts, End, ValidateTemplate, ApproveTemplate, RetireTemplate

LEMMA PeopleTyped ==
  ASSUME TypeInvariant, People
  PROVE  TypeInvariant'
<1> USE DEF TypeInvariant
<1>1. UNCHANGED <<kind, crashes>> /\ UNCHANGED requestVars
  BY DEF People, NewVersion, ChangeFacts, Review, Sign, End, SetPlan, SetAppendix,
         BindExternal, ValidateTemplate, ApproveTemplate, RetireTemplate
<1>2. versions' \in Seq(Versions) /\ versions' # <<>>
  <2>1. versions' \in Seq(Versions) /\ Len(versions') \in Nat \ {0}
    <3>1. Len(versions) \in Nat \ {0}
      BY VersionsTyped
    <3>2. ASSUME NEW f, Edited \/ Extended(f) \/ Filled(f) PROVE <2>1
      <4> HIDE DEF Versions
      <4> QED BY <3>1, <3>2 DEF Edited, Extended, Filled
    <3> QED BY <3>2, PeopleChanges
  <2> QED BY <2>1
<1>3. status' \in {"draft", "sent", "approved", "signed", "ended"}
  BY DEF People, NewVersion, ChangeFacts, Review, Sign, End, SetPlan, SetAppendix,
         BindExternal, ValidateTemplate, ApproveTemplate, RetireTemplate, Reopen, TypeOK
<1>4. facts' \in 0..MaxFacts
  <2>1. CASE ChangeFacts
    BY <2>1, DocumentGenerationAssumption DEF ChangeFacts, TypeOK
  <2>2. CASE UNCHANGED facts
    BY <2>2 DEF TypeOK
  <2> QED BY <2>1, <2>2
          DEF People, NewVersion, Review, Sign, End, SetPlan, SetAppendix,
              BindExternal, ValidateTemplate, ApproveTemplate, RetireTemplate
<1>5. approved' \in Files \cup {None}
  <2>1. Latest.file \in Files \cup {None}
    BY VersionsTyped, RowTyped
  <2> QED BY <2>1
          DEF People, NewVersion, ChangeFacts, Review, Sign, End, SetPlan, SetAppendix,
              BindExternal, ValidateTemplate, ApproveTemplate, RetireTemplate, TypeOK
<1>6. /\ templates' \in [Templates -> {"draft", "validated", "approved", "retired"}]
      /\ \A t, u \in Templates :
            templates'[t] = "approved" /\ templates'[u] = "approved" => t = u
  <2>1. CASE UNCHANGED templates
    BY <2>1 DEF TypeOK
  <2>2. ASSUME NEW t \in Templates,
               ValidateTemplate(t) \/ ApproveTemplate(t) \/ RetireTemplate(t)
        PROVE  <1>6!1 /\ <1>6!2
    BY <2>2 DEF ValidateTemplate, ApproveTemplate, RetireTemplate, TypeOK
  <2> QED BY <2>1, <2>2
          DEF People, NewVersion, ChangeFacts, Review, Sign, End, SetPlan, SetAppendix,
              BindExternal
<1> QED BY <1>1, <1>2, <1>3, <1>4, <1>5, <1>6 DEF TypeOK, OwnKeys, requestVars

LEMMA NextTyped == TypeInvariant /\ [Next]_genVars => TypeInvariant'
<1> SUFFICES ASSUME TypeInvariant, [Next]_genVars PROVE TypeInvariant'
  OBVIOUS
<1>1. CASE UNCHANGED genVars
  BY <1>1 DEF genVars, TypeInvariant, TypeOK, OwnKeys
<1>2. CASE Next
  BY <1>2, RequestStepTyped, PeopleTyped DEF Next, People
<1> QED BY <1>1, <1>2

-----------------------------------------------------------------------------
(* Safety                                                                    *)

\* A request that uploads has an operation.
OwnOps ==
    \A r \in Requests :
        request[r].pc \in {"upload", "complete"} => ops[request[r].key].state # "absent"

\* A file is bound after its operation is completed.
BoundIsCompleted ==
    \A i \in DOMAIN versions :
        versions[i].file \in Keys => ops[versions[i].file].state = "completed"

\* The preparation of an operation is a version that exists.
PrepInPast ==
    kind \in Original =>
        \A k \in Keys : ops[k].state # "absent" => ops[k].input.prep <= Len(versions)

\* Nobody adds a document while a generation is unfinished, except to a purchase
\* contract; that generation can no longer be bound (PreparationKept).
SeenIsNewest ==
    \A k \in Generating :
        \/ NewestFile(Len(versions)) = ops[k].seen
        \/ kind \in Original /\ ops[k].input.prep < Len(versions)

VersionInvariant ==
    /\ BoundIsCompleted /\ PrepInPast /\ SeenIsNewest
    /\ OneGenerationAtATime /\ BoundOnce /\ NothingUnseenReplaced /\ AppendicesAsGenerated

GenInvariant == TypeInvariant /\ OwnOps /\ ApprovedAsSeen /\ VersionInvariant

\* The list with no version more or less, or with one more.
Grown == /\ versions' \in Seq(Versions)
         /\ Len(versions') = Len(versions) \/ Len(versions') = Len(versions) + 1
         /\ \A i \in 1..Len(versions) :
               versions[i].file # None => versions'[i].file = versions[i].file

LEMMA GrownKeeps ==
  ASSUME TypeOK, Grown
  PROVE  /\ Len(versions) \in Nat \ {0} /\ DOMAIN versions = 1..Len(versions)
         /\ Len(versions') \in Nat \ {0} /\ DOMAIN versions' = 1..Len(versions')
         /\ \A k \in Keys : Bound(k) => Bound(k)'
         /\ UNCHANGED ops => Generating' \subseteq Generating
<1>1. Len(versions) \in Nat \ {0} /\ DOMAIN versions = 1..Len(versions)
  BY VersionsTyped
<1>2. Len(versions') \in Nat \ {0} /\ DOMAIN versions' = 1..Len(versions')
  <2> HIDE DEF Versions
  <2> QED BY <1>1 DEF Grown
<1>3. ASSUME NEW k \in Keys, Bound(k) PROVE Bound(k)'
  <2>1. PICK i \in 1..Len(versions) : versions[i].file = k
    BY <1>1, <1>3 DEF Bound
  <2>2. versions'[i].file = k /\ i \in DOMAIN versions'
    <3>1. k # None
      BY DocumentGenerationAssumption
    <3>2. i \in DOMAIN versions'
      <4>1. \A a, b \in Nat : (b = a \/ b = a + 1) /\ i \in 1..a => i \in 1..b
        OBVIOUS
      <4> QED BY <1>1, <1>2, <4>1 DEF Grown
    <3> QED BY <2>1, <3>1, <3>2 DEF Grown
  <2> QED BY <2>2 DEF Bound
<1>4. UNCHANGED ops => Generating' \subseteq Generating
  BY <1>3 DEF Generating, Unfinished
<1> QED BY <1>1, <1>2, <1>3, <1>4

\* No file changes.
LEMMA EditedSafe ==
  ASSUME TypeOK, VersionInvariant, Edited, UNCHANGED <<kind, ops>>
  PROVE  VersionInvariant'
<1> DEFINE n == Len(versions)
<1>1. Grown
  BY DEF Edited, Grown
<1>2. /\ n \in Nat \ {0} /\ DOMAIN versions = 1..n /\ DOMAIN versions' = 1..n
      /\ Len(versions') = n /\ Generating' \subseteq Generating
      /\ \A i \in 1..n : versions'[i].file = versions[i].file
  BY <1>1, GrownKeeps DEF Edited
<1>3. \A m \in 0..n : NewestFile(m)' = NewestFile(m)
  BY <1>2, NewestKept, NewestIsLast
<1>4. BoundIsCompleted' /\ PrepInPast' /\ BoundOnce'
  BY <1>2 DEF VersionInvariant, BoundIsCompleted, PrepInPast, BoundOnce
<1>5. OneGenerationAtATime'
  BY <1>2 DEF VersionInvariant, OneGenerationAtATime
<1>6. SeenIsNewest'
  <2>1. NewestFile(Len(versions))' = Newest(versions', n) /\ NewestFile(n) = Newest(versions, n)
        /\ NewestFile(n)' = Newest(versions', n)
    BY <1>2, NewestIsLast DEF NewestFile, Newest, With, LastOf
  <2>2. \A k \in Generating' : \/ Newest(versions', n) = ops'[k].seen
                               \/ kind' \in Original /\ ops'[k].input.prep < Len(versions')
    BY <1>2, <1>3, <2>1 DEF VersionInvariant, SeenIsNewest
  <2> QED BY <2>1, <2>2 DEF SeenIsNewest
<1>7. NothingUnseenReplaced'
  <2>1. ASSUME NEW i \in 1..n, versions'[i].file \in Keys
        PROVE  Newest(versions', i - 1) = ops'[versions'[i].file].seen
    BY <1>2, <1>3, <2>1, NewestIsLast DEF VersionInvariant, NothingUnseenReplaced
  <2> QED BY <1>2, <2>1, NewestIsLast DEF NothingUnseenReplaced
<1>8. AppendicesAsGenerated'
  BY <1>2, DocumentGenerationAssumption DEF VersionInvariant, AppendicesAsGenerated, Edited
<1> QED BY <1>4, <1>5, <1>6, <1>7, <1>8 DEF VersionInvariant

\* The last version gets a file, or a version with the file f, or without one,
\* is added.
LEMMA GrownSafe ==
  ASSUME TypeOK, VersionInvariant, UNCHANGED <<kind, ops>>,
         NEW f \in Files \cup {None}, NEW m \in Nat, m = Len(versions'), Grown,
         versions'[m].file = f,
         m = Len(versions) => versions[m].file = None,
         \A i \in 1..(m - 1) : /\ versions'[i].file = versions[i].file
                               /\ versions'[i].appendix = versions[i].appendix,
         f # None => ~Bound(f),
         f \in Keys => /\ ops[f].state = "completed"
                       /\ NewestFile(Len(versions)) = ops[f].seen,
         \A k \in Generating : \/ k = f \/ f = None
                               \/ kind \in Original /\ ops[k].input.prep < m,
         kind \in Original /\ f \in Keys => /\ ops[f].input.prep = m
                                            /\ ops[f].input.appendix = versions'[m].appendix
  PROVE  VersionInvariant'
<1> DEFINE n == Len(versions)
<1>1. /\ n \in Nat \ {0} /\ DOMAIN versions = 1..n
      /\ m = n \/ m = n + 1
      /\ m \in Nat \ {0} /\ m - 1 \in Nat /\ (m - 1) + 1 = m
      /\ \A i \in 1..m : i = m \/ (i \in 1..(m - 1) /\ i \in 1..n)
      /\ DOMAIN versions' = 1..m /\ Generating' \subseteq Generating /\ m # 0
  <2>1. /\ n \in Nat \ {0} /\ DOMAIN versions = 1..n
        /\ DOMAIN versions' = 1..m /\ Generating' \subseteq Generating /\ m \in Nat \ {0}
    BY GrownKeeps
  <2>2. m = n \/ m = n + 1
    BY DEF Grown
  <2> HIDE DEF n
  <2> QED BY <2>1, <2>2
<1> HIDE DEF n
<1>2. f # None => \A i \in 1..(m - 1) : versions'[i].file # f
  BY <1>1 DEF Bound
<1>3. Newest(versions', m - 1) = Newest(versions, n)
  <2>1. Newest(versions', m - 1) = Newest(versions, m - 1)
    BY <1>1, NewestKept
  <2>2. CASE m = n + 1
    BY <1>1, <2>1, <2>2
  <2>3. CASE m = n
    <3>1. m = Len(versions)
      BY <2>3 DEF n
    <3>2. versions[(m - 1) + 1].file = None /\ m - 1 \in Nat
      BY <1>1, <3>1
    <3>3. Newest(versions, (m - 1) + 1) = Newest(versions, m - 1)
      BY <3>2, NewestBefore
    <3> QED BY <1>1, <2>1, <2>3, <3>3
  <2> QED BY <1>1, <2>2, <2>3
<1>4. BoundIsCompleted'
  <2>1. ASSUME NEW i \in 1..m, versions'[i].file \in Keys
        PROVE  ops[versions'[i].file].state = "completed"
    <3>1. CASE i = m
      BY <2>1, <3>1
    <3>2. CASE i # m
      BY <1>1, <2>1, <3>2 DEF VersionInvariant, BoundIsCompleted
    <3> QED BY <3>1, <3>2
  <2> QED BY <1>1, <2>1 DEF BoundIsCompleted
<1>5. PrepInPast'
  <2>1. ASSUME kind \in Original, NEW k \in Keys, ops[k].state # "absent"
        PROVE  ops[k].input.prep <= m
    <3>1. ops[k].input.prep \in Nat /\ ops[k].input.prep <= n
      BY <2>1 DEF VersionInvariant, PrepInPast, TypeOK, Inputs, n
    <3> QED BY <1>1, <3>1
  <2> QED BY <2>1 DEF PrepInPast
<1>6. OneGenerationAtATime'
  BY <1>1 DEF VersionInvariant, OneGenerationAtATime
<1>7. BoundOnce'
  <2>1. ASSUME NEW i \in 1..m, NEW j \in 1..m,
               versions'[i].file = versions'[j].file, versions'[i].file # None
        PROVE  i = j
    <3>1. CASE i = m \/ j = m
      BY <1>1, <1>2, <2>1, <3>1
    <3>2. CASE i # m /\ j # m
      BY <1>1, <2>1, <3>2 DEF VersionInvariant, BoundOnce
    <3> QED BY <3>1, <3>2
  <2> QED BY <1>1, <2>1 DEF BoundOnce
<1>8. SeenIsNewest'
  <2>1. NewestFile(Len(versions))' = Newest(versions', m) /\ NewestFile(n) = Newest(versions, n)
    BY NewestIsLast DEF NewestFile, Newest, With, LastOf, n
  <2>2. ASSUME NEW k \in Generating'
        PROVE  \/ Newest(versions', m) = ops[k].seen
               \/ kind \in Original /\ ops[k].input.prep < m
    <3>1. k \in Generating /\ k \in Keys /\ ops[k].input.prep \in Nat
      BY <1>1, <2>2 DEF Generating, TypeOK, Inputs
    <3>2. CASE k = f
      <4>1. m \in DOMAIN versions' /\ versions'[m].file = f
        BY <1>1
      <4>2. ~Unfinished(f)'
        BY <3>1, <3>2, <4>1 DEF Unfinished, Bound
      <4> QED BY <2>2, <3>2, <4>2 DEF Generating
    <3>3. CASE f = None
      <4>1. Newest(versions', (m - 1) + 1) = Newest(versions', m - 1)
        <5>1. versions'[(m - 1) + 1].file = None /\ m - 1 \in Nat
          BY <1>1, <3>3
        <5> QED BY <5>1, NewestBefore
      <4>2. Newest(versions', m) = Newest(versions, n)
        BY <1>1, <1>3, <4>1
      <4>3. \/ NewestFile(n) = ops[k].seen
            \/ kind \in Original /\ ops[k].input.prep < n
        BY <3>1 DEF VersionInvariant, SeenIsNewest, n
      <4>4. ops[k].input.prep < n => ops[k].input.prep < m
        BY <1>1, <3>1
      <4> QED BY <2>1, <4>2, <4>3, <4>4
    <3> QED BY <3>1, <3>2, <3>3
  <2> QED BY <2>1, <2>2 DEF SeenIsNewest
<1>9. NothingUnseenReplaced'
  <2>1. ASSUME NEW i \in 1..m, versions'[i].file \in Keys
        PROVE  Newest(versions', i - 1) = ops[versions'[i].file].seen
    <3>1. CASE i = m
      BY <1>3, <2>1, <3>1, NewestIsLast DEF n
    <3>2. CASE i # m
      <4>1. i \in 1..n /\ versions[i].file = versions'[i].file
        BY <1>1, <3>2
      <4>2. NewestFile(i - 1) = ops[versions'[i].file].seen
        BY <1>1, <2>1, <4>1 DEF VersionInvariant, NothingUnseenReplaced
      <4>3. Newest(versions', i - 1) = Newest(versions, i - 1)
        <5>1. i - 1 \in Nat /\ \A j \in 1..(i - 1) : j \in 1..(m - 1)
          BY <1>1, <3>2
        <5> QED BY <5>1, NewestKept
      <4> QED BY <4>2, <4>3, NewestIsLast
    <3> QED BY <3>1, <3>2
  <2> QED BY <1>1, <2>1, NewestIsLast DEF NothingUnseenReplaced
<1>10. AppendicesAsGenerated'
  <2>1. ASSUME NEW i \in 1..m, kind \in Original, versions'[i].file \in Keys
        PROVE  /\ ops[versions'[i].file].input.prep = i
               /\ ops[versions'[i].file].input.appendix = versions'[i].appendix
    <3>1. CASE i = m
      BY <2>1, <3>1
    <3>2. CASE i # m
      BY <1>1, <2>1, <3>2 DEF VersionInvariant, AppendicesAsGenerated
    <3> QED BY <3>1, <3>2
  <2> QED BY <1>1, <2>1 DEF AppendicesAsGenerated
<1> QED BY <1>4, <1>5, <1>6, <1>7, <1>8, <1>9, <1>10 DEF VersionInvariant

LEMMA OneMore ==
  ASSUME TypeOK, NEW f, Extended(f)
  PROVE  /\ Len(versions') = Len(versions) + 1 /\ Len(versions') \in Nat
         /\ Len(versions') # Len(versions) /\ Len(versions') - 1 = Len(versions)
<1>1. Len(versions) \in Nat /\ Len(versions') = Len(versions) + 1
  BY VersionsTyped DEF Extended
<1>2. \A a \in Nat : a + 1 \in Nat /\ a + 1 # a /\ (a + 1) - 1 = a
  OBVIOUS
<1> QED BY <1>1, <1>2

\* A generation is bound only where it was prepared, after its completion.
LEMMA BindSafe ==
  ASSUME GenInvariant, NEW r \in Requests, Bind(r)
  PROVE  VersionInvariant'
<1> DEFINE k == request[r].key
<1> USE DEF GenInvariant, TypeInvariant
<1>1. UNCHANGED <<kind, ops>>
  BY DEF Bind
<1>2. CASE UNCHANGED versions
  BY <1>1, <1>2, UnchangedEdits, EditedSafe
<1>3. CASE MayBind(k) /\ versions' = BindVersion(k)
  <2>1. k \in Keys /\ k \in Files /\ k # None
    BY RequestTyped, DocumentGenerationAssumption DEF Bind, At, Files
  <2>2. ops[k].state = "completed" /\ ~Bound(k) /\ PreparationKept(k) /\ k \in Generating
    BY <1>3, <2>1 DEF MayBind, Generating, Unfinished
  <2>3. \A j \in Generating : j = k
    BY <2>2 DEF VersionInvariant, OneGenerationAtATime
  <2>4. kind \in Original => InPlace /\ ops[k].input.prep = Len(versions)
                             /\ ops[k].input.appendix = Latest.appendix
    BY <2>2 DEF PreparationKept
  <2>5. NewestFile(Len(versions)) = ops[k].seen
    <3>1. kind \in Original => ~ (ops[k].input.prep < Len(versions))
      BY <2>4, VersionsTyped
    <3> QED BY <2>2, <3>1 DEF VersionInvariant, SeenIsNewest
  <2>6. (Extended(k) /\ ~InPlace) \/ (Filled(k) /\ InPlace)
    BY <1>3, <2>1, BindChanges
  <2> HIDE DEF k
  <2>7. CASE Extended(k) /\ ~InPlace
    <3> DEFINE m == Len(versions')
    <3>1. m = Len(versions) + 1 /\ m \in Nat /\ m # Len(versions) /\ m - 1 = Len(versions)
      BY <2>7, OneMore
    <3>2. Grown
      BY <2>7 DEF Extended, Grown
    <3>3. /\ versions'[m].file = k
          /\ \A i \in 1..(m - 1) : /\ versions'[i].file = versions[i].file
                                   /\ versions'[i].appendix = versions[i].appendix
      BY <2>7, <3>1 DEF Extended
    <3>4. ~(kind \in Original /\ k \in Keys)
      BY <2>4, <2>7
    <3>5. m = Len(versions) => versions[m].file = None
      BY <3>1
    <3>6. m \in Nat /\ m = Len(versions')
      BY <3>1
    <3>7. \A j \in Generating : \/ j = k \/ k = None
                                \/ kind \in Original /\ ops[j].input.prep < m
      BY <2>3
    <3> HIDE DEF m
    <3> QED BY <1>1, <2>1, <2>2, <2>5, <3>2, <3>3, <3>4, <3>5, <3>6, <3>7, GrownSafe
  <2>8. CASE Filled(k) /\ InPlace
    <3> DEFINE m == Len(versions')
    <3>1. m = Len(versions) /\ m \in Nat \ {0}
      BY <2>8, VersionsTyped DEF Filled
    <3>2. Grown
      BY <2>8, VersionsTyped DEF Filled, Grown
    <3>3. /\ versions'[m].file = k /\ versions[m].file = None
          /\ versions'[m].appendix = Latest.appendix
          /\ \A i \in 1..(m - 1) : /\ versions'[i].file = versions[i].file
                                   /\ versions'[i].appendix = versions[i].appendix
      <4>1. \A i \in 1..(m - 1) : i \in 1..m /\ i # m
        BY <3>1
      <4> QED BY <2>8, <3>1, <4>1, VersionsTyped DEF Filled
    <3> HIDE DEF m
    <3> QED BY <1>1, <2>1, <2>2, <2>3, <2>4, <2>5, <3>1, <3>2, <3>3, GrownSafe DEF m
  <2> QED BY <2>6, <2>7, <2>8
<1> QED BY <1>2, <1>3 DEF Bind

\* What other people do to the versions.
LEMMA PeopleVersions ==
  ASSUME GenInvariant, People
  PROVE  VersionInvariant'
<1> USE DEF GenInvariant, TypeInvariant
<1>1. UNCHANGED <<kind, ops>>
  BY DEF People, NewVersion, ChangeFacts, Review, Sign, End, SetPlan, SetAppendix,
         BindExternal, ValidateTemplate, ApproveTemplate, RetireTemplate, requestVars
<1>2. CASE Edited
  BY <1>1, <1>2, EditedSafe
<1>3. CASE NewVersion /\ Extended(None)
  <2> DEFINE m == Len(versions')
  <2>1. m = Len(versions) + 1 /\ m \in Nat /\ m # Len(versions) /\ m - 1 = Len(versions)
    BY <1>3, OneMore
  <2>2. Grown
    BY <1>3 DEF Extended, Grown
  <2>3. /\ versions'[m].file = None
        /\ \A i \in 1..(m - 1) : /\ versions'[i].file = versions[i].file
                                 /\ versions'[i].appendix = versions[i].appendix
    BY <1>3, <2>1 DEF Extended
  <2>4. None \notin Keys
    BY DocumentGenerationAssumption
  <2> HIDE DEF m
  <2> QED BY <1>1, <2>1, <2>2, <2>3, <2>4, GrownSafe DEF m
<1>4. ASSUME NEW x \in Externals, BindExternal(x) PROVE VersionInvariant'
  <2>1. x \in Files /\ x \notin Keys /\ ~Bound(x)
    BY <1>4, DocumentGenerationAssumption DEF Files, BindExternal
  <2>2. \A k \in Generating : kind \in Original
    BY <1>4 DEF BindExternal, Settled, Original, Generating
  <2>3. \A k \in Generating : ops[k].input.prep \in Nat /\ ops[k].input.prep <= Len(versions)
    <3>1. \A k \in Generating : k \in Keys /\ ops[k].state # "absent"
      BY DEF Generating, Unfinished
    <3> QED BY <2>2, <3>1 DEF VersionInvariant, PrepInPast, TypeOK, Inputs
  <2>4. CASE Extended(x)
    <3> DEFINE m == Len(versions')
    <3>1. m = Len(versions) + 1 /\ m \in Nat /\ m # Len(versions) /\ m - 1 = Len(versions)
      BY <2>4, OneMore
    <3>2. Grown
      BY <2>4 DEF Extended, Grown
    <3>3. /\ versions'[m].file = x
          /\ \A i \in 1..(m - 1) : /\ versions'[i].file = versions[i].file
                                   /\ versions'[i].appendix = versions[i].appendix
      BY <2>4, <3>1 DEF Extended
    <3>4. ASSUME NEW k \in Generating PROVE ops[k].input.prep < m
      <4>1. \A p, a \in Nat : p <= a => p < a + 1
        OBVIOUS
      <4> QED BY <2>3, <3>1, <4>1, VersionsTyped
    <3> HIDE DEF m
    <3> QED BY <1>1, <2>1, <2>2, <3>1, <3>2, <3>3, <3>4, GrownSafe DEF m
  <2>5. CASE /\ Filled(x) /\ Len(versions) = 1
             /\ \A k \in Generating : ops[k].input.prep # 1
    <3> DEFINE m == Len(versions')
    <3>1. m = Len(versions) /\ m = 1
      BY <2>5 DEF Filled
    <3>2. Grown
      BY <2>5, VersionsTyped DEF Filled, Grown
    <3>3. /\ versions'[m].file = x /\ versions[m].file = None
          /\ \A i \in 1..(m - 1) : /\ versions'[i].file = versions[i].file
                                   /\ versions'[i].appendix = versions[i].appendix
      BY <2>5, <3>1 DEF Filled
    <3>4. ASSUME NEW k \in Generating PROVE ops[k].input.prep < m
      <4>1. \A p \in Nat : p <= 1 /\ p # 1 => p < 1
        OBVIOUS
      <4> QED BY <2>3, <2>5, <3>1, <4>1
    <3> HIDE DEF m
    <3> QED BY <1>1, <2>1, <2>2, <3>1, <3>2, <3>3, <3>4, GrownSafe DEF m
  <2> QED BY <1>4, <2>4, <2>5, BindExternalChanges
<1> QED BY <1>2, <1>3, <1>4, PeopleChanges

\* A key is reserved when nothing is being generated.
LEMMA ReservedSafe ==
  ASSUME GenInvariant, NEW r \in Requests, request[r].pc # "idle",
         Reserved(r), UNCHANGED <<kind, versions>>
  PROVE  VersionInvariant'
<1> DEFINE k == request[r].key
<1> USE DEF GenInvariant, TypeInvariant
<1>1. k \in Keys /\ ops[k].state = "absent" /\ Generating = {}
  BY RequestTyped DEF Reserved, MayReserve
<1>2. /\ ops'[k].state = "reserved" /\ ops'[k].input = request[r].input
      /\ ops'[k].seen = NewestFile(Len(versions))
      /\ \A j \in Keys : j # k => ops'[j] = ops[j]
  BY <1>1 DEF Reserved, TypeOK
<1>3. \A i \in DOMAIN versions : versions[i].file # k
  BY <1>1 DEF VersionInvariant, BoundIsCompleted
<1>4. kind \in Original => request[r].input.prep = Len(versions)
  BY DEF Reserved, MayReserve, SamePreparation
<1> HIDE DEF k
<1>5. \A j \in Generating' : j = k
  <2>1. ASSUME NEW j \in Keys, j # k PROVE Unfinished(j)' => Unfinished(j)
    BY <1>2, <2>1 DEF Unfinished, Bound
  <2> QED BY <1>1, <2>1 DEF Generating
<1>6. BoundIsCompleted' /\ BoundOnce'
  BY <1>2, <1>3 DEF VersionInvariant, BoundIsCompleted, BoundOnce
<1>7. PrepInPast'
  <2>1. Len(versions) \in Nat
    BY VersionsTyped
  <2>2. ASSUME kind \in Original, NEW j \in Keys, ops'[j].state # "absent"
        PROVE  ops'[j].input.prep <= Len(versions)
    <3>1. CASE j = k
      BY <1>2, <1>4, <2>1, <2>2, <3>1
    <3>2. CASE j # k
      BY <1>2, <2>2, <3>2 DEF VersionInvariant, PrepInPast
    <3> QED BY <3>1, <3>2
  <2> QED BY <2>2 DEF PrepInPast
<1>8. OneGenerationAtATime'
  BY <1>5 DEF OneGenerationAtATime
<1>9. \A m : NewestFile(m)' = NewestFile(m)
  BY NewestIsLast
<1>10. SeenIsNewest'
  <2>1. NewestFile(Len(versions))' = NewestFile(Len(versions))
    BY DEF NewestFile
  <2> QED BY <1>2, <1>5, <2>1 DEF SeenIsNewest
<1>11. NothingUnseenReplaced'
  <2>1. ASSUME NEW i \in DOMAIN versions, versions[i].file \in Keys
        PROVE  Newest(versions, i - 1) = ops'[versions[i].file].seen
    BY <1>2, <1>3, <2>1, NewestIsLast DEF VersionInvariant, NothingUnseenReplaced
  <2> QED BY <2>1, NewestIsLast DEF NothingUnseenReplaced
<1>12. AppendicesAsGenerated'
  BY <1>2, <1>3 DEF VersionInvariant, AppendicesAsGenerated
<1> QED BY <1>6, <1>7, <1>8, <1>10, <1>11, <1>12 DEF VersionInvariant

LEMMA CompleteSafe ==
  ASSUME GenInvariant, NEW r \in Requests, Complete(r)
  PROVE  VersionInvariant'
<1> DEFINE k == request[r].key
<1> USE DEF GenInvariant, TypeInvariant
<1>1. k \in Keys /\ ops[k].state # "absent" /\ UNCHANGED <<kind, versions>>
  BY RequestTyped DEF Complete, At, OwnOps, contractVars
<1>2. /\ ops'[k].state = "completed"
      /\ \A j \in Keys : /\ ops'[j].input = ops[j].input /\ ops'[j].seen = ops[j].seen
                         /\ j # k => ops'[j].state = ops[j].state
  BY <1>1 DEF Complete, TypeOK
<1> HIDE DEF k
<1>3. Generating' \subseteq Generating
  <2>1. ASSUME NEW j \in Keys, Unfinished(j)' PROVE Unfinished(j)
    <3>1. ops[j].state \in {"absent", "reserved", "completed"}
      BY DEF TypeOK
    <3> QED BY <1>1, <1>2, <2>1, <3>1 DEF Unfinished, Bound
  <2> QED BY <2>1 DEF Generating
<1>4. BoundIsCompleted' /\ BoundOnce' /\ AppendicesAsGenerated'
  BY <1>1, <1>2 DEF VersionInvariant, BoundIsCompleted, BoundOnce, AppendicesAsGenerated
<1>5. PrepInPast'
  BY <1>1, <1>2 DEF VersionInvariant, PrepInPast
<1>6. OneGenerationAtATime'
  BY <1>3 DEF VersionInvariant, OneGenerationAtATime
<1>7. SeenIsNewest'
  <2>1. NewestFile(Len(versions))' = NewestFile(Len(versions))
    BY <1>1 DEF NewestFile
  <2>2. \A j \in Generating : j \in Keys
    BY DEF Generating
  <2> QED BY <1>1, <1>2, <1>3, <2>1, <2>2 DEF VersionInvariant, SeenIsNewest
<1>8. NothingUnseenReplaced'
  <2>1. ASSUME NEW i \in DOMAIN versions, versions[i].file \in Keys
        PROVE  Newest(versions, i - 1) = ops'[versions[i].file].seen
    BY <1>2, <2>1, NewestIsLast DEF VersionInvariant, NothingUnseenReplaced
  <2> QED BY <1>1, <2>1, NewestIsLast DEF NothingUnseenReplaced
<1> QED BY <1>4, <1>5, <1>6, <1>7, <1>8 DEF VersionInvariant

\* Every step of a request.
LEMMA RequestSafe ==
  ASSUME GenInvariant, NEW r \in Requests,
         Handle(r) \/ Crash(r) \/ \E k \in Keys : Submit(r, k)
  PROVE  OwnOps' /\ ApprovedAsSeen' /\ VersionInvariant'
<1> USE DEF GenInvariant
<1>1. VersionInvariant'
  <2>1. CASE UNCHANGED <<kind, versions, ops>>
    BY <2>1, UnchangedEdits, EditedSafe DEF TypeInvariant
  <2>2. CASE Reserve(r)
    <3>1. Reserved(r) \/ UNCHANGED ops
      BY <2>2 DEF Reserve, Reserved
    <3>2. request[r].pc # "idle" /\ UNCHANGED <<kind, versions>>
      BY <2>2 DEF Reserve, At, contractVars
    <3> QED BY <2>1, <3>1, <3>2, ReservedSafe
  <2> QED BY <2>1, <2>2, CompleteSafe, BindSafe
          DEF Handle, FindCompleted, FindPending, Load, GetTemplate, Upload, Crash,
              Submit, contractVars
<1>2. ApprovedAsSeen'
  <2>1. CASE UNCHANGED <<status, versions, approved>>
    BY <2>1 DEF ApprovedAsSeen, Latest
  <2>2. CASE Bind(r)
    <3>1. \/ UNCHANGED <<status, versions, approved>>
          \/ Open /\ Reopen
      BY <2>2 DEF Bind, MayBind
    <3> QED BY <2>1, <3>1 DEF Open, Reopen, ApprovedAsSeen
  <2> QED BY <2>1, <2>2
          DEF Handle, FindCompleted, FindPending, Load, GetTemplate, Reserve, Upload,
              Complete, Crash, Submit, contractVars
<1>3. OwnOps'
  <2> DEFINE k == request[r].key
  <2>1. \A q \in Requests : q # r => request'[q] = request[q]
    BY RequestTyped
       DEF Handle, FindCompleted, FindPending, Load, GetTemplate, Reserve, Upload,
           Complete, Bind, Crash, Submit, Goto, Finish
  <2>2. \A j \in Keys : ops[j].state # "absent" => ops'[j].state # "absent"
    <3>1. CASE UNCHANGED ops
      BY <3>1
    <3>2. CASE Reserve(r) \/ Complete(r)
      BY <3>2, RequestTyped DEF Reserve, Complete, TypeInvariant, TypeOK
    <3> QED BY <3>1, <3>2
            DEF Handle, FindCompleted, FindPending, Load, GetTemplate, Upload, Bind,
                Crash, Submit
  <2>3. request'[r].pc \in {"upload", "complete"} =>
           request'[r].key \in Keys /\ ops'[request'[r].key].state # "absent"
    <3>1. CASE Reserve(r)
      <4>1. request[r].key \in Keys
        BY <3>1, RequestTyped DEF Reserve, At
      <4> QED BY <3>1, <4>1, RequestTyped
              DEF Reserve, At, Goto, Finish, Idle, Requested, TypeInvariant, TypeOK
    <3>2. CASE Upload(r)
      <4>1. request[r].key \in Keys /\ ops[request[r].key].state # "absent"
        BY <3>2, RequestTyped DEF Upload, At, OwnOps
      <4> QED BY <2>2, <3>2, <4>1, RequestTyped
              DEF Upload, Goto, Finish, Idle, Requested
    <3>3. CASE FindCompleted(r) \/ FindPending(r) \/ Load(r)
      BY <3>3, RequestTyped
         DEF FindCompleted, FindPending, Load, Goto, Finish, Idle, Requested
    <3>4. CASE GetTemplate(r) \/ Complete(r) \/ Bind(r) \/ Crash(r)
      BY <3>4, RequestTyped
         DEF GetTemplate, Complete, Bind, Crash, Goto, Finish, Idle, Requested
    <3>5. CASE \E j \in Keys : Submit(r, j)
      BY <3>5, RequestTyped DEF Submit, Idle, Requested
    <3> QED BY <3>1, <3>2, <3>3, <3>4, <3>5 DEF Handle
  <2> QED BY <2>1, <2>2, <2>3 DEF OwnOps, TypeInvariant, OwnKeys
<1> QED BY <1>1, <1>2, <1>3

\* The newest version keeps its file while its state or preparation changes.
LEMMA LatestKept ==
  ASSUME TypeOK, Edited
  PROVE  Latest'.file = Latest.file
<1>1. Latest'.file = versions'[Len(versions)].file
  BY DEF Edited, Latest, Last
<1>2. Len(versions) \in 1..Len(versions)
  BY VersionsTyped
<1> QED BY <1>1, <1>2, VersionsTyped DEF Edited

LEMMA PeopleSafe ==
  ASSUME GenInvariant, People
  PROVE  OwnOps' /\ ApprovedAsSeen' /\ VersionInvariant'
<1> USE DEF GenInvariant
<1>1. VersionInvariant'
  BY PeopleVersions
<1>2. OwnOps'
  BY DEF People, NewVersion, ChangeFacts, Review, Sign, End, SetPlan, SetAppendix,
         BindExternal, ValidateTemplate, ApproveTemplate, RetireTemplate, requestVars,
         OwnOps
<1>3. ApprovedAsSeen'
  <2>1. CASE NewVersion \/ \E x \in Externals : BindExternal(x)
    BY <2>1 DEF NewVersion, BindExternal, Open, Reopen, ApprovedAsSeen
  <2>2. CASE Edited
    <3>1. \/ status' \notin {"approved", "signed"}
          \/ status' = "approved" /\ approved' = Latest.file
          \/ status \in {"approved", "signed"} /\ UNCHANGED approved
      BY <2>1
         DEF People, NewVersion, ChangeFacts, Review, Sign, End, SetPlan, SetAppendix,
             BindExternal, ValidateTemplate, ApproveTemplate, RetireTemplate, Open, Reopen
    <3> QED BY <2>2, <3>1, LatestKept DEF TypeInvariant, ApprovedAsSeen
  <2> QED BY <2>1, <2>2, PeopleChanges DEF TypeInvariant
<1> QED BY <1>1, <1>2, <1>3

LEMMA InitSafe == Init => GenInvariant
<1> SUFFICES ASSUME Init PROVE GenInvariant
  OBVIOUS
<1>1. TypeInvariant
  BY InitTyped
<1>2. Generating = {}
  BY DEF Init, NoOp, Generating, Unfinished
<1>3. \A i \in DOMAIN versions : versions[i].file = None
  BY DEF Init, Draft
<1>4. None \notin Keys
  BY DocumentGenerationAssumption
<1>5. DOMAIN versions = {1}
  BY DEF Init
<1>6. OwnOps /\ ApprovedAsSeen /\ PrepInPast
  BY DEF Init, OwnOps, ApprovedAsSeen, PrepInPast, Idle, NoOp
<1> QED
  BY <1>1, <1>2, <1>3, <1>4, <1>5, <1>6
     DEF GenInvariant, VersionInvariant, BoundIsCompleted, SeenIsNewest,
         OneGenerationAtATime, BoundOnce, NothingUnseenReplaced, AppendicesAsGenerated

LEMMA NextSafe == GenInvariant /\ [Next]_genVars => GenInvariant'
<1> SUFFICES ASSUME GenInvariant, [Next]_genVars PROVE GenInvariant'
  OBVIOUS
<1>1. TypeInvariant'
  BY NextTyped DEF GenInvariant
<1>2. CASE UNCHANGED genVars
  <2>1. VersionInvariant'
    BY <1>2, UnchangedEdits, EditedSafe DEF GenInvariant, TypeInvariant, genVars
  <2>2. OwnOps' /\ ApprovedAsSeen'
    BY <1>2 DEF GenInvariant, genVars, OwnOps, ApprovedAsSeen, Latest
  <2> QED BY <1>1, <2>1, <2>2 DEF GenInvariant
<1>3. CASE Next
  <2>1. OwnOps' /\ ApprovedAsSeen' /\ VersionInvariant'
    BY <1>3, RequestSafe, PeopleSafe DEF Next, People
  <2> QED BY <1>1, <2>1 DEF GenInvariant
<1> QED BY <1>2, <1>3

LEMMA GenInvariantCorrect == Spec => []GenInvariant
BY InitSafe, NextSafe, PTL DEF Spec

-----------------------------------------------------------------------------
(* Theorems                                                                  *)

\* Types, and one approved version of the template at a time, although versions
\* are validated, approved and retired in any order.
THEOREM TypeCorrect == Spec => []TypeOK
<1>1. GenInvariant => TypeOK
  BY DEF GenInvariant, TypeInvariant
<1> QED BY <1>1, GenInvariantCorrect, PTL

\* At most one generation of the contract is unfinished, for any number of keys
\* and of requests that run, crash and are repeated.
THEOREM OneGenerationCorrect == Spec => []OneGenerationAtATime
<1>1. GenInvariant => OneGenerationAtATime
  BY DEF GenInvariant, VersionInvariant
<1> QED BY <1>1, GenInvariantCorrect, PTL

\* No file becomes a version twice.
THEOREM BoundOnceCorrect == Spec => []BoundOnce
<1>1. GenInvariant => BoundOnce
  BY DEF GenInvariant, VersionInvariant
<1> QED BY <1>1, GenInvariantCorrect, PTL

\* A generated version replaces what was the newest document when its operation
\* was reserved, whatever was uploaded, versioned or changed since.
THEOREM NothingUnseenCorrect == Spec => []NothingUnseenReplaced
<1>1. GenInvariant => NothingUnseenReplaced
  BY DEF GenInvariant, VersionInvariant
<1> QED BY <1>1, GenInvariantCorrect, PTL

\* An approved or signed contract carries the file its approval was about.
THEOREM ApprovedCorrect == Spec => []ApprovedAsSeen
<1>1. GenInvariant => ApprovedAsSeen
  BY DEF GenInvariant
<1> QED BY <1>1, GenInvariantCorrect, PTL

\* A generated version keeps the appendices frozen by its generation.
THEOREM AppendicesCorrect == Spec => []AppendicesAsGenerated
<1>1. GenInvariant => AppendicesAsGenerated
  BY DEF GenInvariant, VersionInvariant
<1> QED BY <1>1, GenInvariantCorrect, PTL
=============================================================================
