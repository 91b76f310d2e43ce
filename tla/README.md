# Formal model of DeveloCRM

DeveloCRM is a CRM for property developers. PostgreSQL holds the state; the
commands of the domain are SQL functions under `src/backend/migrations/` (the
last definition of a function counts), a TypeScript API calls them, and a Next.js
application calls the API. This directory holds TLA+ models of the parts where
several users, jobs and clocks meet, the TLC runs that check them and the proofs
that TLAPS checks.

## The system

| Component | State | Operations | What is hard | What makes it correct |
| --- | --- | --- | --- | --- |
| Unit sales workflow (`0056`, `0057`, `0060`, `0062`, `0066`, `0073`, `0075`, `0082`) | `units.commercial_status`, `unit_holds`, `sales_cases`, `contracts`, `unit_handovers` | hold: create, cancel, expire, convert; contract: create, new version, advance, sign, end; block, unblock; handover: schedule, complete, cancel | commands of many users in any order, dates compared with a `now()` older than the lock, repeated signatures, releases assessed once | a unit under a signature is never offered; a release leaves nothing behind; history stays |
| Next contract action, consistency checker (`shared/next-contract-action.ts`, `diagnostics/`) | none of their own | the label, the progress and the next contract of a sale; a list of findings | they are computed from contracts, the status is kept by commands | what is shown is true; every finding has a cause |
| Hold expiry job (`sales/hold-expiry-job.ts`) | none of its own | scan up to 100 lapsed holds, then one transaction per hold | races with signatures, holds that will never expire filling the batch | every lapsed hold that may expire does |
| Payments (`0014`, `0022`, `0035`, `0043`, `0048`, `0060`, `0066`, `payments/`) | obligations, transactions with one allocation each, reversals, payment terms, refund decisions | record, reverse, decide a refund, refund, materialize at signature and at the final notice | retries, ids shared by two units, reversals without a lock, a contract ending meanwhile | money is counted once and never above the obligation; what was received is decided on |
| Contract readiness, payment plans (`contracts/`, `documents/`) | `contract_versions.payment_terms_snapshot` | validate a draft, prepare its terms, prepare a legacy RS, make a new version | facts, versions and stages change between the freezing of the terms and the document | what is ready can be printed, and what is reported can be put right |
| Document upload and binding (`documents/upload-service.ts`, `document-evidence-service.ts`, `0050`, `0057`, `0083`) | operation rows here, files in SharePoint | reserve, upload, record, finalize, bind to a contract, verify, sign | a crash, a retry or a late answer between the database and SharePoint | a signed contract keeps the document it was signed with |
| Document generation, templates (`documents/template-*`, `rs-generation-*`, `0064`, `0069`, `0073`, `0083`) | generation operations, template versions, contract versions | request, reserve, upload, complete, bind; validate, approve, retire a template version | a request that overlaps its own repetition, a version, an approval or a signature | each generation is bound once and replaces nothing unseen |
| Media (`app/api/media/`, `media-repository.ts`) | sessions, parts and files in an object store, `media_assets` | upload in parts, finish, register, cancel | four places written one after the other, answers that get lost | a registered picture has its file, and the user is told the truth |
| Contract assignment (`0056`) | an assignment contract and the buyers of a live case | create, sign | the case changes its buyers while other contracts live | a sale has one set of buyers, the signed ones |
| Appendices (`0068`-`0070`, `0080`, `0081`) | appendix slots of a contract version | attach, replace, freeze | a version is signed meanwhile | signed appendices do not change |
| Client changes, complaints, tasks | a status each | status transitions | repetitions | a transition is recorded once |
| Inventory, accessories, prices (`0002`, `0004`, `0031`, `0032`, `inventory/`) | units, assignments, price history | assign, remove, reprice, import | overlapping validity | one owner per accessory, one price per time |
| Identity and access (`iam/`, `auth/`) | memberships, roles | grant, revoke | revocation during a session | permissions are guards of every command |
| Parties, outbox, audit, SharePoint synchronization, migrations, front end, worker | | | | see "Not modelled" |

The components meet in the database. A command of the sales workflow begins with
`app.lock_workflow_unit`, so the commands of one unit are serial; uploads,
generations and payments use locks of their own. Files are in SharePoint
(documents) and in an object store (pictures), which no transaction covers. Every
command appends to `audit_log` and `outbox_events`, whose consumers are not in
this repository.

`PROJECT.json` lists each component with its status, and each hazard at its line.

## The modules

```
UnitOffer  <--refines--  UnitSales  <--reads--  UnitReports  <-- MCUnitSales
                         the sale of one unit    what is shown of it
HoldExpiryJob            many units, the commands of UnitSales reduced to a hold
Payments                 the money of one sale
ContractReadiness        one draft before its document is generated
DocumentGeneration       from the request to the bound version; its upload, one
                         step there, is the subject of
DocumentUpload           one file from the request to the signature
MediaUpload              one picture
```

A `...Proofs` module extends the module it is about.

- `UnitSales` models the sale of one unit. `unit`, `holds`, `cases`, `contracts`,
  `planned` and `handedOver` are the tables above, `now` is the database clock.
  One action is one SQL function, with the triggers it fires:

  | Action | Code |
  | --- | --- |
  | `CreateUnitHold`, `CancelUnitHold`, `ExpireUnitHold` | `create_unit_hold`, `cancel_unit_hold`, `expire_unit_hold` with `close_released_pre_reservation_case` (`0075`) |
  | `CreateContract` | `create_contract` (`0056`) under the guard of `CommercialService.createContract` |
  | `CreateContractVersion` | `create_contract_version` (`0073`) |
  | `AdvanceContract`, `EndContract` | `transition_contract_status` and `synchronize_ended_contract` (`0060`) with `contract_end_release_assessment` (`0062`) |
  | `SignContractExternally`, `RecordContractPartySignature` | `0066`, `0057`, with `synchronize_signed_contract` and `ensure_signed_rs_reservation` (`0056`) |
  | `BlockUnit`, `UnblockUnit` | `CommercialStatusService` |
  | `ScheduleUnitHandover`, `CompleteHandover`, `CancelHandover` | `0034`, `0036` |

  `UnitCommand` is the table of `transition_unit_commercial_status` (`0062`) with
  the trigger on `units`; every status change goes through it.
  `convert_pre_reservation` is the predicate `ConvertPreReservationEnabled`: a run
  shows that no reachable state satisfies it, so it has no action.

  Time. An action carries the `t` that its SQL sees as `now()`: the start of its
  transaction, at most `MaxWait` before the clock, because the transaction may
  have waited for the unit's lock. The isolation is READ COMMITTED, so everything
  else is read after the lock.

  Left out of the state: the rows that no command of the workflow reads back
  (events, audit, outbox, interests), permissions (each is assumed held),
  co-buyers (the primary buyer stands for the parties of a case), the status
  `signing`, which `transition_contract_status` no longer reaches, the payments
  and terms created at a signature, and the document checks of `0057`. These
  checks can only refuse a signature.
- `UnitOffer` is the abstract specification: what someone who sees the price list
  and the signed contracts may rely on. `UnitSales` refines it with
  `offer <- OfferOf`, `signed <- SignedTypes`, checked as the property `OfferSpec`.
- `UnitReports` adds what is shown of that state: the label, the progress bar and
  the hold of `shared/next-contract-action.ts` (`ShownStatus`, `ShownStep`,
  `ShownHold`; the next contract is `AllowedContractTypes` of `UnitSales`), and the
  facts of `consistency-checker.ts` about units, holds, cases and signed contracts
  under the names of its codes. It has no actions. The facts about documents,
  generations and prices are read from tables that are not in this state.
  Its last part, `SaleReports`, is not translated from the code: it is what the
  proofs add to the invariants of `UnitSales`.
- `MCUnitSales` adds the symmetry of the buyers for TLC. `UnitSalesProofs` holds the
  theorems about the sale, `UnitReportsProofs` those about the abstract offer and
  about what is shown.
- `HoldExpiryJob` models the scheduled job over many units. `run` is the local
  state of each execution (`scan`, then `expire` with the rest of its batch, for one
  tenant after another); `hold` and `fact` are the hold and what
  `pre_reservation_release_blocker` and `has_effective_signed_contract` say of its
  unit, each unit carrying one hold; `granted` and `members` are the permission and
  the membership the job acts with; `audits` counts the `hold.expired` rows. Every transaction is a step: `Scan` is
  the first of `expirePreReservations`, `ExpireNext` one call of
  `expire_unit_hold`, which reads the conditions again under the unit's lock.
  The commands of users are those of `UnitSales` reduced to their effect on a hold.
- `MCHoldExpiryJob` names an assignment of holds to tenants;
  `HoldExpiryJobProofs` holds the theorems.
- `Payments` models the money of one sale. Amounts are halere, and one allocation
  belongs to one transaction, as `record_payment` writes them:

  | Variable | Code |
  | --- | --- |
  | `amount` | `payment_obligations`: the fee, two installments, one added by hand, and the fee of a second unit; 0 before it exists |
  | `ledger`, `reversed` | `payment_transactions` with `payment_allocations` in order, `payment_reversals` |
  | `session`, `answered` | the connections inside `record_payment`, and what clients were answered |
  | `contract`, `plan`, `caseActive` | the RS and the SBK, `payment_terms_snapshot`, the sales case |
  | `decision` | `payment_refund_decisions` |

  `record_payment` is four steps: `Begin` takes the lock of the obligation's unit,
  `CheckRequest` answers a repetition, refuses or goes on, `InsertPayment` meets the
  unique indexes, `AbortRequest` is the rollback of `Database.withContext`. Between
  them come `ReversePayment`, which locks only the transaction,
  `CreatePaymentObligation`, which locks nothing, and the sessions of the other unit. The
  commands of contracts hold the unit's lock from their first read, so each is one
  step; a reversal inside one of them is as good as one before or after it: the
  preparation and the materialization of terms read the payments of the fee once,
  and the end of a contract writes what its last reading of an obligation permits.
  `EndContract` chooses any decisions that pass the checks. Whether the case closes
  with it is decided in `UnitSales` and is a free choice here. `create_payment_refund`
  (`0048:245`) writes to a table and a column that no migration creates, so its
  transaction always rolls back: a refund has no action.

  Left out: changes of due dates, which no other command reads; the fixed-date SBK,
  whose payment is created with the contract and has no plan; new versions of a
  contract (they carry the plan along, unless its symbol is not the unit's code); a second RS or SBK of the sale; obligations
  added by hand to an RS; the bank import, whose tables no command uses. The last part of
  `record_payment` makes a reservation when a signed RS has none, which
  `SignedRsKeepsReservation` of `UnitSales` excludes.
- `MCPayments` names four requests; `PaymentsProofs` holds the theorems.
- `ContractReadiness` models the preparation of one RS or SBK through its versions.
  `source` is the record `RsSource` that `rs-generation-repository.ts` loads, with what
  the commands ask beside it: `stage` (the contract's status while its newest version
  is a working one without a document, else whether that version was approved, has its
  document or was signed by a party), `code` (`units.code`), `later` (it is not the
  first version) and `evidence` (older versions have documents or appendices). `terms`
  is the `payment_terms_snapshot` of the newest version. A fact that is only printed has
  one of a few values: right, absent, blank, unprintable. A contract may start with
  terms of the time before `0072`, whose symbol is made of the digits of the reference. The pure part is translated as
  operators: `Issues` is `validate` with its preflight, `OriginalContractIssues` and
  `AccessoryFaults` the checks of `original-contract-readiness.ts`, `PaymentPlan` the
  rows of `original-payment-plan.ts`, and `Snapshot` what
  `original-contract-snapshot.ts` makes of the facts: `"built"`, or the value it
  refuses. `MayPrepare` holds the guards of `prepare_signature_payment_terms` as
  `0072` left them, a unit's code that is no number included; `Inherited` is the trigger by
  which a new version takes over terms, or drops them if their symbol is not the code
  (`0072:26`). The actions are

  | Action | Code |
  | --- | --- |
  | `Edit` | anybody changes a fact of the unit, the buyer, the project, the template or a payment; dates and appendices only in a working version (`0064`, `0068`) |
  | `CreateVersion` | `create_contract_version` (`0073`) |
  | `Advance` | `transition_contract_status` (`0060`), the signature of one of several parties |
  | `BindDocument` | the generated document, or `bind_external_contract_document` (`0057`) |
  | `Correct` | what the user does next: `PreparePaymentTerms`, `PrepareLegacyRs`, `Repair` (the fact an issue names is put right) or `Reopen` (a new version, where dates, appendices or terms cannot be set in this one) |

  Left out: of the older RS text all but its issues; the issues about a unit's area
  and the due date of the fee; the comparison with the text of the preceding
  RS; the wording of amounts and dates; that a regenerated document of the older text
  keeps the dates of its version. Several codes about one fact of the buyer are one.
- `DocumentGeneration` models the document of one RS or SBK.

  | Variable | Code |
  | --- | --- |
  | `kind`, `status`, `versions` | type and profile of the contract, `contracts.current_status`, `contract_versions` |
  | `facts` | how often buyer, price or unit changed |
  | `templates` | `document_template_versions.approval_status` |
  | `ops`, `files` | `document_generation_operations` with the frozen request, the stored files |
  | `request` | the requests of the API, each between two of its transactions |

  One attempt is `Submit`, then `FindCompleted` and `FindPending` (its own
  operation under the key), `Load`, `GetTemplate`, `Reserve`, `Upload`, `Complete`,
  `Bind`; `Crash` ends it anywhere. Beside it other people act: `NewVersion`,
  `SetPlan`, `SetAppendix`, `ChangeFacts`, `BindExternal` (a final document),
  `Review` (sending and approval), `Sign`, `End`, and the three commands on the
  template's versions. `approved` remembers the file the last approval was about, and `seen`
  in an operation the newest file at its reservation.

  Left out: several templates of one type (`ambiguous_template` and the date a
  template begins), operations without a stored request, permissions and the check
  of the creator. `sent` stands for negotiation too, and `signing` for `approved`.
- `DocumentUpload` is the step `Upload` of that module in detail, with the signature after it.

  | Variable | Code |
  | --- | --- |
  | `ops`, `docs`, `version` | `document_upload_operations`, `documents.etag`, `document_versions` |
  | `drive`, `folders` | the native versions of each file in SharePoint, the folder path |
  | `connected` | `sharepoint_connections.connection_status` |
  | `handler` | the requests of `upload-service.ts`, each at one of its calls |
  | `bound`, `signer`, `signed` | the documents bound to the contract, the reading and comparing of the file before a signature, the signature |
  | `late` | writes that Graph reported as failed and may still carry out |

  `HandlerStep` is a request: `ReserveUpload`, `ReadReservation`, `EnsureFolders`
  and `CreateFolder`, `PrepareTarget`, `RecoverUploaded` (is the file there
  already?), `UploadFile`, `ExternalVersionId`, `DownloadVersion` or
  `DownloadContent`, `RecordGraphUpload`, `FinalizeUpload`, `BindDocument`.
  `UploadFails`, `Abort`, `LateWrite`, `EditInSharePoint` and
  `ValidateConnection` are the failures and the world outside. `ReadEvidence`,
  `ReadExactContent` and `Sign` are `signableFile` and the signing command, which
  checks the rows again but not the file.

  Bytes are named by the key of the request that sent them, a hash is its bytes, and
  an ETag the number of a version. The reading of the reservation and of the
  connection are one step. Left out: the approval of the contract (it may be signed
  whenever a document is bound), the document of the final notice, appendix
  files, moving and renaming.
- `MCDocumentUpload`, `MCDocumentGeneration` name the constants and the symmetry;
  `DocumentUploadProofs` and `DocumentGenerationProofs` hold the theorems.
- `MediaUpload` models the upload of one picture through four parties. `client` and
  `next` are the browser (`media-repository.ts` of the front end), `put`, `finish`
  and `call` the requests it has running in the BFF (`app/api/media/route.ts`) and the
  call of the backend among them, `session`, `chunks` and `object` the keys of the object
  store, `asset` the row of `media_assets`. `Start`, `SendPart`/`StorePart`,
  `Finish`, `StoreObject`, `CallBackend`, `Register`, `Confirm`, `Load` are the course of an
  upload; `Rejected`, `Undo`, `Cancel` the way back; `Trouble` what goes wrong. Each
  mishap is noted under its kind, and the properties say which kinds they do not
  withstand. The reading of all parts is one step: if one of them goes missing
  meanwhile the answer is the same refusal. Left out: the upload of a form in one
  request, which the browser does not use, and the preview mode without a backend.
  `MediaUploadProofs` holds the theorems.

Mutants, definitions that change a mapped definition as a bug would, stand just
before their target; each property has one that breaks it.

## What the runs check

| Run | Bounds | Properties |
| --- | --- | --- |
| `resale` | 2 buyers, 2 cases, 2 holds, 2 contracts, clock 0..1, no wait; 399,000 states | `TypeOK`, `SignedContractProtectsUnit`, `ActiveHoldsOfActiveCase`, `ClosedCaseIsHistory`, `OfferSpec` |
| `chain` | 1 buyer, 1 case, 2 holds, 3 contracts, clock 0..1, wait 1; 599,000 states | `PurchaseKeepsUnitSold`, `OneOpenContractInOrder`, `SignedRsKeepsReservation`, `HoldsNeverOverlap`, `ReservationOnlyBySignature`, `ReleaseLeavesNothingBehind`, `ShownSaleIsTrue`, `ReportsExplained` |
| `expiry_job` | 2 runs, 2 tenants (the first without holds), 3 holds, batch of 2, 1 hold blocked at will, 1 disturbance; 412,000 states | `AuditedOnce`, `LaterCommandWins`, `EveryDueHoldExpires` |
| `payments` | 2 sessions, 4 requests, 3 transactions, price 10, fee 2; 90,000 states | `NeverOverpaid`, `CountedOnce`, `AnswerIsOwnPayment`, `ReceiptsDecided`, `SaleAddsUp`, `DecisionIsFinal` |
| `contract_readiness` | 2 changes of facts, stage or version; 185,000 states | `ReadyIsPrintable`, `RepairsLeadToReady` |
| `generation_race` | 2 keys, 2 requests, 2 external documents, 2 versions, 1 template version; 1,080,000 states | `OneGenerationAtATime`, `BoundOnce`, `NothingUnseenReplaced`, `ApprovedAsSeen`, `AppendicesAsGenerated` |
| `generation_recovery` | 1 key, 1 request, 2 template versions, 1 change of facts, 1 crash; 574,000 states | `TypeOK`, `EveryGenerationBound` |
| `upload_overlap` | 2 final documents, 2 requests at a time, 1 fault; 2,740,000 states | `TypeOK`, `VersionHoldsOwnBytes`, `SoloUploadsOnce`, `SignedDocumentSettled` |
| `upload_recovery` | 3 documents, 1 request at a time, 1 folder, 1 fault, 1 edit in SharePoint; 253,000 states | `SignedFileIsEvidence`, `EveryUploadEnds` |
| `media_upload` | 2 uploads of 3 parts, 3 mishaps; 69,000 states | `PictureHasFile`, `AnswerIsTrue`, `UploadSettles` |
| `doc_historicaldownload` | as `upload_overlap` | expected violation: `DocHistoricalDownload` |

### Why these bounds

Each bound is a CONSTANT, and the theorems do not depend on it. Where a bound lets
the system run out of commands (a clock that ends, a full table, an uploaded
document), deadlock is not checked; that includes every run, since in each of
them everybody may simply be finished.

*Sale.* A sale needs one case, one hold and three contracts to reach every stage; a
resale needs a second case with a second buyer; the second hold is the reservation
that replaces a pre-reservation, or a hold beside one that lapsed. Two clock values
are enough for a hold to lapse and for a transaction to be late (late ones are
left to `chain`). `ReservationTerm` (365 days in the code) is 1, so that the date
of a contractual reservation passes within the run. Three holds at once, one
converted, one lapsed and one new, are covered by the theorem about
`HoldsNeverOverlap`.

*Job.* A batch of two among three holds (100 in the code) is the smallest in which
a refused hold takes a place and another still waits. `Troubled` holds may be
blocked and unblocked for ever; every other disturbance (an aborted run, a revoked
permission, the end of a contract) is bounded by `MaxDisturbances`, because
endlessly many of them defeat any job. `EveryDueHoldExpires` holds as long as fewer
than `Limit` holds stay refused. The scan leaves out units under a signed contract
but not those with a planned handover, a block or a partial signature, so 100 of
those, ordered first, would starve the rest: the bound `Troubled < Limit` is a
condition of the result and not of the code. So is `Leaving`: only the last tenant
may lose its membership, since one that stays inactive keeps the job from every
tenant configured after it.

*Payments.* The four requests are the collisions there are: two parts of the fee
that exceed it together, a bank id claimed for two units, a key used again for
another obligation. Each may be repeated for ever. Three transactions are enough to
pay the fee, reverse it and pay it again; the price of 10 makes both installments
more than the requests, so that partial payments occur.

*Readiness.* Every issue depends on one or two facts, so two changes reach every pair:
a fact changed before the terms are frozen and one after, two wrong facts of which
one may hide the other, or a fact that changes after the contract was sent or got a
document. The corrections are not bounded, so a draft that was sent, approved or bound is
reopened as often as that takes. A document and the signature of one party are two
changes. The code that is no number is tried with the usual price.

*Documents.* Two requests are an attempt and its repetition, or two users. One
fault with two requests, or a fault and an edit with one, is what the properties
distinguish: a lost answer, a late write, a crash between any two calls. Three
documents in a row make the target of a repeated request change. For the generation
two versions are a replaced document and its replacement; two template versions are
a retired one and its successor.

*Media.* Two uploads are two users, or one user's second attempt; three parts make a
first, a middle and a shorter last one; three mishaps are a failure, a failure of
its cleanup and one of the other upload.

### Fairness

`UnitSales`, `Payments` and the racing runs assume none: every command is a decision
of a user.

- `HoldExpiryJob`: weak fairness of the steps of each run. The platform starts the
  job every minute (`infra/azure/deploy-hold-expiry.sh`), and a transaction whose
  locks are held gives up after 5 s, which is `AbortRun`.
- `DocumentUpload`: weak fairness of a request's steps, strong fairness of the
  repetition of a reserved request by its client (`Retry`), weak fairness of the repair of the
  connection by an administrator and of writes that Graph still carries out.
- `DocumentGeneration`: weak fairness of `Handle`, strong fairness of the
  repetition of an unfinished generation by its creator, whose key the readiness
  endpoint returns (`pendingGeneration`).
- `ContractReadiness`: weak fairness of `Correct` as a whole: the user goes on with some
  correction as long as there is one, in any order. A new version is among them because the
  refusals ask for it (`api-error.ts:104`, `rs-generation-panel.tsx:126`).
- `MediaUpload`: weak fairness of the steps of an open browser and of a running
  request; a request and a browser may always end by a mishap instead.

Strong fairness is needed where another request interrupts the repetition again and
again. Users who change their minds, the clock and failures have no fairness.

### What the conditions in the properties mean

Some properties name the states they leave out, each for a reason in the code:

- `ReportsExplained` says which findings of the consistency checker the commands do
  leave. A unit is *available with a hold* after `blockUnit`, which looks for
  holds whose dates are live, and `unblockUnit`; *reserved without a signed
  contract* when the RS ends while a handover is planned, so that the release is
  refused and its reservation stays; *inconsistent with its RS* while it is blocked,
  or after a purchase contract was signed and ended.
- A lapsed reservation of an ended RS lets a new pre-reservation in beside it. A new
  RS cannot be signed until somebody cancels the old hold: this is why
  `SignedRsKeepsReservation` is safe.
- `ShownSaleIsTrue` allows for a signed SBK whose KS has ended: the label says SBK, and the
  unit stays sold. A sale whose handover is completed and whose KS has ended still
  accepts a new KS, although the page offers none.
- `EveryUploadEnds` leaves out `Disturbed` documents: written by people in SharePoint,
  twice by one key at a time, or stored without the id of a native version.
- `EveryGenerationBound` leaves out operations that were `Undercut`: the contract or
  the template was closed, or the frozen preparation replaced. A reserved generation
  whose template is retired is refused for ever and lets no other start.
- `RepairsLeadToReady` leaves out each `DeadEnd`. Terms whose symbol is the unit's code
  are inherited by every later version (trigger `0066:19`, `0072:26`) and cannot be
  prepared again, so a change of the buyer or of the RS after the freezing makes the draft
  useless; terms with an obsolete symbol are dropped by a new version and prepared again,
  and are no dead end. Terms cannot be frozen at all when the unit's code is no
  number: the command fails closed with `PAYMENT_TERMS_UNIT_CODE_REQUIRED`, readiness
  reports the missing terms as an issue and not the code, and the message asks to check a
  designation that no command changes; nor when an obligation was added before. An SBK whose fee with 20 %
  of the price exceeds it is not answered with an issue but with an exception
  (`Unanswered`); a legacy RS whose preparation is blocked, by appendices chosen for it or a
  document of an older version, keeps its missing price. A version that a party has signed
  cannot be followed by another.
- `PictureHasFile` and `AnswerIsTrue` leave out pictures whose `"registration"` lost its
  answer: the BFF deletes the file although the backend may have registered it and
  retired the old picture, so the unit may be left with none. A late finish may also
  replace a newer picture, and a session whose start was never answered stays in the
  store: no job clears abandoned sessions.

### Findings

- `doc_historicaldownload`: `record_document_graph_upload` (`0050:141`) sets the
  operation to `uploaded` whatever it was. A slow request whose repetition has
  completed takes the completed operation back; `finalize` then fails on the existing
  rows for ever, and the signed document can no longer be downloaded, although the
  comment says that it "stays available".

Not findings of a run, but met on the way: `prevent_unit_hold_overlap` (`0056:57`)
attaches `NOT is_expirable` of each hold to the comparison with that hold's start,
where it has no effect, so a contractual reservation whose date has passed does not
exclude a new hold; the repeated signature of an SBK after the KS moves the stage
back to `sbk` (`0056:476`); no refund can be recorded (`0048:245`); a generation whose
facts were loaded before the signature of an RS may be reserved after it (`reserve`,
`template-generation-repository.ts:82`, asks for the status only with an original
profile). It is never bound, so the signed version stays as it was
(`NothingUnseenReplaced`), and the contract can still be ended, but its document is
shown as not ready from then on (`0083:28-32`).

## What is proved

Each theorem holds for all values of the constants that satisfy the assumption of its
module, so for any number of buyers, rows, requests, keys and steps.

- **The sale** (`UnitSalesProofs`): `TypeCorrect`;
  `InvariantCorrect : Spec => []SaleInvariant`, and from it `SignedContractSafe`,
  `PurchaseSafe`, `HoldsSafe`. `SignedContractProtectsUnit` is not inductive. When an
  RS is signed on a case whose stage is already SBK, KS or handover,
  `ensure_signed_rs_reservation` changes nothing, and the unit is safe only because
  an advanced case binds it; hence `AdvancedCaseBindsUnit`. That the reservation
  belongs to the only active case needs `OneActiveCase` (the unique index of the
  database, here a consequence of the commands), and a signed contract has a case to
  speak of by `ContractOfCase`. The proof goes command by command.
- **Its history** (`UnitSalesProofs`): `OrderCorrect`, `HoldsApart`,
  `ReleaseCorrect`, `ClosedCaseCorrect` from the invariant `SaleHistory`. It adds that
  the live contracts of a case differ in type (`LiveTypesDiffer`), that beside an SBK or a KS,
  live or ended, only a KS can be open (`OnlyPurchaseReopens`), and that the handover is planned for the
  active case (`PlannedOfActiveCase`). `SignedRsReserved` and `BySignatureOnly` come from
  `SaleReservations`: that a signed RS keeps its reservation needs more than the two
  rows, namely that a case with an active reservation is past the negotiation or the
  reservation has run out (`ReservationOfLateCase`), that an RS still to be signed was
  drawn after any older reservation ran out (`OpenRsAfterReservation`), and that a
  signed RS left no pre-reservation active (`SignedRsEndsPreReservations`). The lemmas say what a step may do to a row
  (`RowMoves`, `RowEnds`, `CaseMoves`), so that most commands need one line.
- **The refinement** (`UnitReportsProofs`): `OfferCorrect : Spec => OfferSpec`. A
  signature maps to a step of the offer only because an RS or SBK is never signed on a unit that a
  purchase contract binds, all signed contracts belong to one case, and no type is
  signed twice; the end of a signed contract removes one type and either keeps the unit or was the last.
- **What is told about the sale** (`UnitReportsProofs`): `ReportsCorrect` and
  `ShownSaleCorrect`, from the invariant `SaleReports` (`SaleReportsCorrect`). It adds to `SaleReservations` what each status
  of the unit goes back to: a held unit has a hold, a reserved one only its reservation
  (`StatusHasItsHold`); a signed RS reserves the unit unless it is blocked or
  a purchase contract was signed since (`RsReserves`), a signed SBK binds it
  (`SbkBinds`), and a sold unit was sold by a KS of its active case, which may have
  ended (`SoldByPurchase`). The last one needs `OnceSigned`, which holds of a
  contract that was signed and may have ended since: no step takes it away
  (`OnceSignedStays`), and so a sold unit still explains its status after the contract
  is gone. The progress bar is proved from the order of the contracts: of the live
  contracts of a case all but the highest are signed (`LowerSigned`), so that in a sale
  that goes on exactly the steps behind the current one are passed (`TypePassed`), review or not.
- **The job** (`HoldExpiryJobProofs`): `TypeCorrect`, `AuditedOnceCorrect`,
  `LaterCommandWinsCorrect`, with any number of overlapping runs. What makes the
  stale batch harmless is that `ExpireNext` asks `Expirable` again.
- **Payments** (`PaymentsProofs`): `TypeCorrect`, `CountedOnceCorrect`,
  `AnswerCorrect`, `DecisionIsFinalCorrect`. The invariant adds `DecidedHasEnded`: a
  decision exists only for an ended contract, and an ended contract is not ended again.
- **Sums of payments** (`PaymentsProofs`): `NeverOverpaidCorrect`,
  `ReceiptsDecidedCorrect` from `MoneyInvariant`, `SaleAddsUpCorrect` from `Terms`. The
  check of `record_payment` holds until its insertion because at most one session is
  inside the lock of a unit (`OneHolder`), and what it has read can only shrink
  meanwhile, by a reversal (`Room`). `Paid` is a fold, so a recursive function, and the
  induction theorems of the library take an operator as a parameter, which the provers
  cannot instantiate. The lemmas go back to the definition: a property that fails of some set of rows fails of a smallest
  one (`SmallestSubset`, from the well-foundedness of `<` on its cardinality), and
  removing one row refutes that. Hence `ReceivedWithout`, `ReceivedGrows` and
  `ReceivedKept`, what a sum does when a row is added, reversed or left alone.
- **Readiness** (`ContractReadinessProofs`): `ReadyIsPrintableCorrect` for any sequence
  of edits, from `SourceInvariant`, which only says that the type and the amounts keep
  their shape: that an accepted contract can be printed is an argument about the operators, issue by
  issue (`ReadyIsBuilt`) and row by row (`RowsAreCurrent`). `FrozenTermsHold` is not
  checked by a run: terms once frozen, old ones included, stay the exact result of the plan for the
  contract's type, whatever else is edited and through every new version.
- **Uploads** (`DocumentUploadProofs`): the five safety properties of
  `upload_overlap` and `upload_recovery`, for any number of requests, handlers, mishaps
  and edits. The invariant has four layers. `Shape` says what rows, files and requests
  know of each other; its heart is that a document has one pending version at a
  time (`OnePending`), by which `SettledCorrect` follows for the signed one. `Evidence` is
  weaker than it looks at first: a row need not hold the hash of its file, only if the
  id it carries is still the newest (`Match`), because that is when it may be signed;
  from the reading of the signer on the hash is fixed (`Shown`). `Solo` adds that a
  request which no two handlers served has been written at most once, and not at all while its
  handler is about to write it (`Alone`). `Own` is about files that nobody else writes
  to: the bytes of a pending request are the last ones of the file (`Newly`), and every ETag
  and id its handlers hold is the newest (`Current`). One description of the
  effects of a step (`Effects`) serves all four, so that a layer is proved by kind of
  effect and not again by action.
- **Generation** (`DocumentGenerationProofs`): `TypeCorrect` and the five
  properties of `generation_race`. The invariant adds that a bound file belongs to a
  completed operation, that no operation was prepared on a version still to
  come, and that the newest file is still the one seen at the reservation
  while the operation can be bound: this is what the snapshot of a
  request that overlaps anything must not break. `LastPosition`, that a nonempty set
  of positions has a last one, comes from the well-foundedness of `<`.
- **Media** (`MediaUploadProofs`): `TypeCorrect`, `PictureHasFileCorrect`,
  `AnswerCorrect`. The invariant ties the call of the backend to the request that
  waits for it (`RequestInOrder`), the file to the row (`RegisteredFile`), and what
  the browser was told to what was done (`Told`); `Growing` says that mishaps are
  never forgotten.

So every invariant and every action property of a passing run is also a theorem.
Only model-checked is liveness (`EveryDueHoldExpires`, `EveryUploadEnds`,
`EveryGenerationBound`, `RepairsLeadToReady`, `UploadSettles`), because the prover has
no ENABLED.

## Not modelled

The map covers about a tenth of the TypeScript of the repository. Most of the rest
renders pages, maps rows to JSON, checks the form of a request or reads reports; the
state changes are largely in the SQL functions, whose lines are mapped but are not TypeScript.

- *Contract assignment*: the sale is modelled with one buyer per case. What an
  assignment does to a draft, whose frozen terms name the former buyer, is a change of
  the buyer in `ContractReadiness`.
- *Appendices*: their files are uploaded like others. That a generated version keeps
  the appendices it was generated with is `AppendicesAsGenerated`.
- *SharePoint synchronization*: `planDocumentDelta` is a pure function that only a
  test calls; nothing applies its plan.
- *Client changes, complaints, tasks*: status transitions from a fixed table under
  the lock of their row, read by no modelled command.
- *Inventory, accessories, prices*: every command on an accessory locks its row before
  it compares anything, every import takes one advisory lock for the project and checks
  its rows again. The prices and accessories of a contract are copied into it.
- *Identity and access, parties*: permissions are assumed held where a command asks for
  them, and a buyer is one value.
- *Outbox and audit log*: append-only rows whose consumers are not in the repository.
- *Working days*: a pure calendar; `tests/price-and-document-integrity.test.ts:147`
  compares it with its SQL copy for every day of the supported years.
- *Migrations runner, worker, front end*: I/O and rendering. The one protocol the
  front end runs, the upload of pictures, is `MediaUpload`.

## What could follow

1. `ContractAssignment` as a command of `UnitSales`, with several parties per case.
2. Accessories and prices with overlapping validity; the appendix files as uploads.
