------------------------------ MODULE UnitSales ------------------------------
(***************************************************************************)
(* The sale of one unit of a development project: its commercial status,   *)
(* the holds that keep it off the market, the sales cases of its buyers,   *)
(* their base contracts (RS reservation, SBK future purchase, KS purchase) *)
(* and its handover.                                                       *)
(*                                                                         *)
(* Every command of the backend is one SQL function that begins by locking *)
(* the unit's row (app.lock_workflow_unit), so the commands of one unit    *)
(* are serial and each is one action here.  What is NOT serial is time:    *)
(* now() is the start of the transaction, and a transaction that waited    *)
(* for the lock runs with a now() older than facts committed meanwhile.    *)
(* Every action therefore takes its own time t, at most MaxWait behind     *)
(* the clock.  A raised SQL exception rolls the command back: the action   *)
(* is not enabled.  Rows are numbered in the order they are inserted.      *)
(***************************************************************************)
EXTENDS Integers, FiniteSets

CONSTANTS
    Parties,          \* people and companies that can be the primary buyer
    NoParty,          \* a case whose parties have left has no primary buyer
    MaxHolds,         \* bound: rows of unit_holds
    MaxCases,         \* bound: rows of sales_cases
    MaxContracts,     \* bound: rows of contracts
    MaxTime,          \* bound: the clock stops there
    MaxWait,          \* longest time a transaction waits for the unit's lock
    ReservationTerm   \* "365 days" of a reservation made by a signed RS

ASSUME UnitSalesAssumption ==
    /\ NoParty \notin Parties
    /\ MaxHolds \in Nat /\ MaxCases \in Nat /\ MaxContracts \in Nat
    /\ MaxTime \in Nat /\ MaxWait \in Nat
    /\ ReservationTerm \in Nat \ {0}

None        == 0      \* "no row" in a reference to a hold, case or contract
HoldIds     == 1 .. MaxHolds
CaseIds     == 1 .. MaxCases
ContractIds == 1 .. MaxContracts
Times       == 0 .. MaxTime
LaterTimes  == 0 .. (MaxTime + ReservationTerm)

VARIABLES
    now,         \* the database clock
    unit,        \* units.commercial_status
    holds,       \* unit_holds
    cases,       \* sales_cases, with the primary buyer of sales_case_parties
    contracts,   \* contracts, with the state of the latest contract_versions
    planned,     \* sales cases remembered by the planned handovers (at most one)
    handedOver   \* is there a completed handover

vars == <<now, unit, holds, cases, contracts, planned, handedOver>>

-----------------------------------------------------------------------------
(* The tables. *)

UnitStatus == {"available", "pre_reserved", "reserved", "contracted",
               "sold", "handed_over", "blocked"}
HoldKinds  == {"pre_reservation", "reservation"}
Stages     == {"interest", "pre_reservation", "reservation", "sbk", "ks",
               "handover"}
BaseTypes  == {"rs", "sbk", "ks"}
Unsigned   == {"draft", "sent", "negotiation", "approved"}
Ended      == {"cancelled", "terminated"}

HoldRow == [st : {"absent", "active", "cancelled", "expired", "converted"},
            kind : HoldKinds,
            case : CaseIds \cup {None},
            starts : Times,
            expires : LaterTimes,
            by : ContractIds \cup {None}]   \* key 'signed-rs-reservation:' || by

CaseRow == [st : {"absent", "active", "cancelled", "expired"},
            stage : Stages,
            buyer : Parties \cup {NoParty}]

ContractRow == [st : {"absent", "signed"} \cup Unsigned \cup Ended,
                type : BaseTypes,
                case : CaseIds \cup {None},
                ver : {"working", "approved_for_signing", "signed"},
                party : BOOLEAN,            \* some contract_parties row is signed
                created : Times,
                ended : Times]

NoHold     == [st |-> "absent", kind |-> "pre_reservation", case |-> None,
               starts |-> 0, expires |-> 0, by |-> None]
NoSale     == [st |-> "absent", stage |-> "interest", buyer |-> NoParty]
NoContract == [st |-> "absent", type |-> "rs", case |-> None, ver |-> "working",
               party |-> FALSE, created |-> 0, ended |-> 0]

\* One type invariant: the columns' CHECK constraints and references.
TypeOK ==
    /\ now \in Times
    /\ unit \in UnitStatus
    /\ holds \in [HoldIds -> HoldRow]
    /\ cases \in [CaseIds -> CaseRow]
    /\ contracts \in [ContractIds -> ContractRow]
    /\ planned \in SUBSET (CaseIds \cup {None})
    /\ handedOver \in BOOLEAN

Init ==
    /\ now = 0
    /\ unit = "available"
    /\ holds = [h \in HoldIds |-> NoHold]
    /\ cases = [k \in CaseIds |-> NoSale]
    /\ contracts = [c \in ContractIds |-> NoContract]
    /\ planned = {}
    /\ handedOver = FALSE

\* The next row an INSERT fills.
NextRow(table, i) ==
    /\ i \in DOMAIN table
    /\ table[i].st = "absent"
    /\ \A j \in DOMAIN table : j < i => table[j].st # "absent"

\* A transaction that began at t and holds the unit's lock now.
TxTime(t) == t \in Times /\ t <= now /\ now - t <= MaxWait

-----------------------------------------------------------------------------
(* Facts the SQL functions ask about the tables. *)

ActiveHolds(hs) == {h \in HoldIds : hs[h].st = "active"}
ActiveCases(ks) == {k \in CaseIds : ks[k].st = "active"}

\* starts_at <= now() and expires_at > now(), of a hold that is still active.
LiveHold(hs, kinds, t) ==
    \E h \in ActiveHolds(hs) :
        hs[h].kind \in kinds /\ hs[h].starts <= t /\ t < hs[h].expires

HasEffectiveSignedContract(cs) == \E c \in ContractIds : cs[c].st = "signed"

EffectivelyEnded(row, t) == row.st \in Ended /\ row.ended <= t

SignatureEvidence(row) == row.st = "signed" \/ row.ver = "signed" \/ row.party

\* A contract that keeps the unit: not effectively ended at t, and not a
\* document nobody has signed yet.
BlocksUnitRelease(row, t) ==
    /\ row.st # "absent"
    /\ ~EffectivelyEnded(row, t)
    /\ ~(row.st \in Unsigned /\ ~SignatureEvidence(row))

\* A KS that was ever signed: ownership may have passed.
PurchaseSigned(cs) ==
    \E c \in ContractIds : cs[c].type = "ks" /\ cs[c].ver = "signed"

HandoverExists == planned # {} \/ handedOver

\* Mutant: a contract signed by only some of its parties does not count.
ReleasePermittedDespiteParty(t) ==
    /\ unit \notin {"sold", "handed_over", "blocked"}
    /\ ~PurchaseSigned(contracts)
    /\ \A c \in ContractIds : contracts[c].st # "signed"
    /\ ~HandoverExists

\* pre_reservation_release_blocker(...) IS NULL
ReleasePermitted(t) ==
    /\ unit \notin {"sold", "handed_over", "blocked"}
    /\ ~PurchaseSigned(contracts)
    /\ \A c \in ContractIds :
         BlocksUnitRelease(contracts[c], t) => ~SignatureEvidence(contracts[c])
    /\ ~HandoverExists

-----------------------------------------------------------------------------
(* Triggers, and the two functions every status or stage change goes through. *)

\* guard_contract_reservation on sales_cases, called by record_sales_stage.
StageChangeAllowed(from, to, cs) ==
    (from # to /\ to \in {"interest", "pre_reservation"})
        => ~HasEffectiveSignedContract(cs)

\* prevent_unit_hold_overlap on the insertion of an active hold.
OverlapsActiveHold(hs, kind, starts, expires) ==
    \E g \in ActiveHolds(hs) :
        /\ hs[g].kind = "reservation" \/ hs[g].starts < expires
        /\ kind = "reservation" \/ starts < hs[g].expires

\* Mutant: the trigger require_reservation_payment is missing.
NoReservationProof(cs, k) == TRUE

\* require_reservation_payment: a reservation needs the signed RS of its case.
ReservationProof(cs, k) ==
    \E c \in ContractIds :
        cs[c].case = k /\ cs[c].type = "rs" /\ cs[c].st = "signed"

\* Mutant: a unit under an SBK can be blocked.
CommandFromBlocksContracted ==
    [createPreReservation           |-> {"available"},
     createReservation              |-> {"available"},
     confirmReservation             |-> {"pre_reserved"},
     expireHold                     |-> {"pre_reserved", "reserved"},
     cancelPreReservation           |-> {"pre_reserved"},
     cancelReservation              |-> {"reserved"},
     activateFuturePurchaseContract |-> {"available", "pre_reserved", "reserved"},
     confirmFinalContractEffective  |-> {"available", "pre_reserved", "reserved",
                                         "contracted"},
     blockUnit                      |-> {"available", "pre_reserved", "reserved",
                                         "contracted"},
     unblockUnit                    |-> {"blocked"},
     compensateContract             |-> {"pre_reserved", "reserved", "contracted"}]

CommandFrom ==
    [createPreReservation           |-> {"available"},
     createReservation              |-> {"available"},
     confirmReservation             |-> {"pre_reserved"},
     expireHold                     |-> {"pre_reserved", "reserved"},
     cancelPreReservation           |-> {"pre_reserved"},
     cancelReservation              |-> {"reserved"},
     activateFuturePurchaseContract |-> {"available", "pre_reserved", "reserved"},
     confirmFinalContractEffective  |-> {"available", "pre_reserved", "reserved",
                                         "contracted"},
     blockUnit                      |-> {"available", "pre_reserved", "reserved"},
     unblockUnit                    |-> {"blocked"},
     compensateContract             |-> {"pre_reserved", "reserved", "contracted"}]

CommandTo ==
    [createPreReservation           |-> "pre_reserved",
     createReservation              |-> "reserved",
     confirmReservation             |-> "reserved",
     expireHold                     |-> "available",
     cancelPreReservation           |-> "available",
     cancelReservation              |-> "available",
     activateFuturePurchaseContract |-> "contracted",
     confirmFinalContractEffective  |-> "sold",
     blockUnit                      |-> "blocked",
     unblockUnit                    |-> "available",
     compensateContract             |-> "available"]

\* What a command must see in the other tables (hs, ks, cs) of its transaction.
CommandEvidence(cmd, t, hs, ks, cs) ==
    /\ cmd = "createPreReservation" => LiveHold(hs, {"pre_reservation"}, t)
    /\ cmd \in {"createReservation", "confirmReservation"}
         => LiveHold(hs, {"reservation"}, t)
    /\ cmd \in {"expireHold", "cancelPreReservation", "cancelReservation", "blockUnit"}
         => ~LiveHold(hs, HoldKinds, t)
    /\ cmd = "activateFuturePurchaseContract"
         => \E c \in ContractIds : cs[c].type = "sbk" /\ cs[c].st = "signed"
    /\ cmd = "confirmFinalContractEffective"
         => \E c \in ContractIds : cs[c].type = "ks" /\ cs[c].st = "signed"
    /\ cmd = "compensateContract" =>
         /\ \A c \in ContractIds : ~BlocksUnitRelease(cs[c], t)
         /\ ActiveCases(ks) = {} /\ ActiveHolds(hs) = {}
         /\ \E k \in CaseIds : ks[k].st = "cancelled"
         /\ ~PurchaseSigned(cs)

\* Mutant: the trigger on units is missing.
UnitCommandWithoutTrigger(cmd, from, t, hs, ks, cs) ==
    from \in CommandFrom[cmd] /\ CommandEvidence(cmd, t, hs, ks, cs)

\* transition_unit_commercial_status with the trigger on units: `from' becomes
\* CommandTo[cmd].
UnitCommand(cmd, from, t, hs, ks, cs) ==
    /\ from \in CommandFrom[cmd]
    /\ CommandEvidence(cmd, t, hs, ks, cs)
    /\ CommandTo[cmd] = "available" => ~HasEffectiveSignedContract(cs)

-----------------------------------------------------------------------------
(* Holds. *)

\* Mutant: the closing status is written to the stage.
ClosedCaseStage(row, st) == [row EXCEPT !.st = st, !.stage = st, !.buyer = NoParty]

\* close_released_pre_reservation_case, reached with the stage at "interest",
\* no active hold and a free unit: a case that is still active is closed.
ClosedCase(row, st) ==
    IF row.st = "active"
    THEN [row EXCEPT !.st = st, !.stage = "interest", !.buyer = NoParty]
    ELSE [row EXCEPT !.stage = "interest"]

Expirable(h, t) ==
    /\ holds[h].st = "active"
    /\ holds[h].kind = "pre_reservation"
    /\ holds[h].expires <= t
    /\ ~HasEffectiveSignedContract(contracts)
    /\ ReleasePermitted(t)

\* Expire the holds hs one after the other; the last one frees the unit.
Expired(hset) ==
    [h \in HoldIds |-> IF h \in hset THEN [holds[h] EXCEPT !.st = "expired"]
                                     ELSE holds[h]]

\* Mutant: the wrong status is expected.
FreesReservedUnit(hset) ==
    hset # {} /\ unit = "reserved" /\ ActiveHolds(Expired(hset)) = {}

FreesUnit(hset) ==
    hset # {} /\ unit = "pre_reserved" /\ ActiveHolds(Expired(hset)) = {}

ExpireUnitHold(h, t) ==
    /\ TxTime(t)
    /\ Expirable(h, t)
    /\ holds' = Expired({h})
    /\ IF FreesUnit({h})
       THEN /\ UnitCommand("expireHold", unit, t, holds', cases, contracts)
            /\ unit' = "available"
            /\ cases' = [cases EXCEPT ![holds[h].case] = ClosedCase(@, "expired")]
       ELSE UNCHANGED <<unit, cases>>
    /\ UNCHANGED <<now, contracts, planned, handedOver>>

CancelUnitHold(h, t) ==
    /\ TxTime(t)
    /\ holds[h].st = "active"
    /\ holds[h].starts <= t
    /\ ~HasEffectiveSignedContract(contracts)
    /\ ReleasePermitted(t)
    /\ holds' = [holds EXCEPT ![h].st = "cancelled"]
    /\ IF unit \in {"pre_reserved", "reserved"} /\ ActiveHolds(holds') = {}
       THEN /\ UnitCommand(IF holds[h].kind = "pre_reservation"
                           THEN "cancelPreReservation" ELSE "cancelReservation",
                           unit, t, holds', cases, contracts)
            /\ unit' = "available"
            /\ cases' = [cases EXCEPT ![holds[h].case] =
                           IF holds[h].kind = "pre_reservation"
                           THEN ClosedCase(@, "cancelled")
                           ELSE [@ EXCEPT !.stage = "interest"]]
       ELSE UNCHANGED <<unit, cases>>
    /\ UNCHANGED <<now, contracts, planned, handedOver>>

\* A case left active on a free unit by an ended pre-reservation.
ResidualCase(k, hs) ==
    /\ unit = "available"
    /\ \E h \in HoldIds : /\ hs[h].case = k
                          /\ hs[h].kind = "pre_reservation"
                          /\ hs[h].st \in {"cancelled", "expired"}
    /\ ActiveHolds(hs) = {}

\* close_released_pre_reservation_case closes the residual case r the way one
\* of its pre-reservations ended, or makes the whole command fail.
Closable(r, ks, hs, closed, t) ==
    /\ ResidualCase(r, hs)
    /\ \E h \in HoldIds : /\ hs[h].case = r /\ hs[h].st = closed
                          /\ hs[h].kind = "pre_reservation"
    /\ ReleasePermitted(t)
    /\ ks[r].stage = "interest"

\* Mutant: nobody asks whether the case left behind can be closed.
JoinsAnyNewCase(k, b, ks, hs, closed, t) ==
    (ks[k].st = "active" /\ ks[k].buyer = b) \/ NextRow(ks, k)

\* The case a new hold of buyer b joins, in the tables ks and hs before the
\* insert: the active case if b is its primary buyer (a second primary buyer
\* violates sales_case_primary_party_uq), or a new case when none is active
\* or the active one is residual and can be closed.
JoinsCase(k, b, ks, hs, closed, t) ==
    \/ ks[k].st = "active" /\ ~ResidualCase(k, hs) /\ ks[k].buyer = b
    \/ NextRow(ks, k) /\ \A r \in ActiveCases(ks) : Closable(r, ks, hs, closed, t)

\* Stale pre-reservations are expired first, each by expire_unit_hold.
CreateUnitHold(h, k, b, kind, expires, closed, t) ==
    LET stale == {g \in HoldIds : Expirable(g, t)}
        hs    == Expired(stale)
        freed == FreesUnit(stale)
        ks    == [j \in CaseIds |->
                    IF freed /\ \E g \in stale : holds[g].case = j
                    THEN ClosedCase(cases[j], "expired") ELSE cases[j]]
    IN
    /\ TxTime(t) /\ t < expires
    /\ NextRow(holds, h)
    /\ ~\E g \in ActiveHolds(hs) : hs[g].starts < expires /\ t < hs[g].expires
    /\ JoinsCase(k, b, ks, hs, closed, t)
    /\ kind = "reservation" => ReservationProof(contracts, k)
    /\ ~OverlapsActiveHold(hs, kind, t, expires)
    /\ holds' = [hs EXCEPT ![h] = [st |-> "active", kind |-> kind, case |-> k,
                                   starts |-> t, expires |-> expires, by |-> None]]
    /\ StageChangeAllowed(ks[k].stage, kind, contracts)
    /\ cases' = [j \in CaseIds |->
                   IF j = k THEN [st |-> "active", stage |-> kind, buyer |-> b]
                   ELSE IF j \in ActiveCases(ks) THEN ClosedCase(ks[j], closed)
                   ELSE ks[j]]
    /\ LET cmd == IF kind = "pre_reservation"
                  THEN "createPreReservation" ELSE "createReservation"
       IN /\ UnitCommand(cmd, IF freed THEN "available" ELSE unit,
                         t, holds', cases', contracts)
          /\ unit' = CommandTo[cmd]
    /\ UNCHANGED <<now, contracts, planned, handedOver>>

\* The guards of convert_pre_reservation ("confirm" in the API), up to the
\* status command.  No reachable state satisfies them, because the signature
\* that a reservation needs has already converted the hold, so the command is
\* this predicate and not an action.
ConvertPreReservationEnabled(h, t) ==
    /\ holds[h].st = "active" /\ holds[h].kind = "pre_reservation"
    /\ t < holds[h].expires
    /\ ReservationProof(contracts, holds[h].case)

-----------------------------------------------------------------------------
(* Contracts. *)

Live(row) == row.st \notin {"absent"} \cup Ended

OfCase(k) == {c \in ContractIds : contracts[c].case = k}

LiveOfType(k, ty) ==
    {c \in OfCase(k) : contracts[c].type = ty /\ Live(contracts[c])}

SignedOfType(k, ty) ==
    \E c \in LiveOfType(k, ty) : contracts[c].st = "signed"

\* getNextContractAction: an administrator must decide how the sale goes on.
ReviewRequired(k) ==
    /\ LiveOfType(k, "sbk") = {} /\ LiveOfType(k, "ks") = {}
    /\ \/ LiveOfType(k, "rs") = {} /\ cases[k].stage \in {"reservation", "sbk", "ks", "handover"}
       \/ \E c \in OfCase(k) : /\ contracts[c].type \in {"sbk", "ks"}
                               /\ contracts[c].st \in Ended

\* Mutant: only an open KS counts.
OpenPurchaseContract(k) == LiveOfType(k, "ks") # {} /\ ~SignedOfType(k, "ks")

\* The unsigned contract that is the current step of the case, if any: the
\* live contract of the highest type.
OpenContract(k) ==
    \/ LiveOfType(k, "ks") # {} /\ ~SignedOfType(k, "ks")
    \/ /\ LiveOfType(k, "ks") = {}
       /\ LiveOfType(k, "sbk") # {} /\ ~SignedOfType(k, "sbk")
    \/ /\ LiveOfType(k, "ks") = {} /\ LiveOfType(k, "sbk") = {}
       /\ LiveOfType(k, "rs") # {} /\ ~SignedOfType(k, "rs")

AllowedContractTypes(k) ==
    {ty \in BaseTypes :
       /\ ~ReviewRequired(k) /\ ~OpenContract(k)
       /\ ~SignedOfType(k, "ks")
       /\ SignedOfType(k, "sbk") => ty = "ks"
       /\ SignedOfType(k, "rs") => ty \in {"sbk", "ks"}}

CreateContract(c, k, ty) ==
    /\ NextRow(contracts, c)
    /\ cases[k].st = "active"
    /\ ty \in AllowedContractTypes(k)
    /\ LiveOfType(k, ty) = {}
    /\ contracts' = [contracts EXCEPT ![c] =
         [NoContract EXCEPT !.st = "draft", !.type = ty, !.case = k, !.created = now]]
    /\ UNCHANGED <<now, unit, holds, cases, planned, handedOver>>

\* The new version is working; the old approval is superseded.
CreateContractVersion(c) ==
    /\ contracts[c].st \in Unsigned
    /\ ~contracts[c].party
    /\ contracts' = [contracts EXCEPT ![c].st = "draft", ![c].ver = "working"]
    /\ UNCHANGED <<now, unit, holds, cases, planned, handedOver>>

WorkflowStep ==
    [draft       |-> {"sent", "cancelled"},
     sent        |-> {"negotiation", "approved", "cancelled"},
     negotiation |-> {"sent", "approved", "cancelled"},
     approved    |-> {"negotiation", "cancelled"},
     signed      |-> {"cancelled", "terminated"}]

\* Mutant: the trigger guard_contract_active_case is missing.
AdvanceAnyContract(c, to) ==
    /\ contracts[c].st \in Unsigned
    /\ to \in WorkflowStep[contracts[c].st] \ Ended
    /\ contracts' = [contracts EXCEPT ![c].st = to]
    /\ UNCHANGED <<now, unit, holds, cases, planned, handedOver>>

\* transition_contract_status to a status that is not an end, with the trigger
\* guard_contract_active_case.  An approval stays with the version when the
\* contract goes back to negotiation.
AdvanceContract(c, to) ==
    /\ contracts[c].st \in Unsigned
    /\ to \in WorkflowStep[contracts[c].st] \ Ended
    /\ cases[contracts[c].case].st = "active"
    /\ contracts' = [contracts EXCEPT
         ![c].st = to,
         ![c].ver = IF to = "approved" /\ @ = "working"
                    THEN "approved_for_signing" ELSE @]
    /\ UNCHANGED <<now, unit, holds, cases, planned, handedOver>>

\* An active hold that the end of a contract of case k may cancel: the
\* reservation made by the signature of an RS of the case that has ended.
ReleasableHold(h, k, cs, t) ==
    /\ holds[h].case = k
    /\ holds[h].kind = "reservation"
    /\ holds[h].by # None
    /\ LET r == cs[holds[h].by]
       IN r.case = k /\ r.type = "rs" /\ EffectivelyEnded(r, t)

\* contract_end_release_assessment says "eligible" for the ended contract c.
ReleaseEligible(c, cs, t) ==
    LET k == cs[c].case IN
    /\ cases[k].st = "active"
    /\ EffectivelyEnded(cs[c], t)
    /\ \A o \in ContractIds \ {c} : ~BlocksUnitRelease(cs[o], t)
    /\ unit \notin {"sold", "handed_over", "blocked"}
    /\ ~PurchaseSigned(cs)
    /\ ~HandoverExists
    /\ ActiveCases(cases) = {k}
    /\ \A h \in ActiveHolds(holds) : ReleasableHold(h, k, cs, t)
    /\ \E b \in ContractIds : cs[b].case = k /\ cs[b].ver = "signed"

\* transition_contract_status to an end, and synchronize_ended_contract: the
\* one assessment of what the end releases.  It is recorded and never repeated.
EndContract(c, to, t) ==
    LET cs == [contracts EXCEPT ![c].st = to, ![c].ended = t]
        k  == contracts[c].case
    IN
    /\ TxTime(t)
    /\ Live(contracts[c])
    /\ to \in WorkflowStep[contracts[c].st] \cap Ended
    /\ contracts[c].created <= t
    /\ contracts' = cs
    /\ IF ReleaseEligible(c, cs, t)
       THEN /\ holds' = [h \in HoldIds |->
                           IF h \in ActiveHolds(holds) /\ holds[h].case = k
                           THEN [holds[h] EXCEPT !.st = "cancelled"] ELSE holds[h]]
            /\ StageChangeAllowed(cases[k].stage, "interest", cs)
            /\ cases' = [cases EXCEPT ![k] = ClosedCase(@, "cancelled")]
            /\ \/ unit = "available"
               \/ UnitCommand("compensateContract", unit, t, holds', cases', cs)
            /\ unit' = "available"
       ELSE UNCHANGED <<unit, holds, cases>>
    /\ UNCHANGED <<now, planned, handedOver>>

-----------------------------------------------------------------------------
(* Signatures. *)

\* Mutants: the pre-reservation is turned into the reservation in place, or it
\* stays active beside the reservation.
ConvertInPlace(c, t) ==
    \E h \in ActiveHolds(holds) :
        holds' = [holds EXCEPT ![h].kind = "reservation"]
KeepPreReservation(c, t) ==
    \E h \in HoldIds :
        /\ NextRow(holds, h)
        /\ holds' = [holds EXCEPT ![h] =
             [st |-> "active", kind |-> "reservation", case |-> contracts[c].case,
              starts |-> t, by |-> c, expires |-> t + ReservationTerm]]

\* The reservation of the signed RS c replaces every active hold of the unit;
\* the latest pre-reservation of the case is the one converted.  A reservation
\* already made by c is returned as it is (ON CONFLICT on the key).
ReplaceByReservation(c, t) ==
    LET k   == contracts[c].case
        pre == {h \in ActiveHolds(holds) :
                  holds[h].case = k /\ holds[h].kind = "pre_reservation"}
    IN \E p \in IF pre = {} THEN {None} ELSE pre :
         LET ended == [h \in HoldIds |->
                         IF h \notin ActiveHolds(holds) THEN holds[h]
                         ELSE [holds[h] EXCEPT !.st =
                                 IF h = p THEN "converted" ELSE "expired"]]
             term  == t + ReservationTerm
         IN /\ \A q \in pre : holds[q].starts <= holds[p].starts
            /\ \A h \in ActiveHolds(holds) : holds[h].kind # "reservation"
            /\ \/ \E h \in HoldIds : holds[h].by = c /\ holds' = ended
               \/ /\ \A h \in HoldIds : holds[h].by # c
                  /\ \E h \in HoldIds :
                       /\ NextRow(holds, h)
                       /\ holds' = [ended EXCEPT ![h] =
                            [st |-> "active", kind |-> "reservation", case |-> k,
                             starts |-> t, by |-> c,
                             expires |-> IF pre # {} /\ holds[p].expires > term
                                         THEN holds[p].expires ELSE term]]

\* ensure_signed_rs_reservation
EnsureSignedReservation(c, cs, t) ==
    LET k == cs[c].case IN
    /\ cases[k].st = "active"
    /\ \/ /\ cases[k].stage \in {"sbk", "ks", "handover"}
          /\ UNCHANGED <<unit, holds, cases>>
       \/ /\ cases[k].stage \notin {"sbk", "ks", "handover"}
          /\ unit \in {"available", "pre_reserved", "reserved"}
          /\ IF \E h \in ActiveHolds(holds) :
                   holds[h].case = k /\ holds[h].kind = "reservation"
             THEN UNCHANGED holds
             ELSE ReplaceByReservation(c, t)
          /\ cases' = [cases EXCEPT ![k].stage = "reservation"]
          /\ \/ unit = "reserved"
             \/ unit # "reserved" /\
                UnitCommand(IF unit = "available" THEN "createReservation"
                            ELSE "confirmReservation", unit, t, holds', cases', cs)
          /\ unit' = "reserved"

\* Mutant: the status is written directly, without the command table.
WritePurchaseStage(c, cs, t) ==
    /\ cases' = [cases EXCEPT ![cs[c].case].stage = cs[c].type]
    /\ UNCHANGED holds
    /\ unit' = IF cs[c].type = "sbk" THEN "contracted" ELSE "sold"

\* The effect of a signed SBK or KS; the stage is set whatever it was.
EnsurePurchaseStage(c, cs, t) ==
    LET ty  == cs[c].type
        cmd == IF ty = "sbk" THEN "activateFuturePurchaseContract"
               ELSE "confirmFinalContractEffective"
    IN
    /\ cases' = [cases EXCEPT ![cs[c].case].stage = ty]
    /\ UNCHANGED holds
    /\ IF unit = "sold" \/ (ty = "sbk" /\ unit = "contracted")
       THEN UNCHANGED unit
       ELSE /\ UnitCommand(cmd, unit, t, holds, cases', cs)
            /\ unit' = CommandTo[cmd]

SynchronizeSignedContract(c, cs, t) ==
    IF cs[c].type = "rs" THEN EnsureSignedReservation(c, cs, t)
    ELSE EnsurePurchaseStage(c, cs, t)

ReadyToSign(c, t) ==
    /\ TxTime(t)
    /\ contracts[c].st = "approved"
    /\ contracts[c].ver = "approved_for_signing"
    /\ cases[contracts[c].case].st = "active"
    /\ contracts[c].created <= t

CompleteSignature(c, t) ==
    /\ ReadyToSign(c, t)
    /\ contracts' = [contracts EXCEPT ![c].st = "signed", ![c].ver = "signed",
                                      ![c].party = TRUE]
    /\ SynchronizeSignedContract(c, contracts', t)
    /\ UNCHANGED <<now, planned, handedOver>>

\* sign_contract_externally; repeated on a signed contract it synchronizes again.
SignContractExternally(c, t) ==
    \/ CompleteSignature(c, t)
    \/ /\ TxTime(t)
       /\ contracts[c].st = "signed" /\ contracts[c].ver = "signed"
       /\ contracts[c].created <= t
       /\ SynchronizeSignedContract(c, contracts, t)
       /\ UNCHANGED <<now, contracts, planned, handedOver>>

\* record_contract_party_signature: one of several parties, or the last one.
RecordContractPartySignature(c, t) ==
    \/ CompleteSignature(c, t)
    \/ /\ ReadyToSign(c, t)
       /\ contracts' = [contracts EXCEPT ![c].party = TRUE]
       /\ UNCHANGED <<now, unit, holds, cases, planned, handedOver>>

-----------------------------------------------------------------------------
(* Administrative blocking, handover, time. *)

BlockUnit(t) ==
    /\ TxTime(t)
    /\ UnitCommand("blockUnit", unit, t, holds, cases, contracts)
    /\ unit' = "blocked"
    /\ UNCHANGED <<now, holds, cases, contracts, planned, handedOver>>

UnblockUnit(t) ==
    /\ TxTime(t)
    /\ UnitCommand("unblockUnit", unit, t, holds, cases, contracts)
    /\ unit' = "available"
    /\ UNCHANGED <<now, holds, cases, contracts, planned, handedOver>>

\* schedule_unit_handover_v2 remembers the active case, or none.
ScheduleUnitHandover ==
    /\ planned = {}
    /\ planned' = IF ActiveCases(cases) = {} THEN {None} ELSE ActiveCases(cases)
    /\ UNCHANGED <<now, unit, holds, cases, contracts, handedOver>>

\* update_unit_handover_v2 to "handed_over".
CompleteHandover ==
    /\ planned # {}
    /\ unit \in {"sold", "handed_over"}
    /\ unit' = "handed_over"
    /\ cases' = [k \in CaseIds |-> IF k \in planned
                                   THEN [cases[k] EXCEPT !.stage = "handover"]
                                   ELSE cases[k]]
    /\ planned' = {}
    /\ handedOver' = TRUE
    /\ UNCHANGED <<now, holds, contracts>>

\* update_unit_handover_v2 to "cancelled".
CancelHandover ==
    /\ planned # {}
    /\ planned' = {}
    /\ UNCHANGED <<now, unit, holds, cases, contracts, handedOver>>

Tick ==
    /\ now < MaxTime
    /\ now' = now + 1
    /\ UNCHANGED <<unit, holds, cases, contracts, planned, handedOver>>

HoldCommand(t) ==
    \/ \E h \in HoldIds : ExpireUnitHold(h, t)
    \/ \E h \in HoldIds : CancelUnitHold(h, t)
    \/ \E h \in HoldIds, k \in CaseIds, b \in Parties, kind \in HoldKinds,
          expires \in 1 .. MaxTime + 1, closed \in {"cancelled", "expired"} :
         CreateUnitHold(h, k, b, kind, expires, closed, t)

ContractCommand(c, t) ==
    \/ \E to \in Ended : EndContract(c, to, t)
    \/ SignContractExternally(c, t)
    \/ RecordContractPartySignature(c, t)

PreparationCommand(c) ==
    \/ \E k \in CaseIds, ty \in BaseTypes : CreateContract(c, k, ty)
    \/ CreateContractVersion(c)
    \/ \E to \in Unsigned : AdvanceContract(c, to)

UnitStatusCommand(t) == BlockUnit(t) \/ UnblockUnit(t)

HandoverCommand == ScheduleUnitHandover \/ CompleteHandover \/ CancelHandover

Next ==
    \/ Tick
    \/ \E t \in Times : HoldCommand(t) \/ UnitStatusCommand(t)
    \/ \E t \in Times, c \in ContractIds : ContractCommand(c, t)
    \/ \E c \in ContractIds : PreparationCommand(c)
    \/ HandoverCommand

Spec == Init /\ [][Next]_vars

-----------------------------------------------------------------------------
(* What the commands keep true together. *)

\* While a base contract is signed its sale goes on: the case is active, its
\* stage is not back at the negotiation, and the unit is not offered.  (The
\* triggers guard_contract_reservation and guard_contract_active_case, against
\* every order of hold, contract, blocking and handover commands.)
SignedContractProtectsUnit ==
    \A c \in ContractIds : contracts[c].st = "signed" =>
        /\ contracts[c].ver = "signed"
        /\ cases[contracts[c].case].st = "active"
        /\ cases[contracts[c].case].stage \notin {"interest", "pre_reservation"}
        /\ unit # "available"

\* A signed RS always has its reservation: the active hold that its own
\* signature made, whatever was signed, blocked, expired or ended since.
SignedRsKeepsReservation ==
    \A c \in ContractIds : contracts[c].st = "signed" /\ contracts[c].type = "rs" =>
        \E h \in ActiveHolds(holds) : /\ holds[h].by = c
                                      /\ holds[h].kind = "reservation"
                                      /\ holds[h].case = contracts[c].case

\* A purchase contract that was once signed keeps the unit sold for good, also
\* after the contract is cancelled or terminated (OWNERSHIP_UNVERIFIED).
PurchaseKeepsUnitSold ==
    PurchaseSigned(contracts) => unit \in {"sold", "handed_over"}

\* Every active hold belongs to the one active case of the unit: no command
\* closes a case over a hold, nor leaves a hold of an earlier buyer behind.
ActiveHoldsOfActiveCase ==
    \A h \in ActiveHolds(holds) : ActiveCases(cases) = {holds[h].case}

\* A buyer negotiates one base contract at a time, and signs RS before SBK
\* before KS: getNextContractAction with create_contract, kept through every
\* cancellation, new version and end.
OneOpenContractInOrder ==
    \A c, d \in ContractIds :
        c # d /\ Live(contracts[c]) /\ Live(contracts[d])
              /\ contracts[c].case = contracts[d].case
        => \/ contracts[c].st = "signed" /\ contracts[d].st = "signed"
           \/ contracts[c].st = "signed" /\ contracts[c].type \in {"rs", "sbk"}
                                         /\ contracts[d].type \in {"sbk", "ks"}
           \/ contracts[d].st = "signed" /\ contracts[d].type \in {"rs", "sbk"}
                                         /\ contracts[c].type \in {"sbk", "ks"}

\* Reservations come from a signature only: the commands that create or convert
\* a hold into a reservation by hand have no state in which they succeed.
ReservationOnlyBySignature ==
    /\ \A h \in HoldIds : holds[h].kind = "reservation" /\ holds[h].st # "absent"
                            => holds[h].by # None
    /\ \A h \in HoldIds, t \in Times :
         TxTime(t) => ~ConvertPreReservationEnabled(h, t)

\* The trigger's promise: at no instant do the dates of two active holds of the
\* unit protect it together, in whatever order the lock was granted.
HoldsNeverOverlap ==
    \A g, h \in ActiveHolds(holds) : g # h =>
        holds[g].expires <= holds[h].starts \/ holds[h].expires <= holds[g].starts

\* A unit returns to the offer from a sale only when nothing keeps it: no
\* active hold, no signature on a contract that has not ended, no handover.
ReleaseLeavesNothingBehind ==
    [][unit' = "available" /\ unit \in {"pre_reserved", "reserved", "contracted"} =>
         /\ ActiveHolds(holds') = {}
         /\ \A c \in ContractIds : Live(contracts'[c]) => ~SignatureEvidence(contracts'[c])
         /\ ~HandoverExists]_vars

\* A closed case is history: nothing reopens it or moves its stage, and its
\* unfinished contracts can only be reworked as drafts or ended.
ClosedCaseIsHistory ==
    [][\A k \in CaseIds : cases[k].st \in {"cancelled", "expired"} =>
         /\ cases'[k] = cases[k]
         /\ \A c \in OfCase(k) :
              contracts'[c].st \in {contracts[c].st, "draft"} \cup Ended
              /\ (contracts[c].party <=> contracts'[c].party)]_vars

\* The inductive invariant of the proofs.  An active case that has reached SBK,
\* KS or the handover still binds the unit, and a unit has one active case: with
\* these, no command can free a unit under a signature.
AdvancedCaseBindsUnit ==
    \A k \in ActiveCases(cases) :
        cases[k].stage \in {"sbk", "ks", "handover"}
            => unit \in {"contracted", "sold", "handed_over"}

ContractOfCase ==
    \A c \in ContractIds : contracts[c].st # "absent" => contracts[c].case \in CaseIds

OneActiveCase == \A j, k \in ActiveCases(cases) : j = k

SaleInvariant ==
    /\ TypeOK
    /\ SignedContractProtectsUnit
    /\ PurchaseKeepsUnitSold
    /\ ActiveHoldsOfActiveCase
    /\ AdvancedCaseBindsUnit
    /\ OneActiveCase
    /\ ContractOfCase

\* What the proofs add about the past of a sale.  The live contracts of a case
\* differ in type; ...
LiveTypesDiffer ==
    \A c, d \in ContractIds :
        c # d /\ Live(contracts[c]) /\ Live(contracts[d])
              /\ contracts[c].case = contracts[d].case
        => contracts[c].type # contracts[d].type

\* ... after an SBK or a KS of the case, signed or dropped, only a KS is open
\* (ReviewRequired); ...
OnlyPurchaseReopens ==
    \A c, d \in ContractIds :
        c # d /\ contracts[c].st \in Unsigned /\ contracts[d].st # "absent"
              /\ contracts[c].case = contracts[d].case
              /\ contracts[d].type \in {"sbk", "ks"}
        => contracts[c].type = "ks"

\* ... a bound unit is bound by an SBK or KS of the active case, signed at least
\* once; ...
BoundByPurchase ==
    unit \in {"contracted", "sold", "handed_over"} =>
        \E d \in ContractIds : /\ contracts[d].type \in {"sbk", "ks"}
                               /\ contracts[d].st \in {"signed"} \cup Ended
                               /\ cases[contracts[d].case].st = "active"

\* ... no case is closed under a planned handover that remembers it.
PlannedOfActiveCase == planned \ {None} \subseteq ActiveCases(cases)

BlankUntilInserted ==
    \A c \in ContractIds : contracts[c].st = "absent" => contracts[c].case = None

SaleHistory ==
    /\ SaleInvariant
    /\ OneOpenContractInOrder
    /\ LiveTypesDiffer
    /\ OnlyPurchaseReopens
    /\ BoundByPurchase
    /\ PlannedOfActiveCase
    /\ BlankUntilInserted
    /\ HoldsNeverOverlap

\* What the proofs add about reservations.  A case that has an active one is
\* past the negotiation, or the reservation has run out (only then does
\* prevent_unit_hold_overlap let a pre-reservation beside it) and the unit is
\* not reserved by it; ...
LateStages == {"reservation", "sbk", "ks", "handover"}

ReservationOfLateCase ==
    \A h \in ActiveHolds(holds) : holds[h].kind = "reservation" =>
        \/ cases[holds[h].case].stage \in LateStages
        \/ holds[h].expires <= now /\ unit # "reserved"

\* ... an RS still to be signed was drawn after it ran out, so the signature
\* finds no live reservation to take over; ...
OpenRsAfterReservation ==
    \A h \in ActiveHolds(holds), c \in ContractIds :
        /\ holds[h].kind = "reservation"
        /\ contracts[c].type = "rs" /\ contracts[c].st \in Unsigned
        /\ contracts[c].case = holds[h].case
        => /\ cases[holds[h].case].stage \notin LateStages
           /\ holds[h].expires <= contracts[c].created

\* ... no pre-reservation stays beside a signed RS; ...
SignedRsEndsPreReservations ==
    \A h \in ActiveHolds(holds), c \in ContractIds :
        holds[h].kind = "pre_reservation" /\ contracts[c].type = "rs"
            /\ contracts[c].st = "signed"
        => contracts[c].case # holds[h].case

\* ... and a reservation was made by a contract that was signed.
ReservationMadeBySigned ==
    \A h \in HoldIds : holds[h].by # None =>
        contracts[holds[h].by].st \in {"signed"} \cup Ended

SaleReservations ==
    /\ SaleHistory
    /\ SignedRsKeepsReservation
    /\ ReservationOnlyBySignature
    /\ ReservationOfLateCase
    /\ OpenRsAfterReservation
    /\ SignedRsEndsPreReservations
    /\ ReservationMadeBySigned

-----------------------------------------------------------------------------
(* What a reader of the price list may rely on: UnitSales implements UnitOffer. *)

OfferOf ==
    CASE unit = "available"                      -> "offered"
      [] unit \in {"pre_reserved", "reserved"}   -> "held"
      [] unit = "contracted"                     -> "bound"
      [] unit \in {"sold", "handed_over"}        -> "owned"
      [] unit = "blocked"                        -> "withdrawn"

SignedTypes ==
    {ty \in BaseTypes :
       \E c \in ContractIds : contracts[c].st = "signed" /\ contracts[c].type = ty}

Offer == INSTANCE UnitOffer WITH offer <- OfferOf, signed <- SignedTypes

\* Every behaviour of the commands is a behaviour of the abstract offer: no
\* interleaving offers a bound unit, readmits it, or takes an owned one back.
OfferSpec == Offer!Spec

=============================================================================
