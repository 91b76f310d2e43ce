--------------------------- MODULE UnitSalesProofs ---------------------------
(***************************************************************************)
(* Theorems about the commands of UnitSales, in three layers: the types;   *)
(* the safety of a signed sale, from the inductive invariant               *)
(* SaleInvariant; and the past of a sale, from SaleHistory and             *)
(* SaleReservations: which contracts a case can still open, how the unit's *)
(* holds follow each other, what a release and the closing of a case leave *)
(* behind.  Each lemma takes one group of commands through the parts of an *)
(* invariant that the group can disturb.                                   *)
(***************************************************************************)
EXTENDS UnitSales, TLAPS

USE UnitSalesAssumption

-----------------------------------------------------------------------------
(* The helpers keep the shape of the tables. *)

\* Expiring holds keeps the shape of unit_holds.
LEMMA ExpiredType ==
    ASSUME TypeOK, NEW S \in SUBSET HoldIds
    PROVE  Expired(S) \in [HoldIds -> HoldRow]
BY DEF TypeOK, Expired, HoldRow

\* Closing a case keeps the shape of its row.
LEMMA ClosedCaseType ==
    ASSUME NEW row \in CaseRow, NEW st \in {"cancelled", "expired"}
    PROVE  ClosedCase(row, st) \in CaseRow
BY DEF ClosedCase, CaseRow, Stages

\* A status command leads to a status.
LEMMA CommandToType ==
    ASSUME NEW cmd \in DOMAIN CommandTo
    PROVE  CommandTo[cmd] \in UnitStatus
BY DEF CommandTo, UnitStatus

\* The empty tables have the right shape.
LEMMA InitType == Init => TypeOK
<1> SUFFICES ASSUME Init PROVE TypeOK
  OBVIOUS
<1>1. 0 \in Times /\ 0 \in LaterTimes
  BY DEF UnitSalesAssumption, Times, LaterTimes
<1>2. NoHold \in HoldRow
  BY <1>1 DEF NoHold, HoldRow, HoldKinds
<1>3. NoSale \in CaseRow
  BY DEF NoSale, CaseRow, Stages
<1>4. NoContract \in ContractRow
  BY <1>1 DEF NoContract, ContractRow, BaseTypes
<1> QED
  BY <1>1, <1>2, <1>3, <1>4 DEF Init, TypeOK, UnitStatus

-----------------------------------------------------------------------------
(* Each command keeps the type invariant. *)

LEMMA ExpireType ==
    ASSUME TypeOK, NEW h \in HoldIds, NEW t \in Times, ExpireUnitHold(h, t)
    PROVE  TypeOK'
<1>1. holds' \in [HoldIds -> HoldRow]
  BY ExpiredType DEF ExpireUnitHold
<1>2. unit' \in UnitStatus /\ cases' \in [CaseIds -> CaseRow]
  <2>1. CASE FreesUnit({h})
    <3>1. \A k \in CaseIds : ClosedCase(cases[k], "expired") \in CaseRow
      BY ClosedCaseType DEF TypeOK
    <3> QED BY <2>1, <3>1 DEF ExpireUnitHold, TypeOK, UnitStatus
  <2>2. CASE ~FreesUnit({h})
    BY <2>2 DEF ExpireUnitHold, TypeOK
  <2> QED BY <2>1, <2>2
<1> QED BY <1>1, <1>2 DEF ExpireUnitHold, TypeOK

LEMMA CancelType ==
    ASSUME TypeOK, NEW h \in HoldIds, NEW t \in Times, CancelUnitHold(h, t)
    PROVE  TypeOK'
<1>1. holds' \in [HoldIds -> HoldRow]
  BY DEF CancelUnitHold, TypeOK, HoldRow
<1>2. \A k \in CaseIds : /\ ClosedCase(cases[k], "cancelled") \in CaseRow
                         /\ [cases[k] EXCEPT !.stage = "interest"] \in CaseRow
  BY ClosedCaseType DEF TypeOK, CaseRow, Stages
<1>3. unit' \in UnitStatus /\ cases' \in [CaseIds -> CaseRow]
  BY <1>2 DEF CancelUnitHold, TypeOK, UnitStatus
<1> QED BY <1>1, <1>3 DEF CancelUnitHold, TypeOK

LEMMA CreateHoldType ==
    ASSUME TypeOK, NEW h \in HoldIds, NEW k \in CaseIds, NEW b \in Parties,
           NEW kind \in HoldKinds, NEW expires \in 1 .. MaxTime + 1,
           NEW closed \in {"cancelled", "expired"}, NEW t \in Times,
           CreateUnitHold(h, k, b, kind, expires, closed, t)
    PROVE  TypeOK'
<1> DEFINE stale == {g \in HoldIds : Expirable(g, t)}
           freed == FreesUnit(stale)
           ks    == [j \in CaseIds |->
                       IF freed /\ \E g \in stale : holds[g].case = j
                       THEN ClosedCase(cases[j], "expired") ELSE cases[j]]
<1>1. Expired(stale) \in [HoldIds -> HoldRow]
  BY ExpiredType
<1>2. [st |-> "active", kind |-> kind, case |-> k, starts |-> t,
       expires |-> expires, by |-> None] \in HoldRow
  BY DEF HoldRow, HoldKinds, Times, LaterTimes
<1>3. holds' \in [HoldIds -> HoldRow]
  BY <1>1, <1>2 DEF CreateUnitHold
<1>4. ks \in [CaseIds -> CaseRow]
  BY ClosedCaseType DEF TypeOK
<1>5. [st |-> "active", stage |-> kind, buyer |-> b] \in CaseRow
  BY DEF CaseRow, HoldKinds, Stages
<1>6. \A j \in CaseIds : ClosedCase(ks[j], closed) \in CaseRow
  BY <1>4, ClosedCaseType
<1>7. cases' = [j \in CaseIds |->
                  IF j = k THEN [st |-> "active", stage |-> kind, buyer |-> b]
                  ELSE IF j \in ActiveCases(ks) THEN ClosedCase(ks[j], closed)
                  ELSE ks[j]]
  BY DEF CreateUnitHold
<1>8. cases' \in [CaseIds -> CaseRow]
  BY <1>4, <1>5, <1>6, <1>7
<1>9. unit' \in UnitStatus
  BY DEF CreateUnitHold, CommandTo, UnitStatus
<1> QED BY <1>3, <1>8, <1>9 DEF CreateUnitHold, TypeOK

LEMMA PreparationType ==
    ASSUME TypeOK, NEW c \in ContractIds, PreparationCommand(c)
    PROVE  TypeOK'
<1>1. ASSUME NEW k \in CaseIds, NEW ty \in BaseTypes, CreateContract(c, k, ty)
      PROVE  TypeOK'
  <2> DEFINE row == [NoContract EXCEPT !.st = "draft", !.type = ty, !.case = k,
                                       !.created = now]
  <2>1. row \in ContractRow
    <3>1. 0 \in Times
      BY DEF UnitSalesAssumption, Times
    <3>2. NoContract \in ContractRow
      BY <3>1 DEF NoContract, ContractRow, BaseTypes
    <3> QED BY <3>2 DEF TypeOK, ContractRow, Unsigned
  <2>2. contracts' = [contracts EXCEPT ![c] = row]
    BY <1>1 DEF CreateContract
  <2>3. contracts' \in [ContractIds -> ContractRow]
    BY <2>1, <2>2 DEF TypeOK
  <2> QED BY <1>1, <2>3 DEF CreateContract, TypeOK
<1>2. CASE CreateContractVersion(c)
  <2>1. [contracts[c] EXCEPT !.st = "draft", !.ver = "working"] \in ContractRow
    BY DEF TypeOK, ContractRow, Unsigned
  <2>2. contracts' = [contracts EXCEPT
          ![c] = [contracts[c] EXCEPT !.st = "draft", !.ver = "working"]]
    BY <1>2 DEF CreateContractVersion, TypeOK
  <2>3. contracts' \in [ContractIds -> ContractRow]
    BY <2>1, <2>2 DEF TypeOK
  <2> QED BY <1>2, <2>3 DEF CreateContractVersion, TypeOK
<1>3. ASSUME NEW to \in Unsigned, AdvanceContract(c, to)
      PROVE  TypeOK'
  <2>1. contracts[c] \in ContractRow
    BY DEF TypeOK
  <2>2. contracts' \in [ContractIds -> ContractRow]
    BY <1>3, <2>1 DEF AdvanceContract, TypeOK, ContractRow
  <2> QED BY <1>3, <2>2 DEF AdvanceContract, TypeOK
<1> QED BY <1>1, <1>2, <1>3 DEF PreparationCommand

LEMMA EndType ==
    ASSUME TypeOK, NEW c \in ContractIds, NEW to \in Ended, NEW t \in Times,
           EndContract(c, to, t)
    PROVE  TypeOK'
<1>1. contracts' \in [ContractIds -> ContractRow]
  BY DEF EndContract, TypeOK, ContractRow
<1>2. holds' \in [HoldIds -> HoldRow]
  BY DEF EndContract, TypeOK, HoldRow
<1>3. \A k \in CaseIds : ClosedCase(cases[k], "cancelled") \in CaseRow
  BY ClosedCaseType DEF TypeOK
<1>4. cases' \in [CaseIds -> CaseRow]
  BY <1>3 DEF EndContract, TypeOK
<1>5. unit' \in UnitStatus
  BY DEF EndContract, TypeOK, UnitStatus
<1> QED BY <1>1, <1>2, <1>4, <1>5 DEF EndContract, TypeOK

\* The reservation of a signed RS is a row of unit_holds.
LEMMA ReplaceType ==
    ASSUME TypeOK, NEW c \in ContractIds, NEW t \in Times, ReplaceByReservation(c, t)
    PROVE  holds' \in [HoldIds -> HoldRow]
<1> DEFINE k     == contracts[c].case
           pre   == {h \in ActiveHolds(holds) :
                       holds[h].case = k /\ holds[h].kind = "pre_reservation"}
           term  == t + ReservationTerm
           ended(p) == [h \in HoldIds |->
                          IF h \notin ActiveHolds(holds) THEN holds[h]
                          ELSE [holds[h] EXCEPT !.st =
                                  IF h = p THEN "converted" ELSE "expired"]]
           last(p) == IF pre # {} /\ holds[p].expires > term
                      THEN holds[p].expires ELSE term
           row(p) == [st |-> "active", kind |-> "reservation", case |-> k,
                      starts |-> t, by |-> c, expires |-> last(p)]
<1>1. PICK p \in IF pre = {} THEN {None} ELSE pre :
         \/ holds' = ended(p)
         \/ \E h \in HoldIds : holds' = [ended(p) EXCEPT ![h] = row(p)]
  BY DEF ReplaceByReservation
<1>2. ended(p) \in [HoldIds -> HoldRow]
  BY DEF TypeOK, HoldRow
<1>3. last(p) \in LaterTimes
  <2>1. term \in LaterTimes
    BY DEF UnitSalesAssumption, Times, LaterTimes
  <2>2. ASSUME pre # {} PROVE holds[p].expires \in LaterTimes
    BY <2>2 DEF ActiveHolds, TypeOK, HoldRow
  <2> QED BY <2>1, <2>2
<1>4. row(p) \in HoldRow
  BY <1>3 DEF TypeOK, ContractRow, HoldRow, HoldKinds
<1> QED BY <1>1, <1>2, <1>4

\* What a signature synchronizes keeps its tables' shape.
LEMMA SynchronizeType ==
    ASSUME TypeOK, NEW c \in ContractIds, NEW t \in Times,
           NEW cs \in [ContractIds -> ContractRow], cs[c].case = contracts[c].case,
           SynchronizeSignedContract(c, cs, t)
    PROVE  /\ holds' \in [HoldIds -> HoldRow]
           /\ cases' \in [CaseIds -> CaseRow]
           /\ unit' \in UnitStatus
<1>1. CASE cs[c].type = "rs"
  <2>1. EnsureSignedReservation(c, cs, t)
    BY <1>1 DEF SynchronizeSignedContract
  <2>2. holds' \in [HoldIds -> HoldRow]
    BY <2>1, ReplaceType DEF EnsureSignedReservation, TypeOK
  <2>3. cases' \in [CaseIds -> CaseRow]
    BY <2>1 DEF EnsureSignedReservation, TypeOK, CaseRow, Stages
  <2>4. unit' \in UnitStatus
    BY <2>1 DEF EnsureSignedReservation, TypeOK, UnitStatus
  <2> QED BY <2>2, <2>3, <2>4
<1>2. CASE cs[c].type # "rs"
  <2>1. cs[c].type \in {"sbk", "ks"} /\ EnsurePurchaseStage(c, cs, t)
    BY <1>2 DEF SynchronizeSignedContract, ContractRow, BaseTypes
  <2>2. cases' \in [CaseIds -> CaseRow]
    BY <2>1 DEF EnsurePurchaseStage, TypeOK, CaseRow, Stages
  <2>3. unit' \in UnitStatus
    BY <2>1 DEF EnsurePurchaseStage, CommandTo, TypeOK, UnitStatus
  <2> QED BY <2>1, <2>2, <2>3 DEF EnsurePurchaseStage, TypeOK
<1> QED BY <1>1, <1>2

LEMMA SignType ==
    ASSUME TypeOK, NEW c \in ContractIds, NEW t \in Times,
           \/ SignContractExternally(c, t)
           \/ RecordContractPartySignature(c, t)
    PROVE  TypeOK'
<1>1. CASE CompleteSignature(c, t)
  <2>1. contracts' \in [ContractIds -> ContractRow]
    BY <1>1 DEF CompleteSignature, TypeOK, ContractRow
  <2>2. contracts'[c].case = contracts[c].case
    BY <1>1 DEF CompleteSignature, TypeOK, ContractRow
  <2> QED BY <1>1, <2>1, <2>2, SynchronizeType DEF CompleteSignature, TypeOK
<1>2. CASE SynchronizeSignedContract(c, contracts, t)
           /\ UNCHANGED <<now, contracts, planned, handedOver>>
  <2>1. contracts \in [ContractIds -> ContractRow]
    BY DEF TypeOK
  <2> QED BY <1>2, <2>1, SynchronizeType DEF TypeOK
<1>3. CASE contracts' = [contracts EXCEPT ![c].party = TRUE]
           /\ UNCHANGED <<now, unit, holds, cases, planned, handedOver>>
  BY <1>3 DEF TypeOK, ContractRow
<1> QED
  BY <1>1, <1>2, <1>3 DEF SignContractExternally, RecordContractPartySignature

LEMMA UnitAndHandoverType ==
    ASSUME TypeOK,
           \/ \E t \in Times : UnitStatusCommand(t)
           \/ HandoverCommand
           \/ Tick
    PROVE  TypeOK'
<1>1. ASSUME NEW t \in Times, UnitStatusCommand(t) PROVE TypeOK'
  BY <1>1 DEF UnitStatusCommand, BlockUnit, UnblockUnit, TypeOK, UnitStatus
<1>2. CASE ScheduleUnitHandover
  BY <1>2 DEF ScheduleUnitHandover, ActiveCases, TypeOK
<1>3. CASE CompleteHandover
  BY <1>3 DEF CompleteHandover, TypeOK, CaseRow, Stages, UnitStatus
<1>4. CASE CancelHandover
  BY <1>4 DEF CancelHandover, TypeOK
<1>5. CASE Tick
  BY <1>5 DEF Tick, TypeOK, Times, UnitSalesAssumption
<1> QED BY <1>1, <1>2, <1>3, <1>4, <1>5 DEF HandoverCommand

\* Every step keeps the type invariant.
LEMMA NextType == TypeOK /\ [Next]_vars => TypeOK'
<1> SUFFICES ASSUME TypeOK, [Next]_vars PROVE TypeOK'
  OBVIOUS
<1>1. ASSUME NEW t \in Times, HoldCommand(t) PROVE TypeOK'
  BY <1>1, ExpireType, CancelType, CreateHoldType DEF HoldCommand
<1>2. ASSUME NEW t \in Times, NEW c \in ContractIds, ContractCommand(c, t)
      PROVE  TypeOK'
  BY <1>2, EndType, SignType DEF ContractCommand
<1>3. ASSUME NEW c \in ContractIds, PreparationCommand(c) PROVE TypeOK'
  BY <1>3, PreparationType
<1>4. CASE UNCHANGED vars
  BY <1>4 DEF vars, TypeOK
<1> QED
  BY <1>1, <1>2, <1>3, <1>4, UnitAndHandoverType DEF Next

\* In every behaviour of the commands, for any number of buyers, rows and
\* clock values, the tables satisfy their constraints and references.
THEOREM TypeCorrect == Spec => []TypeOK
<1>1. Init => TypeOK
  BY InitType
<1>2. TypeOK /\ [Next]_vars => TypeOK'
  BY NextType
<1> QED BY <1>1, <1>2, PTL DEF Spec

-----------------------------------------------------------------------------
(***************************************************************************)
(* The safety of a signed sale                                             *)
(***************************************************************************)

HIDE UnitSalesAssumption

\* The parts of the invariant beside the type.
Parts ==
    /\ SignedContractProtectsUnit
    /\ PurchaseKeepsUnitSold
    /\ ActiveHoldsOfActiveCase
    /\ AdvancedCaseBindsUnit
    /\ OneActiveCase
    /\ ContractOfCase

\* The empty tables satisfy the invariant: nothing is active and nothing signed.
LEMMA InitInvariant == Init => SaleInvariant
<1> SUFFICES ASSUME Init PROVE SaleInvariant
  OBVIOUS
<1>1. TypeOK
  BY InitType
<1>2. ActiveHolds(holds) = {} /\ ActiveCases(cases) = {}
  BY DEF Init, ActiveHolds, ActiveCases, NoHold, NoSale
<1>3. \A c \in ContractIds : contracts[c].st = "absent" /\ contracts[c].ver = "working"
  BY DEF Init, NoContract
<1>4. SignedContractProtectsUnit /\ PurchaseKeepsUnitSold
  BY <1>3 DEF SignedContractProtectsUnit, PurchaseKeepsUnitSold, PurchaseSigned
<1>5. ActiveHoldsOfActiveCase /\ AdvancedCaseBindsUnit /\ OneActiveCase /\ ContractOfCase
  BY <1>2, <1>3 DEF ContractOfCase, ActiveHoldsOfActiveCase, AdvancedCaseBindsUnit, OneActiveCase
<1> QED BY <1>1, <1>4, <1>5 DEF SaleInvariant

-----------------------------------------------------------------------------
(* Commands that change holds. *)

\* What closing a case leaves: a case that is not active.
LEMMA ClosedCaseCloses ==
    ASSUME NEW row \in CaseRow, NEW st \in {"cancelled", "expired"}
    PROVE  ClosedCase(row, st).st # "active"
BY DEF ClosedCase, CaseRow

\* Without a signed contract and with contracts unchanged, the first part holds.
LEMMA NothingSigned ==
    ASSUME ~HasEffectiveSignedContract(contracts), UNCHANGED contracts, ContractOfCase
    PROVE  SignedContractProtectsUnit' /\ ContractOfCase'
BY DEF ContractOfCase, HasEffectiveSignedContract, SignedContractProtectsUnit

LEMMA ExpireInvariant ==
    ASSUME SaleInvariant, NEW h \in HoldIds, NEW t \in Times, ExpireUnitHold(h, t)
    PROVE  Parts'
<1> USE DEF SaleInvariant
<1>1. ~HasEffectiveSignedContract(contracts) /\ UNCHANGED contracts
  BY DEF ExpireUnitHold, Expirable
<1>2. SignedContractProtectsUnit' /\ ContractOfCase'
  BY <1>1, NothingSigned
<1>3. ActiveHolds(holds') \subseteq ActiveHolds(holds)
      /\ \A g \in HoldIds : holds'[g].case = holds[g].case
  BY DEF ExpireUnitHold, Expired, ActiveHolds, TypeOK, HoldRow
<1>4. CASE FreesUnit({h})
  <2>1. unit = "pre_reserved" /\ unit' = "available" /\ ActiveHolds(holds') = {}
    BY <1>4 DEF ExpireUnitHold, FreesUnit
  <2>2. \A k \in ActiveCases(cases') : k \in ActiveCases(cases) /\ cases'[k] = cases[k]
    BY <1>4, ClosedCaseCloses DEF ExpireUnitHold, ActiveCases, TypeOK
  <2>3. AdvancedCaseBindsUnit' /\ OneActiveCase'
    BY <2>1, <2>2 DEF AdvancedCaseBindsUnit, OneActiveCase
  <2>4. ActiveHoldsOfActiveCase'
    BY <2>1 DEF ActiveHoldsOfActiveCase
  <2>5. PurchaseKeepsUnitSold'
    BY <1>1, <2>1 DEF PurchaseKeepsUnitSold
  <2> QED BY <1>2, <2>3, <2>4, <2>5 DEF Parts
<1>5. CASE ~FreesUnit({h})
  <2>1. UNCHANGED <<unit, cases>>
    BY <1>5 DEF ExpireUnitHold
  <2>2. ActiveHoldsOfActiveCase'
    BY <1>3, <2>1 DEF ActiveHoldsOfActiveCase, ActiveHolds
  <2> QED
    BY <1>1, <1>2, <2>1, <2>2 DEF Parts, PurchaseKeepsUnitSold,
                                  AdvancedCaseBindsUnit, OneActiveCase
<1> QED BY <1>4, <1>5

LEMMA CancelInvariant ==
    ASSUME SaleInvariant, NEW h \in HoldIds, NEW t \in Times, CancelUnitHold(h, t)
    PROVE  Parts'
<1> USE DEF SaleInvariant
<1> DEFINE frees == unit \in {"pre_reserved", "reserved"} /\ ActiveHolds(holds') = {}
<1>1. ~HasEffectiveSignedContract(contracts) /\ UNCHANGED contracts
  BY DEF CancelUnitHold
<1>2. SignedContractProtectsUnit' /\ ContractOfCase'
  BY <1>1, NothingSigned
<1>3. ActiveHolds(holds') \subseteq ActiveHolds(holds)
      /\ \A g \in HoldIds : holds'[g].case = holds[g].case
  BY DEF CancelUnitHold, ActiveHolds, TypeOK, HoldRow
<1>4. CASE frees
  <2>1. unit' = "available"
    BY <1>4 DEF CancelUnitHold
  <2>2. \A k \in CaseIds : \/ cases'[k] = cases[k]
                           \/ cases'[k].st # "active"
                           \/ cases'[k] = [cases[k] EXCEPT !.stage = "interest"]
    BY <1>4, ClosedCaseCloses DEF CancelUnitHold, TypeOK
  <2>3. ASSUME NEW k \in ActiveCases(cases')
        PROVE  k \in ActiveCases(cases) /\ cases'[k].stage \in {cases[k].stage, "interest"}
    <3>1. k \in CaseIds /\ cases'[k].st = "active" /\ cases[k] \in CaseRow
      BY DEF ActiveCases, TypeOK
    <3> QED BY <2>2, <3>1 DEF ActiveCases, CaseRow
  <2>4. AdvancedCaseBindsUnit' /\ OneActiveCase'
    BY <1>4, <2>1, <2>3 DEF AdvancedCaseBindsUnit, OneActiveCase
  <2>5. ActiveHoldsOfActiveCase'
    BY <1>4 DEF ActiveHoldsOfActiveCase
  <2>6. PurchaseKeepsUnitSold'
    BY <1>1, <1>4 DEF PurchaseKeepsUnitSold
  <2> QED BY <1>2, <2>4, <2>5, <2>6 DEF Parts
<1>5. CASE ~frees
  <2>1. UNCHANGED <<unit, cases>>
    BY <1>5 DEF CancelUnitHold
  <2>2. ActiveHoldsOfActiveCase'
    BY <1>3, <2>1 DEF ActiveHoldsOfActiveCase, ActiveHolds
  <2> QED
    BY <1>1, <1>2, <2>1, <2>2 DEF Parts, PurchaseKeepsUnitSold,
                                  AdvancedCaseBindsUnit, OneActiveCase
<1> QED BY <1>4, <1>5

LEMMA CreateHoldInvariant ==
    ASSUME SaleInvariant, NEW h \in HoldIds, NEW k \in CaseIds, NEW b \in Parties,
           NEW kind \in HoldKinds, NEW expires \in 1 .. MaxTime + 1,
           NEW closed \in {"cancelled", "expired"}, NEW t \in Times,
           CreateUnitHold(h, k, b, kind, expires, closed, t)
    PROVE  Parts'
<1> USE DEF SaleInvariant
<1> DEFINE stale == {g \in HoldIds : Expirable(g, t)}
           hs    == Expired(stale)
           freed == FreesUnit(stale)
           ks    == [j \in CaseIds |->
                       IF freed /\ \E g \in stale : holds[g].case = j
                       THEN ClosedCase(cases[j], "expired") ELSE cases[j]]
           row   == [st |-> "active", stage |-> kind, buyer |-> b]
           new   == [st |-> "active", kind |-> kind, case |-> k,
                     starts |-> t, expires |-> expires, by |-> None]
<1>1. UNCHANGED contracts
  BY DEF CreateUnitHold
<1>2. ~HasEffectiveSignedContract(contracts) /\ unit \in {"available", "pre_reserved"}
  <2>1. CASE freed
    BY <2>1 DEF FreesUnit, Expirable
  <2>2. CASE ~freed
    <3>1. unit = "available"
      BY <2>2 DEF CreateUnitHold, UnitCommand, CommandFrom, HoldKinds
    <3> QED BY <3>1 DEF SignedContractProtectsUnit, HasEffectiveSignedContract
  <2> QED BY <2>1, <2>2
<1>3. SignedContractProtectsUnit' /\ ContractOfCase' /\ PurchaseKeepsUnitSold'
  BY <1>1, <1>2, NothingSigned DEF PurchaseKeepsUnitSold
<1>4. /\ holds' = [hs EXCEPT ![h] = new]
      /\ cases' = [j \in CaseIds |-> IF j = k THEN row
                                     ELSE IF j \in ActiveCases(ks) THEN ClosedCase(ks[j], closed)
                                     ELSE ks[j]]
      /\ JoinsCase(k, b, ks, hs, closed, t)
  BY DEF CreateUnitHold
<1>5. ks \in [CaseIds -> CaseRow]
  BY ClosedCaseType DEF TypeOK
<1>6. ActiveCases(cases') = {k} /\ cases'[k] = row
  BY <1>4, <1>5, ClosedCaseCloses DEF ActiveCases
<1>7. AdvancedCaseBindsUnit' /\ OneActiveCase'
  BY <1>6 DEF AdvancedCaseBindsUnit, OneActiveCase, HoldKinds
<1>8. ActiveHoldsOfActiveCase'
  <2> SUFFICES ASSUME NEW g \in ActiveHolds(holds'), g # h
               PROVE  holds'[g].case = k
    BY <1>4, <1>6 DEF ActiveHoldsOfActiveCase, ActiveHolds, Expired
  <2>1. g \in ActiveHolds(hs) /\ holds'[g] = hs[g]
    BY <1>4 DEF ActiveHolds, Expired
  <2>2. ~freed /\ ks = cases
    BY <2>1 DEF FreesUnit, TypeOK
  <2>3. g \in ActiveHolds(holds) /\ hs[g].case = holds[g].case
    BY <2>1 DEF ActiveHolds, Expired, TypeOK, HoldRow
  <2>4. ActiveCases(cases) = {holds[g].case}
    BY <2>3 DEF ActiveHoldsOfActiveCase
  <2>5. ks[k].st = "active"
    BY <1>4, <2>1, <2>2, <2>4 DEF JoinsCase, Closable, ResidualCase
  <2> QED BY <2>1, <2>2, <2>3, <2>4, <2>5 DEF ActiveCases
<1> QED BY <1>3, <1>7, <1>8 DEF Parts

-----------------------------------------------------------------------------
(* Commands that change contracts. *)

\* Preparing a contract signs nothing and leaves the unit and its case alone.
LEMMA PreparationInvariant ==
    ASSUME SaleInvariant, NEW c \in ContractIds, PreparationCommand(c)
    PROVE  Parts'
<1> USE DEF SaleInvariant
<1>1. UNCHANGED <<unit, holds, cases>>
  BY DEF PreparationCommand, CreateContract, CreateContractVersion, AdvanceContract
<1>2. ActiveHoldsOfActiveCase' /\ AdvancedCaseBindsUnit' /\ OneActiveCase'
  BY <1>1 DEF ActiveHoldsOfActiveCase, AdvancedCaseBindsUnit, OneActiveCase
<1>3. ASSUME NEW d \in ContractIds
      PROVE  \/ contracts'[d] = contracts[d]
             \/ /\ contracts'[d].st # "signed"
                /\ contracts'[d].ver = "signed" => /\ contracts[d].ver = "signed"
                                                  /\ contracts'[d].type = contracts[d].type
  <2>0. contracts[d] \in ContractRow
    BY DEF TypeOK
  <2>1. ASSUME NEW k \in CaseIds, NEW ty \in BaseTypes, CreateContract(c, k, ty)
        PROVE  <1>3!2
    BY <2>1 DEF CreateContract, NoContract, TypeOK
  <2>2. CASE CreateContractVersion(c)
    BY <2>0, <2>2 DEF CreateContractVersion, TypeOK, ContractRow
  <2>3. ASSUME NEW to \in Unsigned, AdvanceContract(c, to)
        PROVE  <1>3!2
    BY <2>0, <2>3 DEF AdvanceContract, TypeOK, ContractRow, Unsigned
  <2> QED BY <2>1, <2>2, <2>3 DEF PreparationCommand
<1>4. SignedContractProtectsUnit'
  BY <1>1, <1>3 DEF SignedContractProtectsUnit
<1>5. PurchaseKeepsUnitSold'
  BY <1>1, <1>3 DEF PurchaseKeepsUnitSold, PurchaseSigned
<1>6. ContractOfCase'
  <2> SUFFICES ASSUME NEW d \in ContractIds, contracts'[d].st # "absent"
               PROVE  contracts'[d].case \in CaseIds
    BY DEF ContractOfCase
  <2>1. ASSUME NEW k \in CaseIds, NEW ty \in BaseTypes, CreateContract(c, k, ty)
        PROVE  contracts'[d].case \in CaseIds
    BY <2>1 DEF CreateContract, NoContract, TypeOK, ContractOfCase
  <2>2. CASE CreateContractVersion(c)
    BY <2>2 DEF CreateContractVersion, TypeOK, ContractRow, ContractOfCase, Unsigned
  <2>3. ASSUME NEW to \in Unsigned, AdvanceContract(c, to)
        PROVE  contracts'[d].case \in CaseIds
    BY <2>3 DEF AdvanceContract, TypeOK, ContractRow, ContractOfCase, Unsigned
  <2> QED BY <2>1, <2>2, <2>3 DEF PreparationCommand
<1> QED BY <1>2, <1>4, <1>5, <1>6 DEF Parts

\* The end of a contract releases the unit only when no other is signed and no
\* hold of another case is active.
LEMMA EndInvariant ==
    ASSUME SaleInvariant, NEW c \in ContractIds, NEW to \in Ended, NEW t \in Times,
           EndContract(c, to, t)
    PROVE  Parts'
<1> USE DEF SaleInvariant
<1> DEFINE k == contracts[c].case
<1>1. ASSUME NEW d \in ContractIds
      PROVE  /\ contracts'[d].case = contracts[d].case
             /\ contracts'[d].type = contracts[d].type
             /\ contracts'[d].ver = contracts[d].ver
             /\ d # c => contracts'[d] = contracts[d]
             /\ contracts'[c].st \in Ended
  BY DEF EndContract, TypeOK, ContractRow
<1>2. PurchaseSigned(contracts') <=> PurchaseSigned(contracts)
  BY <1>1 DEF PurchaseSigned
<1>0. ContractOfCase'
  <2>1. contracts[c].st # "absent"
    BY DEF EndContract, Live
  <2> QED BY <1>1, <2>1 DEF ContractOfCase
<1>3. CASE ReleaseEligible(c, contracts', t)
  <2>1. \A d \in ContractIds : contracts'[d].st # "signed"
    BY <1>1, <1>3 DEF ReleaseEligible, BlocksUnitRelease, EffectivelyEnded, Ended, Unsigned
  <2>2. ActiveCases(cases) = {k} /\ \A h \in ActiveHolds(holds) : holds[h].case = k
    BY <1>1, <1>3 DEF ReleaseEligible, ReleasableHold
  <2>3. /\ holds' = [h \in HoldIds |->
                       IF h \in ActiveHolds(holds) /\ holds[h].case = k
                       THEN [holds[h] EXCEPT !.st = "cancelled"] ELSE holds[h]]
        /\ cases' = [cases EXCEPT ![k] = ClosedCase(@, "cancelled")]
    BY <1>3 DEF EndContract
  <2>4. ActiveHolds(holds') = {}
    BY <2>2, <2>3 DEF ActiveHolds, TypeOK, HoldRow
  <2>5. ActiveCases(cases') = {}
    BY <2>2, <2>3, ClosedCaseCloses DEF ActiveCases, TypeOK
  <2>6. ~PurchaseSigned(contracts')
    BY <1>3 DEF ReleaseEligible
  <2> QED
    BY <1>0, <2>1, <2>4, <2>5, <2>6 DEF Parts, SignedContractProtectsUnit, PurchaseKeepsUnitSold,
       ActiveHoldsOfActiveCase, AdvancedCaseBindsUnit, OneActiveCase
<1>4. CASE ~ReleaseEligible(c, contracts', t)
  <2>1. UNCHANGED <<unit, holds, cases>>
    BY <1>4 DEF EndContract
  <2>2. SignedContractProtectsUnit'
    BY <1>1, <2>1 DEF SignedContractProtectsUnit, Ended
  <2> QED
    BY <1>0, <1>2, <2>1, <2>2 DEF Parts, PurchaseKeepsUnitSold,
       ActiveHoldsOfActiveCase, AdvancedCaseBindsUnit, OneActiveCase
<1> QED BY <1>3, <1>4

\* The reservation of a signed RS is the only active hold that it leaves.
LEMMA ReplaceLeavesOne ==
    ASSUME TypeOK, NEW c \in ContractIds, NEW t \in Times, ReplaceByReservation(c, t)
    PROVE  \A h \in ActiveHolds(holds') : holds'[h].case = contracts[c].case
<1> DEFINE ended(p) == [h \in HoldIds |->
                          IF h \notin ActiveHolds(holds) THEN holds[h]
                          ELSE [holds[h] EXCEPT !.st =
                                  IF h = p THEN "converted" ELSE "expired"]]
<1> DEFINE pre    == {h \in ActiveHolds(holds) :
                        holds[h].case = contracts[c].case /\ holds[h].kind = "pre_reservation"}
           term   == t + ReservationTerm
           row(p) == [st |-> "active", kind |-> "reservation", case |-> contracts[c].case,
                      starts |-> t, by |-> c,
                      expires |-> IF pre # {} /\ holds[p].expires > term
                                  THEN holds[p].expires ELSE term]
<1>1. PICK p \in IF pre = {} THEN {None} ELSE pre :
         \/ holds' = ended(p)
         \/ \E h \in HoldIds : holds' = [ended(p) EXCEPT ![h] = row(p)]
  BY DEF ReplaceByReservation
<1>2. \A h \in HoldIds : ended(p)[h].st # "active"
  BY DEF ActiveHolds, TypeOK, HoldRow
<1>3. row(p).case = contracts[c].case
  OBVIOUS
<1>4. DOMAIN ended(p) = HoldIds
  OBVIOUS
<1> HIDE DEF ended, row
<1> QED BY <1>1, <1>2, <1>3, <1>4 DEF ActiveHolds

\* What a signature leaves: the unit off the market, its case active and
\* advanced, and no hold of another case.
LEMMA SynchronizeInvariant ==
    ASSUME SaleInvariant, NEW c \in ContractIds, NEW t \in Times,
           NEW cs \in [ContractIds -> ContractRow], cs[c].case = contracts[c].case,
           contracts[c].st # "absent", cases[contracts[c].case].st = "active",
           SynchronizeSignedContract(c, cs, t)
    PROVE  /\ unit' # "available"
           /\ unit \in {"sold", "handed_over"} => unit' \in {"sold", "handed_over"}
           /\ cs[c].type = "ks" => unit' \in {"sold", "handed_over"}
           /\ \A k \in CaseIds :
                /\ cases'[k].st = cases[k].st
                /\ cases[k].stage \notin {"interest", "pre_reservation"} \/ k = contracts[c].case
                     => cases'[k].stage \notin {"interest", "pre_reservation"}
           /\ ActiveHoldsOfActiveCase' /\ AdvancedCaseBindsUnit' /\ OneActiveCase'
<1> USE DEF SaleInvariant
<1> DEFINE k == contracts[c].case
<1>1. k \in CaseIds /\ ActiveCases(cases) = {k}
  BY DEF ContractOfCase, OneActiveCase, ActiveCases
<1>2. ASSUME NEW stage \in Stages, cases' = [cases EXCEPT ![k].stage = stage]
      PROVE  /\ ActiveCases(cases') = {k}
             /\ cases'[k].stage = stage
             /\ \A j \in CaseIds : cases'[j].st = cases[j].st /\ (j # k => cases'[j] = cases[j])
  BY <1>1, <1>2 DEF ActiveCases, TypeOK, CaseRow
<1>3. CASE cs[c].type = "rs" /\ cases[k].stage \in {"sbk", "ks", "handover"}
  <2>1. UNCHANGED <<unit, holds, cases>>
    BY <1>3 DEF SynchronizeSignedContract, EnsureSignedReservation
  <2>2. unit \in {"contracted", "sold", "handed_over"}
    BY <1>1, <1>3 DEF AdvancedCaseBindsUnit
  <2> QED
    BY <1>3, <2>1, <2>2 DEF ActiveHoldsOfActiveCase, AdvancedCaseBindsUnit, OneActiveCase
<1>4. CASE cs[c].type = "rs" /\ cases[k].stage \notin {"sbk", "ks", "handover"}
  <2>1. /\ unit \in {"available", "pre_reserved", "reserved"}
        /\ cases' = [cases EXCEPT ![k].stage = "reservation"]
        /\ unit' = "reserved"
        /\ holds' = holds \/ ReplaceByReservation(c, t)
    BY <1>4 DEF SynchronizeSignedContract, EnsureSignedReservation
  <2>2. ActiveCases(cases') = {k} /\ cases'[k].stage = "reservation"
    BY <1>2, <2>1 DEF Stages
  <2>3. ActiveHoldsOfActiveCase'
    BY <1>1, <2>1, <2>2, ReplaceLeavesOne DEF ActiveHoldsOfActiveCase
  <2>4. AdvancedCaseBindsUnit' /\ OneActiveCase'
    BY <2>2 DEF AdvancedCaseBindsUnit, OneActiveCase
  <2>5. \A j \in CaseIds : cases'[j].st = cases[j].st /\ (j # k => cases'[j] = cases[j])
    BY <1>2, <2>1 DEF Stages
  <2> QED BY <1>4, <2>1, <2>2, <2>3, <2>4, <2>5
<1>5. CASE cs[c].type # "rs"
  <2> DEFINE ty == cs[c].type
  <2>1. /\ ty \in {"sbk", "ks"}
        /\ cases' = [cases EXCEPT ![k].stage = ty]
        /\ UNCHANGED holds
    BY <1>5 DEF SynchronizeSignedContract, EnsurePurchaseStage, ContractRow, BaseTypes
  <2>2. /\ unit' \in {"contracted", "sold"}
        /\ ty = "ks" => unit' = "sold"
        /\ unit \in {"sold", "handed_over"} => unit' = "sold"
    BY <1>5, <2>1 DEF SynchronizeSignedContract, EnsurePurchaseStage, UnitCommand,
                      CommandFrom, CommandTo
  <2>3. ActiveCases(cases') = {k} /\ cases'[k].stage = ty
    BY <1>2, <2>1 DEF Stages
  <2>4. ActiveHoldsOfActiveCase'
    BY <1>1, <2>1, <2>3 DEF ActiveHoldsOfActiveCase
  <2>5. AdvancedCaseBindsUnit' /\ OneActiveCase'
    BY <2>2, <2>3 DEF AdvancedCaseBindsUnit, OneActiveCase
  <2>6. \A j \in CaseIds : cases'[j].st = cases[j].st /\ (j # k => cases'[j] = cases[j])
    BY <1>2, <2>1 DEF Stages
  <2> QED BY <2>1, <2>2, <2>3, <2>4, <2>5, <2>6
<1> QED BY <1>3, <1>4, <1>5

LEMMA SignInvariant ==
    ASSUME SaleInvariant, NEW c \in ContractIds, NEW t \in Times,
           \/ SignContractExternally(c, t)
           \/ RecordContractPartySignature(c, t)
    PROVE  Parts'
<1> USE DEF SaleInvariant
<1>1. CASE CompleteSignature(c, t)
  <2>1. /\ contracts[c].st # "absent" /\ cases[contracts[c].case].st = "active"
        /\ contracts' = [contracts EXCEPT ![c].st = "signed", ![c].ver = "signed",
                                          ![c].party = TRUE]
        /\ SynchronizeSignedContract(c, contracts', t)
    BY <1>1 DEF CompleteSignature, ReadyToSign
  <2>2. contracts' \in [ContractIds -> ContractRow] /\ contracts'[c].case = contracts[c].case
    BY <2>1 DEF TypeOK, ContractRow
  <2>3. \A d \in ContractIds :
          /\ contracts'[d].case = contracts[d].case
          /\ contracts'[d].type = contracts[d].type
          /\ IF d = c THEN contracts'[d].ver = "signed" ELSE contracts'[d] = contracts[d]
    BY <2>1 DEF TypeOK, ContractRow
  <2> DEFINE k == contracts[c].case
  <2>7. k \in CaseIds
    BY <2>1 DEF ContractOfCase
  <2>8. /\ unit' # "available"
        /\ unit \in {"sold", "handed_over"} => unit' \in {"sold", "handed_over"}
        /\ contracts'[c].type = "ks" => unit' \in {"sold", "handed_over"}
        /\ \A j \in CaseIds :
             /\ cases'[j].st = cases[j].st
             /\ cases[j].stage \notin {"interest", "pre_reservation"} \/ j = k
                  => cases'[j].stage \notin {"interest", "pre_reservation"}
    BY <2>1, <2>2, SynchronizeInvariant
  <2>4. SignedContractProtectsUnit'
    <3> SUFFICES ASSUME NEW d \in ContractIds, contracts'[d].st = "signed"
                 PROVE  /\ contracts'[d].ver = "signed"
                        /\ cases'[contracts'[d].case].st = "active"
                        /\ cases'[contracts'[d].case].stage \notin {"interest", "pre_reservation"}
      BY <2>8 DEF SignedContractProtectsUnit
    <3>1. CASE d = c
      BY <2>1, <2>3, <2>7, <2>8, <3>1
    <3>2. CASE d # c
      <4>1. contracts[d].st = "signed" /\ contracts'[d] = contracts[d]
            /\ contracts[d].case \in CaseIds
        BY <2>3, <3>2 DEF ContractOfCase
      <4> QED BY <2>8, <4>1 DEF SignedContractProtectsUnit
    <3> QED BY <3>1, <3>2
  <2>5. PurchaseKeepsUnitSold'
    <3> SUFFICES ASSUME NEW d \in ContractIds, contracts'[d].type = "ks",
                        contracts'[d].ver = "signed"
                 PROVE  unit' \in {"sold", "handed_over"}
      BY DEF PurchaseKeepsUnitSold, PurchaseSigned
    <3>1. CASE d = c
      BY <2>8, <3>1
    <3>2. CASE d # c
      BY <2>3, <2>8, <3>2 DEF PurchaseKeepsUnitSold, PurchaseSigned
    <3> QED BY <3>1, <3>2
  <2>6. ContractOfCase'
    BY <2>1, <2>3 DEF ContractOfCase
  <2> QED BY <2>1, <2>2, <2>4, <2>5, <2>6, SynchronizeInvariant DEF Parts
<1>2. CASE contracts[c].st = "signed" /\ SynchronizeSignedContract(c, contracts, t)
           /\ UNCHANGED contracts
  <2>1. contracts \in [ContractIds -> ContractRow] /\ cases[contracts[c].case].st = "active"
    BY <1>2 DEF TypeOK, SignedContractProtectsUnit
  <2>2. SignedContractProtectsUnit'
    BY <1>2, <2>1, SynchronizeInvariant DEF SignedContractProtectsUnit, ContractOfCase
  <2>3. PurchaseKeepsUnitSold' /\ ContractOfCase'
    BY <1>2, <2>1, SynchronizeInvariant
       DEF PurchaseKeepsUnitSold, PurchaseSigned, ContractOfCase
  <2> QED BY <1>2, <2>1, <2>2, <2>3, SynchronizeInvariant DEF Parts
<1>3. CASE contracts' = [contracts EXCEPT ![c].party = TRUE]
           /\ UNCHANGED <<now, unit, holds, cases, planned, handedOver>>
  <2>1. \A d \in ContractIds : /\ contracts'[d].st = contracts[d].st
                              /\ contracts'[d].ver = contracts[d].ver
                              /\ contracts'[d].type = contracts[d].type
                              /\ contracts'[d].case = contracts[d].case
    BY <1>3 DEF TypeOK, ContractRow
  <2> QED
    BY <1>3, <2>1 DEF Parts, SignedContractProtectsUnit, PurchaseKeepsUnitSold, PurchaseSigned,
       ActiveHoldsOfActiveCase, AdvancedCaseBindsUnit, OneActiveCase, ContractOfCase
<1> QED
  BY <1>1, <1>2, <1>3 DEF SignContractExternally, RecordContractPartySignature

-----------------------------------------------------------------------------
(* Blocking, handover, time; the theorems. *)

\* Only a unit that no signature and no advanced case keeps can be blocked or
\* unblocked.
LEMMA BlockInvariant ==
    ASSUME SaleInvariant, NEW t \in Times, UnitStatusCommand(t)
    PROVE  Parts'
<1> USE DEF SaleInvariant
<1>1. /\ UNCHANGED <<holds, cases, contracts>>
      /\ unit \in {"available", "pre_reserved", "reserved", "blocked"}
      /\ unit' = "blocked" \/ ~HasEffectiveSignedContract(contracts)
  BY DEF UnitStatusCommand, BlockUnit, UnblockUnit, UnitCommand, CommandFrom, CommandTo
<1> QED
  BY <1>1 DEF Parts, SignedContractProtectsUnit, PurchaseKeepsUnitSold, PurchaseSigned,
     ActiveHoldsOfActiveCase, AdvancedCaseBindsUnit, OneActiveCase, ContractOfCase,
     HasEffectiveSignedContract

LEMMA HandoverInvariant ==
    ASSUME SaleInvariant, HandoverCommand \/ Tick \/ UNCHANGED vars
    PROVE  Parts'
<1> USE DEF SaleInvariant
<1>1. CASE CompleteHandover
  <2>1. unit \in {"sold", "handed_over"} /\ unit' = "handed_over"
        /\ UNCHANGED <<holds, contracts>>
    BY <1>1 DEF CompleteHandover
  <2>2. \A k \in CaseIds : /\ cases'[k].st = cases[k].st
                          /\ cases'[k].stage \in {cases[k].stage, "handover"}
    BY <1>1 DEF CompleteHandover, TypeOK, CaseRow
  <2>3. ActiveCases(cases') = ActiveCases(cases)
    BY <2>2 DEF ActiveCases
  <2> QED
    BY <2>1, <2>2, <2>3 DEF Parts, SignedContractProtectsUnit, PurchaseKeepsUnitSold,
       PurchaseSigned, ActiveHoldsOfActiveCase, AdvancedCaseBindsUnit, OneActiveCase,
       ContractOfCase
<1>2. CASE UNCHANGED <<unit, holds, cases, contracts>>
  BY <1>2 DEF Parts, SignedContractProtectsUnit, PurchaseKeepsUnitSold, PurchaseSigned,
     ActiveHoldsOfActiveCase, AdvancedCaseBindsUnit, OneActiveCase, ContractOfCase
<1> QED
  BY <1>1, <1>2 DEF HandoverCommand, ScheduleUnitHandover, CancelHandover, Tick, vars

\* Every step keeps the invariant.
LEMMA NextInvariant == SaleInvariant /\ [Next]_vars => SaleInvariant'
<1> SUFFICES ASSUME SaleInvariant, [Next]_vars PROVE Parts'
  BY NextType DEF SaleInvariant, Parts
<1>1. ASSUME NEW t \in Times, HoldCommand(t) PROVE Parts'
  BY <1>1, ExpireInvariant, CancelInvariant, CreateHoldInvariant DEF HoldCommand
<1>2. ASSUME NEW t \in Times, NEW c \in ContractIds, ContractCommand(c, t)
      PROVE  Parts'
  BY <1>2, EndInvariant, SignInvariant DEF ContractCommand
<1> QED
  BY <1>1, <1>2, PreparationInvariant, BlockInvariant, HandoverInvariant DEF Next

\* The invariant holds of every sale, whatever the number of buyers, rows and
\* clock values and however long transactions wait.
THEOREM InvariantCorrect == Spec => []SaleInvariant
<1>1. Init => SaleInvariant
  BY InitInvariant
<1>2. SaleInvariant /\ [Next]_vars => SaleInvariant'
  BY NextInvariant
<1> QED BY <1>1, <1>2, PTL DEF Spec

\* A unit under a signed contract is never offered, and its case is never closed
\* or sent back, in whatever order the commands of its users arrive.
THEOREM SignedContractSafe == Spec => []SignedContractProtectsUnit
<1>1. SaleInvariant => SignedContractProtectsUnit
  BY DEF SaleInvariant
<1> QED BY <1>1, InvariantCorrect, PTL

\* A unit whose purchase contract was ever signed stays sold.
THEOREM PurchaseSafe == Spec => []PurchaseKeepsUnitSold
<1>1. SaleInvariant => PurchaseKeepsUnitSold
  BY DEF SaleInvariant
<1> QED BY <1>1, InvariantCorrect, PTL

\* A hold never outlives the case that it belongs to.
THEOREM HoldsSafe == Spec => []ActiveHoldsOfActiveCase
<1>1. SaleInvariant => ActiveHoldsOfActiveCase
  BY DEF SaleInvariant
<1> QED BY <1>1, InvariantCorrect, PTL

-----------------------------------------------------------------------------
(***************************************************************************)
(* The past of a sale                                                      *)
(***************************************************************************)

-----------------------------------------------------------------------------
(* What a step does to the rows of contracts. *)

\* A row that stays, moves before its signature, is signed, or ends.
RowMoves(d) ==
    /\ contracts'[d].case = contracts[d].case
    /\ contracts'[d].type = contracts[d].type
    /\ contracts'[d].created = contracts[d].created
    /\ \/ contracts'[d].st = contracts[d].st
       \/ contracts[d].st \in Unsigned /\ contracts'[d].st \in Unsigned \cup {"signed"}
       \/ Live(contracts[d]) /\ contracts'[d].st \in Ended

\* The commands on holds and on the unit's status draw and sign nothing.
LEMMA HoldsKeepContracts ==
    ASSUME NEW t \in Times, HoldCommand(t) \/ UnitStatusCommand(t)
    PROVE  UNCHANGED contracts
<1>1. \A h \in HoldIds : ExpireUnitHold(h, t) \/ CancelUnitHold(h, t) => UNCHANGED contracts
  BY DEF ExpireUnitHold, CancelUnitHold
<1>2. \A h \in HoldIds, k \in CaseIds, b \in Parties, kind \in HoldKinds,
         expires \in 1 .. MaxTime + 1, closed \in {"cancelled", "expired"} :
        CreateUnitHold(h, k, b, kind, expires, closed, t) => UNCHANGED contracts
  BY DEF CreateUnitHold
<1>3. UnitStatusCommand(t) => UNCHANGED contracts
  BY DEF UnitStatusCommand, BlockUnit, UnblockUnit
<1> QED BY <1>1, <1>2, <1>3 DEF HoldCommand

\* Every step moves rows, or inserts one.
LEMMA ContractStep ==
    ASSUME SaleInvariant, [Next]_vars
    PROVE  \/ \A d \in ContractIds : RowMoves(d)
           \/ \E c \in ContractIds, k \in CaseIds, ty \in BaseTypes : CreateContract(c, k, ty)
<1> USE DEF SaleInvariant
<1>1. UNCHANGED contracts => \A d \in ContractIds : RowMoves(d)
  BY DEF RowMoves
<1>2. ASSUME NEW t \in Times, NEW c \in ContractIds, ContractCommand(c, t)
      PROVE  \A d \in ContractIds : RowMoves(d)
  <2>1. ASSUME NEW to \in Ended, EndContract(c, to, t)
        PROVE  \A d \in ContractIds : RowMoves(d)
    BY <2>1 DEF EndContract, RowMoves, TypeOK, ContractRow
  <2>2. CASE CompleteSignature(c, t)
    BY <2>2 DEF CompleteSignature, ReadyToSign, RowMoves, TypeOK, ContractRow, Unsigned
  <2>3. CASE contracts' = [contracts EXCEPT ![c].party = TRUE]
    BY <2>3 DEF RowMoves, TypeOK, ContractRow
  <2>4. ASSUME SignContractExternally(c, t) \/ RecordContractPartySignature(c, t)
        PROVE  \A d \in ContractIds : RowMoves(d)
    <3>1. \/ CompleteSignature(c, t)
          \/ UNCHANGED contracts
          \/ contracts' = [contracts EXCEPT ![c].party = TRUE]
      BY <2>4 DEF SignContractExternally, RecordContractPartySignature
    <3> QED BY <1>1, <2>2, <2>3, <3>1
  <2> QED BY <1>2, <2>1, <2>4 DEF ContractCommand
<1>3. ASSUME NEW c \in ContractIds, CreateContractVersion(c)
      PROVE  \A d \in ContractIds : RowMoves(d)
  BY <1>3 DEF CreateContractVersion, RowMoves, TypeOK, ContractRow, Unsigned
<1>4. ASSUME NEW c \in ContractIds, NEW to \in Unsigned, AdvanceContract(c, to)
      PROVE  \A d \in ContractIds : RowMoves(d)
  BY <1>4 DEF AdvanceContract, RowMoves, TypeOK, ContractRow, Unsigned
<1>5. ASSUME NEW t \in Times, HoldCommand(t) \/ UnitStatusCommand(t)
      PROVE  UNCHANGED contracts
  BY <1>5, HoldsKeepContracts
<1>6. ASSUME Tick \/ HandoverCommand \/ UNCHANGED vars
      PROVE  UNCHANGED contracts
  BY <1>6 DEF Tick, HandoverCommand, ScheduleUnitHandover, CompleteHandover,
              CancelHandover, vars
<1> QED BY <1>1, <1>2, <1>3, <1>4, <1>5, <1>6 DEF Next, PreparationCommand

\* The row an insertion adds.
LEMMA Inserted ==
    ASSUME SaleInvariant, NEW c \in ContractIds, NEW k \in CaseIds, NEW ty \in BaseTypes,
           CreateContract(c, k, ty)
    PROVE  /\ contracts[c].st = "absent"
           /\ contracts'[c].st = "draft" /\ contracts'[c].type = ty /\ contracts'[c].case = k
           /\ contracts'[c].created = now
           /\ \A d \in ContractIds : d # c => contracts'[d] = contracts[d]
BY DEF CreateContract, NextRow, NoContract, SaleInvariant, TypeOK

\* Moving rows keep a contract live only if it was, and unsigned only if it was.
LEMMA MovesKeep ==
    ASSUME SaleInvariant, NEW d \in ContractIds, RowMoves(d)
    PROVE  /\ Live(contracts'[d]) => Live(contracts[d])
           /\ contracts'[d].st \in Unsigned => contracts[d].st \in Unsigned
           /\ contracts'[d].st = "absent" <=> contracts[d].st = "absent"
           /\ contracts[d].st \in {"signed"} \cup Ended
                => contracts'[d].st \in {"signed"} \cup Ended
           /\ Live(contracts'[d]) /\ contracts[d].st = "signed"
                => contracts'[d].st = "signed"
BY DEF RowMoves, Live, Unsigned, Ended, SaleInvariant, TypeOK, ContractRow

-----------------------------------------------------------------------------
(* What create_contract finds when it lets a contract be drawn. *)

\* A live contract is an open one or a signed one.
LEMMA LiveKinds ==
    ASSUME SaleInvariant, NEW d \in ContractIds, Live(contracts[d])
    PROVE  contracts[d].st \in Unsigned \/ contracts[d].st = "signed"
BY DEF Live, Unsigned, Ended, SaleInvariant, TypeOK, ContractRow

\* Every live contract of the case is signed, and of an earlier step.
LEMMA DrawnAfterSigned ==
    ASSUME SaleInvariant, OneOpenContractInOrder, LiveTypesDiffer,
           NEW c \in ContractIds, NEW k \in CaseIds, NEW ty \in BaseTypes,
           CreateContract(c, k, ty),
           NEW d \in ContractIds, Live(contracts[d]), contracts[d].case = k
    PROVE  /\ contracts[d].st = "signed"
           /\ contracts[d].type \in {"rs", "sbk"}
           /\ ty \in {"sbk", "ks"}
           /\ contracts[d].type = "sbk" => ty = "ks"
           /\ ty # contracts[d].type
<1>1. /\ LiveOfType(k, ty) = {}
      /\ ~OpenContract(k) /\ ~SignedOfType(k, "ks")
      /\ SignedOfType(k, "sbk") => ty = "ks"
      /\ SignedOfType(k, "rs") => ty \in {"sbk", "ks"}
  BY DEF CreateContract, AllowedContractTypes
<1>2. \A e \in ContractIds :
        Live(contracts[e]) /\ contracts[e].case = k => e \in LiveOfType(k, contracts[e].type)
  BY DEF LiveOfType, OfCase
<1>3. \A ty2 \in BaseTypes : \A e \in LiveOfType(k, ty2) :
        /\ e \in ContractIds /\ Live(contracts[e])
        /\ contracts[e].case = k /\ contracts[e].type = ty2
  BY DEF LiveOfType, OfCase
<1>4. \A ty2 \in BaseTypes : SignedOfType(k, ty2) =>
        \A e \in LiveOfType(k, ty2) : contracts[e].st = "signed"
  BY <1>3 DEF SignedOfType, LiveTypesDiffer
<1>5. LiveOfType(k, "ks") = {}
  BY <1>1 DEF OpenContract
<1>6. contracts[d].type \in {"rs", "sbk"}
  BY <1>2, <1>5 DEF SaleInvariant, TypeOK, ContractRow, BaseTypes
<1>7. LiveOfType(k, "sbk") # {} => SignedOfType(k, "sbk")
  BY <1>1, <1>5 DEF OpenContract
<1>8. CASE contracts[d].type = "sbk"
  BY <1>1, <1>2, <1>4, <1>7, <1>8 DEF BaseTypes
<1>9. CASE contracts[d].type = "rs" /\ LiveOfType(k, "sbk") = {}
  <2>1. SignedOfType(k, "rs")
    BY <1>1, <1>2, <1>5, <1>9 DEF OpenContract
  <2> QED BY <1>1, <1>2, <1>4, <1>9, <2>1 DEF BaseTypes
<1>10. CASE contracts[d].type = "rs" /\ LiveOfType(k, "sbk") # {}
  <2>1. PICK e \in LiveOfType(k, "sbk") : TRUE
    BY <1>10
  <2>2. e \in ContractIds /\ Live(contracts[e]) /\ contracts[e].case = k
        /\ contracts[e].type = "sbk"
    BY <1>3, <2>1 DEF BaseTypes
  <2>3. contracts[d].st = "signed"
    BY <1>10, <2>2 DEF OneOpenContractInOrder
  <2>4. ty = "ks"
    BY <1>1, <1>7, <1>10
  <2> QED BY <1>10, <2>3, <2>4
<1> QED BY <1>6, <1>8, <1>9, <1>10

-----------------------------------------------------------------------------
(* The contracts of a case. *)

LEMMA OrderKept ==
    ASSUME SaleInvariant, OneOpenContractInOrder, LiveTypesDiffer, [Next]_vars
    PROVE  OneOpenContractInOrder' /\ LiveTypesDiffer'
<1>1. CASE \A d \in ContractIds : RowMoves(d)
  <2> SUFFICES ASSUME NEW c \in ContractIds, NEW d \in ContractIds, c # d,
                      Live(contracts'[c]), Live(contracts'[d]),
                      contracts'[c].case = contracts'[d].case
               PROVE  /\ contracts'[c].type # contracts'[d].type
                      /\ \/ contracts'[c].st = "signed" /\ contracts'[d].st = "signed"
                         \/ contracts'[c].st = "signed"
                              /\ contracts'[c].type \in {"rs", "sbk"}
                              /\ contracts'[d].type \in {"sbk", "ks"}
                         \/ contracts'[d].st = "signed"
                              /\ contracts'[d].type \in {"rs", "sbk"}
                              /\ contracts'[c].type \in {"sbk", "ks"}
    BY DEF OneOpenContractInOrder, LiveTypesDiffer
  <2>1. Live(contracts[c]) /\ Live(contracts[d])
    BY <1>1, MovesKeep
  <2>2. /\ contracts[c].case = contracts[d].case
        /\ contracts'[c].type = contracts[c].type /\ contracts'[d].type = contracts[d].type
    BY <1>1 DEF RowMoves
  <2>3. /\ contracts[c].st = "signed" => contracts'[c].st = "signed"
        /\ contracts[d].st = "signed" => contracts'[d].st = "signed"
    BY <1>1, MovesKeep
  <2>4. contracts'[c].type # contracts'[d].type
    BY <2>1, <2>2 DEF LiveTypesDiffer
  <2>5. \/ contracts[c].st = "signed" /\ contracts[d].st = "signed"
        \/ contracts[c].st = "signed" /\ contracts[c].type \in {"rs", "sbk"}
                                      /\ contracts[d].type \in {"sbk", "ks"}
        \/ contracts[d].st = "signed" /\ contracts[d].type \in {"rs", "sbk"}
                                      /\ contracts[c].type \in {"sbk", "ks"}
    BY <2>1, <2>2 DEF OneOpenContractInOrder
  <2> QED BY <2>2, <2>3, <2>4, <2>5
<1>2. ASSUME NEW c \in ContractIds, NEW k \in CaseIds, NEW ty \in BaseTypes,
             CreateContract(c, k, ty)
      PROVE  OneOpenContractInOrder' /\ LiveTypesDiffer'
  <2>1. /\ contracts'[c].type = ty /\ contracts'[c].case = k
        /\ \A d \in ContractIds : d # c => contracts'[d] = contracts[d]
    BY <1>2, Inserted
  <2>2. \A d \in ContractIds : Live(contracts[d]) /\ contracts[d].case = k =>
          /\ contracts[d].st = "signed" /\ contracts[d].type \in {"rs", "sbk"}
          /\ ty \in {"sbk", "ks"} /\ ty # contracts[d].type
    BY <1>2, DrawnAfterSigned
  <2>3. LiveTypesDiffer'
    BY <2>1, <2>2 DEF LiveTypesDiffer
  <2>4. OneOpenContractInOrder'
    BY <2>1, <2>2 DEF OneOpenContractInOrder
  <2> QED BY <2>3, <2>4
<1> QED BY <1>1, <1>2, ContractStep

\* An administrator's review is asked for before anything but a KS reopens.
LEMMA ReviewKept ==
    ASSUME SaleInvariant, OneOpenContractInOrder, LiveTypesDiffer, OnlyPurchaseReopens,
           BlankUntilInserted, [Next]_vars
    PROVE  OnlyPurchaseReopens' /\ BlankUntilInserted'
<1>1. CASE \A d \in ContractIds : RowMoves(d)
  <2>1. BlankUntilInserted'
    BY <1>1, MovesKeep DEF BlankUntilInserted, RowMoves
  <2>2. OnlyPurchaseReopens'
    <3> SUFFICES ASSUME NEW c \in ContractIds, NEW d \in ContractIds, c # d,
                        contracts'[c].st \in Unsigned, contracts'[d].st # "absent",
                        contracts'[c].case = contracts'[d].case,
                        contracts'[d].type \in {"sbk", "ks"}
                 PROVE  contracts'[c].type = "ks"
      BY DEF OnlyPurchaseReopens
    <3>1. contracts[c].st \in Unsigned /\ contracts[d].st # "absent"
      BY <1>1, MovesKeep
    <3>2. /\ contracts[c].case = contracts[d].case
          /\ contracts[d].type \in {"sbk", "ks"}
          /\ contracts'[c].type = contracts[c].type
      BY <1>1 DEF RowMoves
    <3> QED BY <3>1, <3>2 DEF OnlyPurchaseReopens
  <2> QED BY <2>1, <2>2
<1>2. ASSUME NEW c \in ContractIds, NEW k \in CaseIds, NEW ty \in BaseTypes,
             CreateContract(c, k, ty)
      PROVE  OnlyPurchaseReopens' /\ BlankUntilInserted'
  <2>1. /\ contracts'[c].st = "draft"
        /\ contracts'[c].type = ty /\ contracts'[c].case = k
        /\ \A d \in ContractIds : d # c => contracts'[d] = contracts[d]
    BY <1>2, Inserted
  <2>2. BlankUntilInserted'
    BY <2>1 DEF BlankUntilInserted
  <2>3. \A d \in ContractIds : Live(contracts[d]) /\ contracts[d].case = k =>
          /\ contracts[d].st = "signed" /\ ty \in {"sbk", "ks"}
          /\ contracts[d].type \in {"rs", "sbk"}
          /\ contracts[d].type = "sbk" => ty = "ks"
    BY <1>2, DrawnAfterSigned
  <2>4. ASSUME NEW d \in ContractIds, d # c, contracts[d].st # "absent",
               contracts[d].case = k, contracts[d].type \in {"sbk", "ks"}
        PROVE  ty = "ks"
    <3>1. CASE Live(contracts[d])
      BY <2>3, <2>4, <3>1
    <3>2. CASE ~Live(contracts[d])
      <4>1. contracts[d].st \in Ended /\ d \in OfCase(k)
        BY <2>4, <3>2 DEF Live, OfCase, SaleInvariant, TypeOK, ContractRow
      <4>2. ~ReviewRequired(k)
        BY <1>2 DEF CreateContract, AllowedContractTypes
      <4>3. LiveOfType(k, "sbk") # {} \/ LiveOfType(k, "ks") # {}
        BY <2>4, <4>1, <4>2 DEF ReviewRequired
      <4>4. PICK e \in ContractIds : /\ Live(contracts[e]) /\ contracts[e].case = k
                                     /\ contracts[e].type \in {"sbk", "ks"}
        BY <4>3 DEF LiveOfType, OfCase
      <4> QED BY <2>3, <4>4
    <3> QED BY <3>1, <3>2
  <2>5. ASSUME NEW e \in ContractIds, e # c, contracts[e].st \in Unsigned
        PROVE  contracts[e].case # k
    BY <2>3, <2>5 DEF Live, Unsigned, Ended
  <2>6. OnlyPurchaseReopens'
    BY <2>1, <2>4, <2>5 DEF OnlyPurchaseReopens
  <2> QED BY <2>2, <2>6
<1> QED BY <1>1, <1>2, ContractStep
-----------------------------------------------------------------------------
(* The cases of a unit. *)

\* What one step does to the case k: a closed one stays as it is, and an active
\* one is closed only while nothing is planned and no contract binds the unit.
CaseMoves(k) ==
    /\ cases[k].st \in {"cancelled", "expired"} => cases'[k] = cases[k]
    /\ cases[k].st = "active" =>
         \/ cases'[k].st = "active"
         \/ /\ unit' \in {"available", "pre_reserved", "reserved"}
            /\ planned = {} /\ planned' = {}

\* A signature moves the stage of its own case only.
LEMMA SynchronizeCase ==
    ASSUME TypeOK, NEW c \in ContractIds, NEW t \in Times,
           NEW cs \in [ContractIds -> ContractRow], cs[c].case = contracts[c].case,
           SynchronizeSignedContract(c, cs, t)
    PROVE  \A k \in CaseIds :
             /\ cases'[k].st = cases[k].st
             /\ k # contracts[c].case => cases'[k] = cases[k]
<1>1. \/ UNCHANGED cases
      \/ cases' = [cases EXCEPT ![contracts[c].case].stage = "reservation"]
      \/ cases' = [cases EXCEPT ![contracts[c].case].stage = cs[c].type]
  BY DEF SynchronizeSignedContract, EnsureSignedReservation, EnsurePurchaseStage
<1> QED BY <1>1 DEF TypeOK, CaseRow

LEMMA HoldCaseStep ==
    ASSUME SaleInvariant, NEW t \in Times, HoldCommand(t), NEW j \in CaseIds
    PROVE  CaseMoves(j)
<1> USE DEF SaleInvariant
<1>1. ASSUME NEW h \in HoldIds, ExpireUnitHold(h, t) PROVE CaseMoves(j)
  <2>1. /\ holds[h].st = "active" /\ planned = {} /\ UNCHANGED planned
        /\ \/ UNCHANGED cases
           \/ /\ cases' = [cases EXCEPT ![holds[h].case] = ClosedCase(@, "expired")]
              /\ unit' = "available"
    BY <1>1 DEF ExpireUnitHold, Expirable, ReleasePermitted, HandoverExists
  <2>2. ActiveCases(cases) = {holds[h].case}
    BY <2>1 DEF ActiveHoldsOfActiveCase, ActiveHolds
  <2> QED BY <2>1, <2>2 DEF CaseMoves, ActiveCases, TypeOK
<1>2. ASSUME NEW h \in HoldIds, CancelUnitHold(h, t) PROVE CaseMoves(j)
  <2>1. /\ holds[h].st = "active" /\ planned = {} /\ UNCHANGED planned
        /\ \/ UNCHANGED cases
           \/ /\ \E row \in {ClosedCase(cases[holds[h].case], "cancelled"),
                             [cases[holds[h].case] EXCEPT !.stage = "interest"]} :
                   cases' = [cases EXCEPT ![holds[h].case] = row]
              /\ unit' = "available"
    BY <1>2 DEF CancelUnitHold, ReleasePermitted, HandoverExists
  <2>2. ActiveCases(cases) = {holds[h].case}
    BY <2>1 DEF ActiveHoldsOfActiveCase, ActiveHolds
  <2> QED BY <2>1, <2>2 DEF CaseMoves, ActiveCases, TypeOK
<1>3. ASSUME NEW h \in HoldIds, NEW k \in CaseIds, NEW b \in Parties, NEW kind \in HoldKinds,
             NEW expires \in 1 .. MaxTime + 1, NEW closed \in {"cancelled", "expired"},
             CreateUnitHold(h, k, b, kind, expires, closed, t)
      PROVE  CaseMoves(j)
  <2> DEFINE stale == {g \in HoldIds : Expirable(g, t)}
             hs    == Expired(stale)
             freed == FreesUnit(stale)
             ks    == [i \in CaseIds |->
                         IF freed /\ \E g \in stale : holds[g].case = i
                         THEN ClosedCase(cases[i], "expired") ELSE cases[i]]
             row   == [st |-> "active", stage |-> kind, buyer |-> b]
  <2>1. /\ cases' = [i \in CaseIds |-> IF i = k THEN row
                                       ELSE IF i \in ActiveCases(ks) THEN ClosedCase(ks[i], closed)
                                       ELSE ks[i]]
        /\ JoinsCase(k, b, ks, hs, closed, t)
        /\ unit' \in {"pre_reserved", "reserved"}
        /\ UNCHANGED planned
    BY <1>3 DEF CreateUnitHold, CommandTo
  <2>2. \A g \in stale : ActiveCases(cases) = {holds[g].case} /\ planned = {}
    BY DEF Expirable, ActiveHoldsOfActiveCase, ActiveHolds, ReleasePermitted, HandoverExists
  <2>3. \A i \in CaseIds : ks[i] = cases[i] \/ (cases[i].st = "active" /\ planned = {})
    BY <2>2 DEF ActiveCases
  <2>4. \A i \in CaseIds : ks[i].st = "active" => ks[i] = cases[i]
    BY ClosedCaseCloses DEF TypeOK
  <2>5. ks[k].st = "active" \/ ks[k].st = "absent"
    BY <2>1 DEF JoinsCase, NextRow
  <2>6. \A i \in CaseIds : cases[i].st \in {"cancelled", "expired"}
          => ks[i] = cases[i] /\ i # k /\ i \notin ActiveCases(ks)
    BY <2>3, <2>5 DEF ActiveCases
  <2>7. CASE cases[j].st \in {"cancelled", "expired"}
    BY <2>1, <2>6, <2>7 DEF CaseMoves
  <2>8. CASE cases[j].st = "active" /\ j # k
    <3>1. CASE ks[j] # cases[j]
      BY <2>1, <2>3, <2>8, <3>1 DEF CaseMoves
    <3>2. CASE ks[j] = cases[j]
      <4>1. j \in ActiveCases(ks)
        BY <2>8, <3>2 DEF ActiveCases
      <4>2. ks[k].st # "active"
        BY <2>4, <2>8 DEF OneActiveCase, ActiveCases
      <4>3. planned = {}
        BY <2>1, <4>1, <4>2 DEF JoinsCase, Closable, ReleasePermitted, HandoverExists
      <4> QED BY <2>1, <2>8, <4>3 DEF CaseMoves
    <3> QED BY <3>1, <3>2
  <2>9. CASE cases[j].st = "active" /\ j = k
    BY <2>1, <2>9 DEF CaseMoves
  <2> QED BY <2>7, <2>8, <2>9 DEF CaseMoves
<1> QED BY <1>1, <1>2, <1>3 DEF HoldCommand

LEMMA ContractCaseStep ==
    ASSUME SaleInvariant, NEW t \in Times, NEW c \in ContractIds, ContractCommand(c, t),
           NEW j \in CaseIds
    PROVE  CaseMoves(j)
<1> USE DEF SaleInvariant
<1>1. ASSUME NEW to \in Ended, EndContract(c, to, t) PROVE CaseMoves(j)
  <2> DEFINE cs == [contracts EXCEPT ![c].st = to, ![c].ended = t]
             k  == cs[c].case
  <2>1. k = contracts[c].case
    BY DEF TypeOK, ContractRow
  <2>2. CASE ReleaseEligible(c, cs, t)
    <3>1. ActiveCases(cases) = {k} /\ planned = {}
      BY <2>2 DEF ReleaseEligible, HandoverExists
    <3>2. /\ cases' = [cases EXCEPT ![k] = ClosedCase(@, "cancelled")]
          /\ unit' = "available" /\ UNCHANGED planned
      BY <1>1, <2>1, <2>2 DEF EndContract
    <3> QED BY <3>1, <3>2 DEF CaseMoves, ActiveCases, TypeOK
  <2>3. CASE ~ReleaseEligible(c, cs, t)
    BY <1>1, <2>3 DEF EndContract, CaseMoves
  <2> QED BY <2>2, <2>3
<1>2. CASE CompleteSignature(c, t)
  <2>1. /\ cases[contracts[c].case].st = "active"
        /\ contracts' = [contracts EXCEPT ![c].st = "signed", ![c].ver = "signed",
                                          ![c].party = TRUE]
        /\ SynchronizeSignedContract(c, contracts', t)
    BY <1>2 DEF CompleteSignature, ReadyToSign
  <2>2. contracts' \in [ContractIds -> ContractRow] /\ contracts'[c].case = contracts[c].case
    BY <2>1 DEF TypeOK, ContractRow
  <2> HIDE DEF SaleInvariant
  <2>3. TypeOK
    BY DEF SaleInvariant
  <2>4. cases'[j].st = cases[j].st
    BY <2>1, <2>2, <2>3, SynchronizeCase
  <2>5. j # contracts[c].case => cases'[j] = cases[j]
    BY <2>1, <2>2, <2>3, SynchronizeCase
  <2>6. j = contracts[c].case => cases[j].st = "active"
    BY <2>1, Zenon
  <2> QED BY <2>4, <2>5, <2>6 DEF CaseMoves
<1>3. CASE contracts[c].st = "signed" /\ SynchronizeSignedContract(c, contracts, t)
  <2>1. cases[contracts[c].case].st = "active"
    BY <1>3 DEF SignedContractProtectsUnit
  <2> HIDE DEF SaleInvariant
  <2>2. TypeOK /\ contracts \in [ContractIds -> ContractRow]
    BY DEF SaleInvariant, TypeOK
  <2>3. cases'[j].st = cases[j].st
    BY <1>3, <2>2, SynchronizeCase
  <2>4. j # contracts[c].case => cases'[j] = cases[j]
    BY <1>3, <2>2, SynchronizeCase
  <2>5. j = contracts[c].case => cases[j].st = "active"
    BY <2>1, Zenon
  <2> QED BY <2>3, <2>4, <2>5 DEF CaseMoves
<1>4. ASSUME UNCHANGED cases PROVE CaseMoves(j)
  BY <1>4 DEF CaseMoves
<1>5. ASSUME SignContractExternally(c, t) \/ RecordContractPartySignature(c, t)
      PROVE  CaseMoves(j)
  <2>1. \/ CompleteSignature(c, t)
        \/ contracts[c].st = "signed" /\ SynchronizeSignedContract(c, contracts, t)
        \/ UNCHANGED cases
    BY <1>5 DEF SignContractExternally, RecordContractPartySignature
  <2> QED BY <1>2, <1>3, <1>4, <2>1
<1> QED BY <1>1, <1>5 DEF ContractCommand

LEMMA CaseStep ==
    ASSUME SaleInvariant, PlannedOfActiveCase, [Next]_vars, NEW j \in CaseIds
    PROVE  CaseMoves(j)
<1>1. ASSUME UNCHANGED cases PROVE CaseMoves(j)
  BY <1>1 DEF CaseMoves
<1>2. CASE CompleteHandover
  <2>1. /\ j \in planned => cases[j].st = "active"
        /\ j \notin planned => cases'[j] = cases[j]
        /\ cases'[j].st = cases[j].st
    BY <1>2 DEF CompleteHandover, PlannedOfActiveCase, ActiveCases, CaseIds, None,
                SaleInvariant, TypeOK, CaseRow
  <2> QED BY <2>1 DEF CaseMoves
<1>3. ASSUME NEW c \in ContractIds, PreparationCommand(c) PROVE UNCHANGED cases
  BY <1>3 DEF PreparationCommand, CreateContract, CreateContractVersion, AdvanceContract
<1>4. ASSUME NEW t \in Times, UnitStatusCommand(t) PROVE UNCHANGED cases
  BY <1>4 DEF UnitStatusCommand, BlockUnit, UnblockUnit
<1>5. ASSUME Tick \/ ScheduleUnitHandover \/ CancelHandover \/ UNCHANGED vars
      PROVE  UNCHANGED cases
  BY <1>5 DEF Tick, ScheduleUnitHandover, CancelHandover, vars
<1> QED
  BY <1>1, <1>2, <1>3, <1>4, <1>5, HoldCaseStep, ContractCaseStep DEF Next, HandoverCommand
-----------------------------------------------------------------------------
(* The contract that binds the unit, and the handover that is planned. *)

\* Only the signature of an SBK or a KS binds the unit.
LEMMA BoundBySignature ==
    ASSUME SaleInvariant, [Next]_vars,
           unit \notin {"contracted", "sold", "handed_over"},
           unit' \in {"contracted", "sold", "handed_over"}
    PROVE  \E c \in ContractIds : /\ contracts'[c].type \in {"sbk", "ks"}
                                 /\ contracts'[c].st = "signed"
                                 /\ cases'[contracts'[c].case].st = "active"
<1>1. ASSUME NEW t \in Times, HoldCommand(t) \/ UnitStatusCommand(t)
      PROVE  unit' = unit \/ unit' \in {"available", "pre_reserved", "reserved", "blocked"}
  <2>1. ASSUME NEW h \in HoldIds, ExpireUnitHold(h, t) \/ CancelUnitHold(h, t)
        PROVE  unit' \in {unit, "available"}
    BY <2>1 DEF ExpireUnitHold, CancelUnitHold
  <2>2. ASSUME NEW h \in HoldIds, NEW k \in CaseIds, NEW b \in Parties, NEW kind \in HoldKinds,
               NEW expires \in 1 .. MaxTime + 1, NEW closed \in {"cancelled", "expired"},
               CreateUnitHold(h, k, b, kind, expires, closed, t)
        PROVE  unit' \in {"pre_reserved", "reserved"}
    BY <2>2 DEF CreateUnitHold, CommandTo
  <2>3. ASSUME UnitStatusCommand(t) PROVE unit' \in {"available", "blocked"}
    BY <2>3 DEF UnitStatusCommand, BlockUnit, UnblockUnit
  <2> QED BY <1>1, <2>1, <2>2, <2>3 DEF HoldCommand
<1>2. ASSUME NEW c \in ContractIds, PreparationCommand(c) PROVE unit' = unit
  BY <1>2 DEF PreparationCommand, CreateContract, CreateContractVersion, AdvanceContract
<1>3. ASSUME Tick \/ HandoverCommand \/ UNCHANGED vars
      PROVE  unit' = unit \/ unit \in {"sold", "handed_over"}
  BY <1>3 DEF Tick, HandoverCommand, ScheduleUnitHandover, CompleteHandover,
              CancelHandover, vars
<1>4. PICK t \in Times, c \in ContractIds : ContractCommand(c, t)
  BY <1>1, <1>2, <1>3 DEF Next
<1>5. ASSUME NEW to \in Ended, EndContract(c, to, t) PROVE unit' \in {unit, "available"}
  BY <1>5 DEF EndContract
<1>6. ASSUME NEW cs \in [ContractIds -> ContractRow], SynchronizeSignedContract(c, cs, t)
      PROVE  cs[c].type \in {"sbk", "ks"}
  BY <1>6 DEF SynchronizeSignedContract, EnsureSignedReservation, ContractRow, BaseTypes
<1>7. contracts[c] \in ContractRow /\ contracts \in [ContractIds -> ContractRow]
  BY DEF SaleInvariant, TypeOK
<1>8. CASE CompleteSignature(c, t)
  <2>1. /\ contracts[c].st # "absent" /\ cases[contracts[c].case].st = "active"
        /\ contracts' = [contracts EXCEPT ![c].st = "signed", ![c].ver = "signed",
                                          ![c].party = TRUE]
        /\ SynchronizeSignedContract(c, contracts', t)
    BY <1>8 DEF CompleteSignature, ReadyToSign
  <2>2. /\ contracts' \in [ContractIds -> ContractRow]
        /\ contracts'[c].case = contracts[c].case /\ contracts'[c].st = "signed"
    BY <1>7, <2>1 DEF ContractRow
  <2>3. contracts[c].case \in CaseIds /\ TypeOK
    BY <2>1 DEF SaleInvariant, ContractOfCase
  <2>4. cases'[contracts[c].case].st = "active"
    BY <2>1, <2>2, <2>3, SynchronizeCase
  <2>5. contracts'[c].type \in {"sbk", "ks"}
    BY <1>6, <2>1, <2>2
  <2> QED BY <2>2, <2>4, <2>5
<1>9. CASE /\ contracts[c].st = "signed" /\ UNCHANGED contracts
           /\ SynchronizeSignedContract(c, contracts, t)
  <2>1. contracts[c].case \in CaseIds /\ TypeOK /\ cases[contracts[c].case].st = "active"
    BY <1>9 DEF SaleInvariant, ContractOfCase, SignedContractProtectsUnit
  <2>2. cases'[contracts[c].case].st = "active"
    BY <1>7, <1>9, <2>1, SynchronizeCase
  <2>3. contracts[c].type \in {"sbk", "ks"}
    BY <1>6, <1>7, <1>9
  <2> QED BY <1>9, <2>2, <2>3
<1>10. \/ CompleteSignature(c, t)
       \/ /\ contracts[c].st = "signed" /\ UNCHANGED contracts
          /\ SynchronizeSignedContract(c, contracts, t)
       \/ unit' \in {unit, "available"}
  BY <1>4, <1>5 DEF ContractCommand, SignContractExternally, RecordContractPartySignature
<1> QED BY <1>8, <1>9, <1>10

LEMMA BoundKept ==
    ASSUME SaleInvariant, BoundByPurchase, PlannedOfActiveCase, [Next]_vars
    PROVE  BoundByPurchase'
<1> DEFINE bound == {"contracted", "sold", "handed_over"}
<1> SUFFICES ASSUME unit' \in bound
             PROVE  \E d \in ContractIds : /\ contracts'[d].type \in {"sbk", "ks"}
                                          /\ contracts'[d].st \in {"signed"} \cup Ended
                                          /\ cases'[contracts'[d].case].st = "active"
  BY DEF BoundByPurchase
<1>1. CASE unit \notin bound
  BY <1>1, BoundBySignature
<1>2. CASE unit \in bound
  <2>1. PICK d \in ContractIds : /\ contracts[d].type \in {"sbk", "ks"}
                                /\ contracts[d].st \in {"signed"} \cup Ended
                                /\ cases[contracts[d].case].st = "active"
    BY <1>2 DEF BoundByPurchase
  <2>2. contracts[d].st # "absent" /\ contracts[d].case \in CaseIds
    BY <2>1 DEF Ended, SaleInvariant, ContractOfCase
  <2>3. cases'[contracts[d].case].st = "active"
    BY <2>1, <2>2, CaseStep DEF CaseMoves
  <2>4. CASE \A e \in ContractIds : RowMoves(e)
    <3>1. contracts'[d].st \in {"signed"} \cup Ended
      BY <2>1, <2>4, MovesKeep
    <3> QED BY <2>1, <2>3, <2>4, <3>1 DEF RowMoves
  <2>5. ASSUME NEW c \in ContractIds, NEW k \in CaseIds, NEW ty \in BaseTypes,
               CreateContract(c, k, ty)
        PROVE  contracts'[d] = contracts[d]
    BY <2>2, <2>5, Inserted
  <2> QED BY <2>1, <2>3, <2>4, <2>5, ContractStep
<1> QED BY <1>1, <1>2

LEMMA PlannedKept ==
    ASSUME SaleInvariant, PlannedOfActiveCase, [Next]_vars
    PROVE  PlannedOfActiveCase'
<1>1. \/ UNCHANGED planned
      \/ planned' = {}
      \/ UNCHANGED cases /\ (planned' = {None} \/ planned' = ActiveCases(cases))
  <2>1. ASSUME NEW t \in Times, HoldCommand(t) \/ UnitStatusCommand(t) PROVE UNCHANGED planned
    <3>1. \A h \in HoldIds : ExpireUnitHold(h, t) \/ CancelUnitHold(h, t) => UNCHANGED planned
      BY DEF ExpireUnitHold, CancelUnitHold
    <3>2. \A h \in HoldIds, k \in CaseIds, b \in Parties, kind \in HoldKinds,
             expires \in 1 .. MaxTime + 1, closed \in {"cancelled", "expired"} :
            CreateUnitHold(h, k, b, kind, expires, closed, t) => UNCHANGED planned
      BY DEF CreateUnitHold
    <3>3. UnitStatusCommand(t) => UNCHANGED planned
      BY DEF UnitStatusCommand, BlockUnit, UnblockUnit
    <3> QED BY <2>1, <3>1, <3>2, <3>3 DEF HoldCommand
  <2>2. ASSUME NEW t \in Times, NEW c \in ContractIds, ContractCommand(c, t)
        PROVE  UNCHANGED planned
    <3>1. \A to \in Ended : EndContract(c, to, t) => UNCHANGED planned
      BY DEF EndContract
    <3>2. SignContractExternally(c, t) \/ RecordContractPartySignature(c, t)
            => UNCHANGED planned
      BY DEF SignContractExternally, RecordContractPartySignature, CompleteSignature
    <3> QED BY <2>2, <3>1, <3>2 DEF ContractCommand
  <2>3. ASSUME NEW c \in ContractIds, PreparationCommand(c) PROVE UNCHANGED planned
    BY <2>3 DEF PreparationCommand, CreateContract, CreateContractVersion, AdvanceContract
  <2>4. ASSUME Tick \/ UNCHANGED vars PROVE UNCHANGED planned
    BY <2>4 DEF Tick, vars
  <2>5. CASE HandoverCommand
    BY <2>5 DEF HandoverCommand, ScheduleUnitHandover, CompleteHandover, CancelHandover
  <2> QED BY <2>1, <2>2, <2>3, <2>4, <2>5 DEF Next
<1>2. CASE UNCHANGED planned
  <2> SUFFICES ASSUME NEW k \in planned, k # None PROVE k \in ActiveCases(cases')
    BY <1>2 DEF PlannedOfActiveCase
  <2>1. k \in CaseIds /\ cases[k].st = "active"
    BY DEF PlannedOfActiveCase, ActiveCases
  <2> QED BY <2>1, CaseStep DEF CaseMoves, ActiveCases
<1>3. CASE planned' = {}
  BY <1>3 DEF PlannedOfActiveCase
<1>4. CASE UNCHANGED cases /\ (planned' = {None} \/ planned' = ActiveCases(cases))
  BY <1>4 DEF PlannedOfActiveCase, ActiveCases
<1> QED BY <1>1, <1>2, <1>3, <1>4
-----------------------------------------------------------------------------
(* The holds follow each other. *)

Apart(r, s) == r.expires <= s.starts \/ s.expires <= r.starts

\* No hold becomes active, and the active ones keep their dates.
HoldsOnlyEnd ==
    \A h \in ActiveHolds(holds') :
        /\ h \in ActiveHolds(holds)
        /\ holds'[h].starts = holds[h].starts /\ holds'[h].expires = holds[h].expires

\* A signature ends every hold but its own reservation.
LEMMA ReplaceLeavesSingle ==
    ASSUME TypeOK, NEW c \in ContractIds, NEW t \in Times, ReplaceByReservation(c, t)
    PROVE  \A g, h \in ActiveHolds(holds') : g = h
<1> DEFINE ended(p) == [h \in HoldIds |->
                          IF h \notin ActiveHolds(holds) THEN holds[h]
                          ELSE [holds[h] EXCEPT !.st =
                                  IF h = p THEN "converted" ELSE "expired"]]
<1> DEFINE pre    == {h \in ActiveHolds(holds) :
                        holds[h].case = contracts[c].case /\ holds[h].kind = "pre_reservation"}
           term   == t + ReservationTerm
           row(p) == [st |-> "active", kind |-> "reservation", case |-> contracts[c].case,
                      starts |-> t, by |-> c,
                      expires |-> IF pre # {} /\ holds[p].expires > term
                                  THEN holds[p].expires ELSE term]
<1>1. PICK p \in IF pre = {} THEN {None} ELSE pre :
         \/ holds' = ended(p)
         \/ \E h \in HoldIds : holds' = [ended(p) EXCEPT ![h] = row(p)]
  BY DEF ReplaceByReservation
<1>2. \A h \in HoldIds : ended(p)[h].st # "active"
  BY DEF ActiveHolds, TypeOK, HoldRow
<1>3. DOMAIN ended(p) = HoldIds
  OBVIOUS
<1> HIDE DEF ended, row
<1> QED BY <1>1, <1>2, <1>3 DEF ActiveHolds

\* Stale holds end first; the new hold is then apart from every active one.
LEMMA CreatedApart ==
    ASSUME SaleInvariant, HoldsNeverOverlap,
           NEW h \in HoldIds, NEW k \in CaseIds, NEW b \in Parties,
           NEW kind \in HoldKinds, NEW expires \in 1 .. MaxTime + 1,
           NEW closed \in {"cancelled", "expired"}, NEW t \in Times,
           CreateUnitHold(h, k, b, kind, expires, closed, t)
    PROVE  HoldsNeverOverlap'
<1> DEFINE stale == {g \in HoldIds : Expirable(g, t)}
           hs    == Expired(stale)
           new   == [st |-> "active", kind |-> kind, case |-> k,
                     starts |-> t, expires |-> expires, by |-> None]
<1>1. /\ holds' = [hs EXCEPT ![h] = new]
      /\ \A g \in ActiveHolds(hs) : ~(hs[g].starts < expires /\ t < hs[g].expires)
  BY DEF CreateUnitHold
<1>2. hs \in [HoldIds -> HoldRow]
  BY ExpiredType DEF SaleInvariant
<1>3. \A g \in ActiveHolds(hs) : g \in ActiveHolds(holds) /\ hs[g] = holds[g]
  BY DEF ActiveHolds, Expired, SaleInvariant, TypeOK, HoldRow
<1>4. \A g \in HoldIds : hs[g].starts \in Int /\ hs[g].expires \in Int
  BY <1>2 DEF HoldRow, Times, LaterTimes
<1>5. expires \in Int /\ t \in Int
  BY DEF Times
<1>6. \A g \in ActiveHolds(hs) : hs[g].expires <= t \/ expires <= hs[g].starts
  <2> TAKE g \in ActiveHolds(hs)
  <2>1. hs[g].starts \in Int /\ hs[g].expires \in Int
    BY <1>4 DEF ActiveHolds
  <2> HIDE DEF hs
  <2> QED BY <1>1, <1>5, <2>1
<1>7. holds'[h] = new /\ \A g \in HoldIds : g # h => holds'[g] = hs[g]
  BY <1>1, <1>2
<1> HIDE DEF hs, new
<1>8. ASSUME NEW g \in ActiveHolds(holds'), NEW f \in ActiveHolds(holds'), g # f
      PROVE  Apart(holds'[g], holds'[f])
  <2>1. \A i \in ActiveHolds(holds') : i # h => i \in ActiveHolds(hs) /\ holds'[i] = hs[i]
    BY <1>7 DEF ActiveHolds
  <2>2. CASE g # h /\ f # h
    BY <1>3, <1>8, <2>1, <2>2 DEF HoldsNeverOverlap, Apart
  <2>3. new.starts = t /\ new.expires = expires
    BY DEF new
  <2>4. CASE g = h
    BY <1>6, <1>7, <1>8, <2>1, <2>3, <2>4 DEF Apart
  <2>5. CASE f = h
    BY <1>6, <1>7, <1>8, <2>1, <2>3, <2>5 DEF Apart
  <2> QED BY <2>2, <2>4, <2>5
<1> QED BY <1>8 DEF HoldsNeverOverlap, Apart

LEMMA ApartKept ==
    ASSUME SaleInvariant, HoldsNeverOverlap, [Next]_vars
    PROVE  HoldsNeverOverlap'
<1>1. HoldsOnlyEnd => HoldsNeverOverlap'
  BY DEF HoldsOnlyEnd, HoldsNeverOverlap
<1>2. (\A g, h \in ActiveHolds(holds') : g = h) => HoldsNeverOverlap'
  BY DEF HoldsNeverOverlap
<1>3. UNCHANGED holds => HoldsOnlyEnd
  BY DEF HoldsOnlyEnd
<1>4. ASSUME NEW t \in Times, HoldCommand(t) PROVE HoldsNeverOverlap'
  <2>1. ASSUME NEW h \in HoldIds, ExpireUnitHold(h, t) PROVE HoldsOnlyEnd
    BY <2>1 DEF ExpireUnitHold, Expired, HoldsOnlyEnd, ActiveHolds, SaleInvariant, TypeOK, HoldRow
  <2>2. ASSUME NEW h \in HoldIds, CancelUnitHold(h, t) PROVE HoldsOnlyEnd
    BY <2>2 DEF CancelUnitHold, HoldsOnlyEnd, ActiveHolds, SaleInvariant, TypeOK, HoldRow
  <2> QED BY <1>1, <1>4, <2>1, <2>2, CreatedApart DEF HoldCommand
<1>5. ASSUME NEW t \in Times, NEW c \in ContractIds, ContractCommand(c, t)
      PROVE  HoldsNeverOverlap'
  <2>1. ASSUME NEW to \in Ended, EndContract(c, to, t) PROVE HoldsOnlyEnd
    <3>1. \/ UNCHANGED holds
          \/ \E k \in {contracts[c].case, [contracts EXCEPT ![c].st = to, ![c].ended = t][c].case} :
               holds' = [h \in HoldIds |->
                           IF h \in ActiveHolds(holds) /\ holds[h].case = k
                           THEN [holds[h] EXCEPT !.st = "cancelled"] ELSE holds[h]]
      BY <2>1 DEF EndContract
    <3> QED BY <1>3, <3>1 DEF HoldsOnlyEnd, ActiveHolds, SaleInvariant, TypeOK, HoldRow
  <2>2. ASSUME NEW cs, SynchronizeSignedContract(c, cs, t)
        PROVE  UNCHANGED holds \/ ReplaceByReservation(c, t)
    BY <2>2 DEF SynchronizeSignedContract, EnsureSignedReservation, EnsurePurchaseStage
  <2>3. SignContractExternally(c, t) \/ RecordContractPartySignature(c, t)
          => UNCHANGED holds \/ ReplaceByReservation(c, t)
    <3>1. CompleteSignature(c, t) => UNCHANGED holds \/ ReplaceByReservation(c, t)
      BY <2>2 DEF CompleteSignature
    <3> QED BY <2>2, <3>1 DEF SignContractExternally, RecordContractPartySignature
  <2> QED
    BY <1>1, <1>2, <1>3, <1>5, <2>1, <2>3, ReplaceLeavesSingle
       DEF ContractCommand, SaleInvariant
<1>6. ASSUME NEW c \in ContractIds, PreparationCommand(c) PROVE UNCHANGED holds
  BY <1>6 DEF PreparationCommand, CreateContract, CreateContractVersion, AdvanceContract
<1>7. ASSUME NEW t \in Times, UnitStatusCommand(t) PROVE UNCHANGED holds
  BY <1>7 DEF UnitStatusCommand, BlockUnit, UnblockUnit
<1>8. ASSUME Tick \/ HandoverCommand \/ UNCHANGED vars PROVE UNCHANGED holds
  BY <1>8 DEF Tick, HandoverCommand, ScheduleUnitHandover, CompleteHandover,
              CancelHandover, vars
<1> QED BY <1>1, <1>3, <1>4, <1>5, <1>6, <1>7, <1>8 DEF Next

-----------------------------------------------------------------------------
(* The invariant and its theorems. *)

LEMMA InitHistory == Init => SaleHistory
<1> SUFFICES ASSUME Init PROVE SaleHistory
  OBVIOUS
<1>1. ActiveHolds(holds) = {} /\ planned = {} /\ unit = "available"
  BY DEF Init, ActiveHolds, NoHold
<1>2. \A c \in ContractIds : contracts[c].st = "absent" /\ contracts[c].case = None
  BY DEF Init, NoContract
<1>3. OneOpenContractInOrder /\ LiveTypesDiffer /\ OnlyPurchaseReopens /\ BlankUntilInserted
  BY <1>2 DEF OneOpenContractInOrder, LiveTypesDiffer, OnlyPurchaseReopens,
              BlankUntilInserted, Live, Unsigned
<1>4. BoundByPurchase /\ PlannedOfActiveCase /\ HoldsNeverOverlap
  BY <1>1 DEF BoundByPurchase, PlannedOfActiveCase, HoldsNeverOverlap
<1> QED BY <1>3, <1>4, InitInvariant DEF SaleHistory

LEMMA NextHistory == SaleHistory /\ [Next]_vars => SaleHistory'
BY NextInvariant, OrderKept, ReviewKept, BoundKept, PlannedKept, ApartKept DEF SaleHistory

\* Every sale keeps its history, for any number of buyers, holds, cases,
\* contracts and clock values, and however long transactions wait.
THEOREM HistoryCorrect == Spec => []SaleHistory
BY InitHistory, NextHistory, PTL DEF Spec

\* A buyer negotiates one base contract at a time and signs them in order.
THEOREM OrderCorrect == Spec => []OneOpenContractInOrder
<1>1. SaleHistory => OneOpenContractInOrder
  BY DEF SaleHistory
<1> QED BY <1>1, HistoryCorrect, PTL

\* The dates of two active holds never overlap, in whatever order the commands
\* that placed them were granted the lock.
THEOREM HoldsApart == Spec => []HoldsNeverOverlap
<1>1. SaleHistory => HoldsNeverOverlap
  BY DEF SaleHistory
<1> QED BY <1>1, HistoryCorrect, PTL

\* What a step that frees the unit from a sale leaves: no active hold, no
\* evidence of a signature on a live contract, no handover.
LEMMA ReleaseStep ==
    ASSUME SaleHistory, [Next]_vars, unit' = "available",
           unit \in {"pre_reserved", "reserved", "contracted"}
    PROVE  /\ ActiveHolds(holds') = {}
           /\ \A c \in ContractIds : Live(contracts'[c]) => ~SignatureEvidence(contracts'[c])
           /\ ~HandoverExists
<1> USE DEF SaleHistory
<1>1. \A t \in Times : ReleasePermitted(t) =>
        \A c \in ContractIds : Live(contracts[c]) => ~SignatureEvidence(contracts[c])
  BY DEF ReleasePermitted, BlocksUnitRelease, EffectivelyEnded, Live, Ended
<1>2. ASSUME NEW t \in Times, NEW h \in HoldIds, ExpireUnitHold(h, t) \/ CancelUnitHold(h, t)
      PROVE  /\ ActiveHolds(holds') = {} /\ UNCHANGED contracts
             /\ ReleasePermitted(t) /\ ~HandoverExists
  BY <1>2 DEF ExpireUnitHold, CancelUnitHold, Expirable, FreesUnit, ReleasePermitted
<1>3. ASSUME NEW t \in Times, NEW h \in HoldIds, NEW k \in CaseIds, NEW b \in Parties,
             NEW kind \in HoldKinds, NEW expires \in 1 .. MaxTime + 1,
             NEW closed \in {"cancelled", "expired"},
             CreateUnitHold(h, k, b, kind, expires, closed, t)
      PROVE  FALSE
  BY <1>3 DEF CreateUnitHold, CommandTo
<1>4. ASSUME NEW t \in Times, NEW c \in ContractIds, NEW to \in Ended, EndContract(c, to, t)
      PROVE  /\ ActiveHolds(holds') = {}
             /\ \A d \in ContractIds : Live(contracts'[d]) => ~SignatureEvidence(contracts'[d])
             /\ ~HandoverExists
  <2> DEFINE cs == [contracts EXCEPT ![c].st = to, ![c].ended = t]
             k  == cs[c].case
  <2>1. k = contracts[c].case /\ contracts' = cs /\ cs[c].st \in Ended
    BY <1>4 DEF EndContract, SaleInvariant, TypeOK, ContractRow
  <2>2. ReleaseEligible(c, cs, t)
    BY <1>4 DEF EndContract
  <2>3. /\ \A d \in ContractIds \ {c} : ~BlocksUnitRelease(cs[d], t)
        /\ ~HandoverExists
        /\ \A h \in ActiveHolds(holds) : holds[h].case = k
    BY <2>2 DEF ReleaseEligible, ReleasableHold
  <2>4. holds' = [h \in HoldIds |-> IF h \in ActiveHolds(holds) /\ holds[h].case = k
                                    THEN [holds[h] EXCEPT !.st = "cancelled"] ELSE holds[h]]
    BY <1>4, <2>1, <2>2 DEF EndContract
  <2>5. ActiveHolds(holds') = {}
    BY <2>3, <2>4 DEF ActiveHolds, SaleInvariant, TypeOK, HoldRow
  <2>6. \A d \in ContractIds : Live(contracts'[d]) => ~SignatureEvidence(contracts'[d])
    BY <2>1, <2>3 DEF BlocksUnitRelease, EffectivelyEnded, Live
  <2> QED BY <2>3, <2>5, <2>6
<1>5. ASSUME NEW t \in Times, NEW c \in ContractIds,
             SignContractExternally(c, t) \/ RecordContractPartySignature(c, t)
      PROVE  FALSE
  <2>1. ASSUME NEW cs, SynchronizeSignedContract(c, cs, t) PROVE unit' # "available"
    BY <2>1 DEF SynchronizeSignedContract, EnsureSignedReservation, EnsurePurchaseStage, CommandTo
  <2>2. CompleteSignature(c, t) => unit' # "available"
    BY <2>1 DEF CompleteSignature
  <2> QED BY <1>5, <2>1, <2>2 DEF SignContractExternally, RecordContractPartySignature
<1>6. ASSUME NEW t \in Times, UnitStatusCommand(t) PROVE FALSE
  BY <1>6 DEF UnitStatusCommand, BlockUnit, UnblockUnit, UnitCommand, CommandFrom
<1>7. ASSUME NEW c \in ContractIds, PreparationCommand(c) PROVE FALSE
  BY <1>7 DEF PreparationCommand, CreateContract, CreateContractVersion, AdvanceContract
<1>8. ASSUME Tick \/ HandoverCommand \/ UNCHANGED vars PROVE FALSE
  BY <1>8 DEF Tick, HandoverCommand, ScheduleUnitHandover, CompleteHandover,
              CancelHandover, vars
<1>9. ASSUME NEW t \in Times, HoldCommand(t)
      PROVE  /\ ActiveHolds(holds') = {}
             /\ \A c \in ContractIds : Live(contracts'[c]) => ~SignatureEvidence(contracts'[c])
             /\ ~HandoverExists
  BY <1>1, <1>2, <1>3, <1>9 DEF HoldCommand
<1>10. ASSUME NEW t \in Times, NEW c \in ContractIds, ContractCommand(c, t)
       PROVE  /\ ActiveHolds(holds') = {}
              /\ \A d \in ContractIds : Live(contracts'[d]) => ~SignatureEvidence(contracts'[d])
              /\ ~HandoverExists
  BY <1>4, <1>5, <1>10 DEF ContractCommand
<1> QED BY <1>6, <1>7, <1>8, <1>9, <1>10 DEF Next

\* A unit returns to the offer from a sale only when nothing keeps it.
THEOREM ReleaseCorrect == Spec => ReleaseLeavesNothingBehind
<1>1. SaleHistory /\ [Next]_vars =>
        [unit' = "available" /\ unit \in {"pre_reserved", "reserved", "contracted"} =>
          /\ ActiveHolds(holds') = {}
          /\ \A c \in ContractIds : Live(contracts'[c]) => ~SignatureEvidence(contracts'[c])
          /\ ~HandoverExists]_vars
  BY ReleaseStep
<1> QED BY <1>1, HistoryCorrect, PTL DEF Spec, ReleaseLeavesNothingBehind

\* The contracts of a closed case are only reworked as drafts or ended.
LEMMA ClosedContractStep ==
    ASSUME SaleHistory, [Next]_vars, NEW k \in CaseIds,
           cases[k].st \in {"cancelled", "expired"}, NEW d \in OfCase(k)
    PROVE  /\ contracts'[d].st \in {contracts[d].st, "draft"} \cup Ended
           /\ contracts[d].party <=> contracts'[d].party
<1> DEFINE quiet == /\ contracts'[d].st \in {contracts[d].st, "draft"} \cup Ended
                    /\ contracts[d].party <=> contracts'[d].party
<1>1. /\ d \in ContractIds /\ contracts[d].case = k /\ cases[k].st # "active"
      /\ contracts[d] \in ContractRow /\ contracts \in [ContractIds -> ContractRow]
  BY DEF OfCase, SaleHistory, SaleInvariant, TypeOK
<1>2. contracts'[d] = contracts[d] => quiet
  OBVIOUS
<1>3. ASSUME NEW t \in Times, NEW c \in ContractIds, ContractCommand(c, t)
      PROVE  quiet
  <2>1. ASSUME NEW to \in Ended, EndContract(c, to, t) PROVE quiet
    BY <1>1, <2>1 DEF EndContract, ContractRow
  <2>2. ASSUME ReadyToSign(c, t) PROVE c # d
    BY <1>1, <2>2 DEF ReadyToSign
  <2>3. ASSUME SignContractExternally(c, t) \/ RecordContractPartySignature(c, t)
        PROVE  contracts'[d] = contracts[d]
    <3>1. \/ UNCHANGED contracts
          \/ /\ ReadyToSign(c, t)
             /\ \/ contracts' = [contracts EXCEPT ![c].party = TRUE]
                \/ contracts' = [contracts EXCEPT ![c].st = "signed", ![c].ver = "signed",
                                                  ![c].party = TRUE]
      BY <2>3 DEF SignContractExternally, RecordContractPartySignature, CompleteSignature
    <3> QED BY <1>1, <2>2, <3>1
  <2> QED BY <1>2, <1>3, <2>1, <2>3 DEF ContractCommand
<1>4. ASSUME NEW c \in ContractIds, NEW j \in CaseIds, NEW ty \in BaseTypes,
             CreateContract(c, j, ty)
      PROVE  quiet
  <2>1. contracts[c].case = None
    BY <1>4, Inserted DEF SaleHistory, BlankUntilInserted
  <2>2. c # d
    BY <1>1, <2>1 DEF CaseIds, None
  <2> QED BY <1>1, <1>2, <1>4, <2>2, Inserted DEF SaleHistory
<1>5. ASSUME NEW c \in ContractIds, CreateContractVersion(c) PROVE quiet
  BY <1>1, <1>5 DEF CreateContractVersion, ContractRow
<1>6. ASSUME NEW c \in ContractIds, NEW to \in Unsigned, AdvanceContract(c, to) PROVE quiet
  <2>1. c # d
    BY <1>1, <1>6 DEF AdvanceContract
  <2> QED BY <1>1, <1>2, <1>6, <2>1 DEF AdvanceContract
<1>7. ASSUME NEW t \in Times, HoldCommand(t) \/ UnitStatusCommand(t)
      PROVE  UNCHANGED contracts
  BY <1>7, HoldsKeepContracts
<1>8. ASSUME Tick \/ HandoverCommand \/ UNCHANGED vars PROVE UNCHANGED contracts
  BY <1>8 DEF Tick, HandoverCommand, ScheduleUnitHandover, CompleteHandover,
              CancelHandover, vars
<1> HIDE DEF quiet
<1>9. quiet
  BY <1>2, <1>3, <1>4, <1>5, <1>6, <1>7, <1>8 DEF Next, PreparationCommand
<1> QED BY <1>9 DEF quiet

\* Nothing reopens a closed case or moves its stage.
THEOREM ClosedCaseCorrect == Spec => ClosedCaseIsHistory
<1>1. SaleHistory /\ [Next]_vars =>
        [\A k \in CaseIds : cases[k].st \in {"cancelled", "expired"} =>
           /\ cases'[k] = cases[k]
           /\ \A c \in OfCase(k) :
                contracts'[c].st \in {contracts[c].st, "draft"} \cup Ended
                /\ (contracts[c].party <=> contracts'[c].party)]_vars
  <2> SUFFICES ASSUME SaleHistory, [Next]_vars, NEW k \in CaseIds,
                      cases[k].st \in {"cancelled", "expired"}
               PROVE  /\ cases'[k] = cases[k]
                      /\ \A c \in OfCase(k) :
                           contracts'[c].st \in {contracts[c].st, "draft"} \cup Ended
                           /\ (contracts[c].party <=> contracts'[c].party)
    OBVIOUS
  <2>1. cases'[k] = cases[k]
    BY CaseStep DEF CaseMoves, SaleHistory
  <2> QED BY <2>1, ClosedContractStep
<1> QED BY <1>1, HistoryCorrect, PTL DEF Spec, ClosedCaseIsHistory

-----------------------------------------------------------------------------
(* The reservation of a signed RS. *)

\* Before its first signature a contract finds every effective contract of the
\* unit in its own case and at an earlier step.
LEMMA SignedBefore ==
    ASSUME SaleHistory, NEW c \in ContractIds, NEW t \in Times, CompleteSignature(c, t),
           NEW d \in ContractIds, contracts[d].st = "signed"
    PROVE  /\ contracts[c].case = contracts[d].case
           /\ contracts[d].type \in {"rs", "sbk"}
           /\ contracts[c].type \in {"sbk", "ks"}
           /\ contracts[d].type # contracts[c].type
<1>1. contracts[c].st = "approved" /\ cases[contracts[c].case].st = "active"
  BY DEF CompleteSignature, ReadyToSign
<1>2. contracts[c].case = contracts[d].case
  BY <1>1 DEF SaleHistory, SaleInvariant, SignedContractProtectsUnit, OneActiveCase,
              ActiveCases, ContractOfCase
<1>3. c # d /\ Live(contracts[c]) /\ Live(contracts[d])
  BY <1>1 DEF Live, Ended
<1> QED BY <1>1, <1>2, <1>3 DEF SaleHistory, OneOpenContractInOrder, LiveTypesDiffer

\* An RS or SBK is never signed on a unit that a purchase already binds.
LEMMA UnboundToSign ==
    ASSUME SaleHistory, NEW c \in ContractIds, NEW t \in Times, CompleteSignature(c, t),
           contracts[c].type # "ks"
    PROVE  unit \notin {"contracted", "sold", "handed_over"}
<1> SUFFICES ASSUME unit \in {"contracted", "sold", "handed_over"} PROVE FALSE
  OBVIOUS
<1>1. contracts[c].st = "approved" /\ cases[contracts[c].case].st = "active"
  BY DEF CompleteSignature, ReadyToSign
<1>2. PICK d \in ContractIds : /\ contracts[d].type \in {"sbk", "ks"}
                              /\ contracts[d].st \in {"signed"} \cup Ended
                              /\ cases[contracts[d].case].st = "active"
  BY DEF SaleHistory, BoundByPurchase
<1>3. contracts[d].st # "absent" /\ c # d /\ contracts[c].st \in Unsigned
  BY <1>1, <1>2 DEF Ended, Unsigned
<1>4. contracts[c].case \in CaseIds /\ contracts[d].case \in CaseIds
  BY <1>1, <1>3 DEF SaleHistory, SaleInvariant, ContractOfCase
<1>5. contracts[c].case = contracts[d].case
  BY <1>1, <1>2, <1>4 DEF OneActiveCase, ActiveCases, SaleHistory, SaleInvariant
<1> QED BY <1>2, <1>3, <1>5 DEF SaleHistory, OnlyPurchaseReopens

\* A new hold is a pre-reservation, placed while nothing is signed, and every
\* reservation that is still active has run out.
LEMMA CreatedIsPreReservation ==
    ASSUME SaleHistory, NEW h \in HoldIds, NEW k \in CaseIds, NEW b \in Parties,
           NEW kind \in HoldKinds, NEW expires \in 1 .. MaxTime + 1,
           NEW closed \in {"cancelled", "expired"}, NEW t \in Times,
           CreateUnitHold(h, k, b, kind, expires, closed, t)
    PROVE  /\ kind = "pre_reservation" /\ unit' = "pre_reserved"
           /\ ~HasEffectiveSignedContract(contracts)
           /\ holds'[h].st = "active" /\ holds'[h].kind = "pre_reservation"
           /\ holds'[h].by = None
           /\ \A g \in HoldIds : g # h =>
                /\ holds'[g].kind = holds[g].kind /\ holds'[g].by = holds[g].by
                /\ holds'[g].case = holds[g].case /\ holds'[g].expires = holds[g].expires
                /\ holds'[g].st = "absent" <=> holds[g].st = "absent"
                /\ holds'[g].st = "active" => holds[g].st = "active"
                /\ holds'[g].st = "active" /\ holds[g].kind = "reservation"
                     => holds[g].expires <= now
<1> DEFINE stale == {g \in HoldIds : Expirable(g, t)}
           hs    == Expired(stale)
           freed == FreesUnit(stale)
           new   == [st |-> "active", kind |-> kind, case |-> k,
                     starts |-> t, expires |-> expires, by |-> None]
<1>1. /\ holds' = [hs EXCEPT ![h] = new]
      /\ ~OverlapsActiveHold(hs, kind, t, expires)
      /\ kind = "reservation" => ReservationProof(contracts, k)
      /\ t <= now
  BY DEF CreateUnitHold, TxTime
<1>2. ~HasEffectiveSignedContract(contracts)
  <2>1. CASE freed
    BY <2>1 DEF FreesUnit, Expirable
  <2>2. CASE ~freed
    <3>1. unit = "available"
      BY <2>2 DEF CreateUnitHold, UnitCommand, CommandFrom, HoldKinds
    <3> QED BY <3>1 DEF SaleHistory, SaleInvariant, SignedContractProtectsUnit,
                        HasEffectiveSignedContract
  <2> QED BY <2>1, <2>2
<1>3. kind = "pre_reservation" /\ unit' = "pre_reserved"
  BY <1>1, <1>2 DEF CreateUnitHold, HoldKinds, ReservationProof,
                    HasEffectiveSignedContract, CommandTo
<1>4. hs \in [HoldIds -> HoldRow]
  BY ExpiredType DEF SaleHistory, SaleInvariant
<1>5. \A g \in HoldIds :
        /\ hs[g].kind = holds[g].kind /\ hs[g].by = holds[g].by
        /\ hs[g].case = holds[g].case /\ hs[g].expires = holds[g].expires
        /\ hs[g].st = "absent" <=> holds[g].st = "absent"
        /\ hs[g].st = "active" => holds[g].st = "active"
  BY DEF Expired, Expirable, SaleHistory, SaleInvariant, TypeOK, HoldRow
<1>6. ASSUME NEW g \in HoldIds, hs[g].st = "active", hs[g].kind = "reservation"
      PROVE  hs[g].expires <= now
  <2>1. hs[g].expires \in Int /\ t \in Int /\ now \in Int
    BY <1>4 DEF HoldRow, Times, LaterTimes, SaleHistory, SaleInvariant, TypeOK
  <2>2. ~(t < hs[g].expires)
    BY <1>1, <1>3, <1>6 DEF OverlapsActiveHold, ActiveHolds
  <2> HIDE DEF hs
  <2> QED BY <1>1, <2>1, <2>2
<1>7. holds'[h] = new /\ \A g \in HoldIds : g # h => holds'[g] = hs[g]
  BY <1>1, <1>4
<1>8. new.st = "active" /\ new.kind = kind /\ new.by = None
  OBVIOUS
<1> HIDE DEF hs, new
<1>9. ASSUME NEW g \in HoldIds, g # h
      PROVE  /\ holds'[g].kind = holds[g].kind /\ holds'[g].by = holds[g].by
             /\ holds'[g].case = holds[g].case /\ holds'[g].expires = holds[g].expires
             /\ holds'[g].st = "absent" <=> holds[g].st = "absent"
             /\ holds'[g].st = "active" => holds[g].st = "active"
             /\ holds'[g].st = "active" /\ holds[g].kind = "reservation"
                  => holds[g].expires <= now
  BY <1>5, <1>6, <1>7, <1>9
<1> QED BY <1>2, <1>3, <1>7, <1>8, <1>9

\* What a step that places no hold does to the row h of unit_holds.
RowEnds(h) ==
    /\ holds'[h].kind = holds[h].kind /\ holds'[h].by = holds[h].by
    /\ holds'[h].case = holds[h].case /\ holds'[h].expires = holds[h].expires
    /\ holds'[h].st = "absent" <=> holds[h].st = "absent"
    /\ holds'[h].st = "active" => holds[h].st = "active"

\* Under a reservation that stays, the case keeps its late stage, and reaches
\* one only when no RS of it is open.
StageKept ==
    \A h \in HoldIds : holds'[h].st = "active" /\ holds[h].kind = "reservation" =>
        LET from == cases[holds[h].case].stage
            to   == cases'[holds[h].case].stage
        IN /\ from \in LateStages => to \in LateStages
           /\ unit' = "reserved" => unit = "reserved" \/ to \in LateStages
           /\ (\E c \in ContractIds : /\ contracts[c].type = "rs"
                                      /\ contracts[c].case = holds[h].case
                                      /\ contracts[c].st \in Unsigned
                                      /\ contracts'[c].st \in Unsigned)
                => (to \in LateStages => from \in LateStages)

\* No RS is signed, and the reservations of the signed ones stay.
NoNewRs ==
    \A c \in ContractIds : contracts'[c].st = "signed" /\ contracts'[c].type = "rs" =>
        /\ contracts[c].st = "signed" /\ contracts[c].type = "rs"
        /\ contracts[c].case = contracts'[c].case
        /\ \A h \in HoldIds : holds[h].st = "active" /\ holds[h].by = c
                                => holds'[h].st = "active"

ReservationParts ==
    /\ SignedRsKeepsReservation
    /\ ReservationOnlyBySignature
    /\ ReservationOfLateCase
    /\ OpenRsAfterReservation
    /\ SignedRsEndsPreReservations
    /\ ReservationMadeBySigned

LEMMA NowGrows == TypeOK /\ [Next]_vars => now' >= now /\ now \in Nat /\ now' \in Nat
<1> SUFFICES ASSUME TypeOK, [Next]_vars
             PROVE  now' >= now /\ now \in Nat /\ now' \in Nat
  OBVIOUS
<1>1. now \in Nat
  BY DEF TypeOK, Times
<1>2. CASE Tick
  BY <1>1, <1>2 DEF Tick
<1>3. ASSUME ~Tick PROVE now' = now
  <2>1. ASSUME NEW t \in Times, HoldCommand(t) PROVE now' = now
    <3>1. \A h \in HoldIds : ExpireUnitHold(h, t) \/ CancelUnitHold(h, t) => now' = now
      BY DEF ExpireUnitHold, CancelUnitHold
    <3>2. \A h \in HoldIds, k \in CaseIds, b \in Parties, kind \in HoldKinds,
             expires \in 1 .. MaxTime + 1, closed \in {"cancelled", "expired"} :
            CreateUnitHold(h, k, b, kind, expires, closed, t) => now' = now
      BY DEF CreateUnitHold
    <3> QED BY <2>1, <3>1, <3>2 DEF HoldCommand
  <2>2. ASSUME NEW t \in Times, NEW c \in ContractIds, ContractCommand(c, t) PROVE now' = now
    <3>1. \A to \in Ended : EndContract(c, to, t) => now' = now
      BY DEF EndContract
    <3>2. SignContractExternally(c, t) \/ RecordContractPartySignature(c, t) => now' = now
      BY DEF SignContractExternally, RecordContractPartySignature, CompleteSignature
    <3> QED BY <2>2, <3>1, <3>2 DEF ContractCommand
  <2>3. ASSUME NEW c \in ContractIds, PreparationCommand(c) PROVE now' = now
    BY <2>3 DEF PreparationCommand, CreateContract, CreateContractVersion, AdvanceContract
  <2>4. ASSUME NEW t \in Times, UnitStatusCommand(t) PROVE now' = now
    BY <2>4 DEF UnitStatusCommand, BlockUnit, UnblockUnit
  <2>5. ASSUME HandoverCommand \/ UNCHANGED vars PROVE now' = now
    BY <2>5 DEF HandoverCommand, ScheduleUnitHandover, CompleteHandover, CancelHandover, vars
  <2> QED BY <1>3, <2>1, <2>2, <2>3, <2>4, <2>5 DEF Next
<1> QED BY <1>1, <1>2, <1>3

\* An RS is drawn only in a case that is not past the negotiation.
LEMMA RsDrawnEarly ==
    ASSUME SaleHistory, NEW c \in ContractIds, NEW k \in CaseIds, CreateContract(c, k, "rs")
    PROVE  cases[k].stage \notin LateStages
<1>1. \A d \in ContractIds : ~(Live(contracts[d]) /\ contracts[d].case = k)
  BY DrawnAfterSigned DEF SaleHistory, BaseTypes
<1>2. \A ty \in BaseTypes : LiveOfType(k, ty) = {}
  BY <1>1 DEF LiveOfType, OfCase
<1>3. ~ReviewRequired(k)
  BY DEF CreateContract, AllowedContractTypes
<1> QED BY <1>2, <1>3 DEF ReviewRequired, LateStages, BaseTypes

\* A step that places no hold and signs no RS keeps what reservations promise.
LEMMA QuietReservations ==
    ASSUME SaleReservations, TypeOK', [Next]_vars,
           \A h \in HoldIds : RowEnds(h), StageKept, NoNewRs
    PROVE  ReservationParts'
<1>1. \A h \in ActiveHolds(holds') :
        /\ h \in ActiveHolds(holds)
        /\ holds'[h].kind = holds[h].kind /\ holds'[h].by = holds[h].by
        /\ holds'[h].case = holds[h].case /\ holds'[h].expires = holds[h].expires
  BY DEF ActiveHolds, RowEnds
<1>2. SaleInvariant
  BY DEF SaleReservations, SaleHistory
<1>3. SignedRsKeepsReservation'
  <2> SUFFICES ASSUME NEW c \in ContractIds, contracts'[c].st = "signed",
                      contracts'[c].type = "rs"
               PROVE  \E h \in ActiveHolds(holds') : /\ holds'[h].by = c
                                                     /\ holds'[h].kind = "reservation"
                                                     /\ holds'[h].case = contracts'[c].case
    BY DEF SignedRsKeepsReservation
  <2>1. /\ contracts[c].st = "signed" /\ contracts[c].type = "rs"
        /\ contracts[c].case = contracts'[c].case
        /\ \A h \in HoldIds : holds[h].st = "active" /\ holds[h].by = c
                                => holds'[h].st = "active"
    BY DEF NoNewRs
  <2>2. PICK h \in HoldIds : /\ holds[h].st = "active" /\ holds[h].by = c
                             /\ holds[h].kind = "reservation"
                             /\ holds[h].case = contracts[c].case
    BY <2>1 DEF SaleReservations, SignedRsKeepsReservation, ActiveHolds
  <2> QED BY <1>1, <2>1, <2>2 DEF ActiveHolds
<1>4. ReservationMadeBySigned'
  <2> SUFFICES ASSUME NEW h \in HoldIds, holds'[h].by # None
               PROVE  contracts'[holds'[h].by].st \in {"signed"} \cup Ended
    BY DEF ReservationMadeBySigned
  <2> DEFINE d == holds[h].by
  <2>1. /\ holds'[h].by = d /\ d \in ContractIds
        /\ contracts[d].st \in {"signed"} \cup Ended
    BY DEF RowEnds, SaleReservations, ReservationMadeBySigned, SaleHistory, SaleInvariant,
           TypeOK, HoldRow
  <2>2. CASE \A e \in ContractIds : RowMoves(e)
    BY <1>2, <2>1, <2>2, MovesKeep
  <2>3. ASSUME NEW c \in ContractIds, NEW k \in CaseIds, NEW ty \in BaseTypes,
               CreateContract(c, k, ty)
        PROVE  contracts'[d] = contracts[d]
    <3>1. contracts[d].st # "absent"
      BY <2>1 DEF Ended
    <3> QED BY <1>2, <2>1, <2>3, <3>1, Inserted
  <2> QED BY <1>2, <2>1, <2>2, <2>3, ContractStep
<1>5. SignedRsEndsPreReservations'
  BY <1>1 DEF SignedRsEndsPreReservations, NoNewRs, SaleReservations
<1>6. ReservationOnlyBySignature'
  BY <1>5 DEF ReservationOnlyBySignature, RowEnds, SaleReservations, ReservationProof,
     SignedRsEndsPreReservations, ConvertPreReservationEnabled, ActiveHolds
<1>7. ReservationOfLateCase'
  <2> SUFFICES ASSUME NEW h \in ActiveHolds(holds'), holds'[h].kind = "reservation"
               PROVE  \/ cases'[holds'[h].case].stage \in LateStages
                      \/ holds'[h].expires <= now' /\ unit' # "reserved"
    BY DEF ReservationOfLateCase
  <2>1. \/ cases[holds[h].case].stage \in LateStages
        \/ holds[h].expires <= now /\ unit # "reserved"
    BY <1>1 DEF SaleReservations, ReservationOfLateCase
  <2>2. /\ cases[holds[h].case].stage \in LateStages
             => cases'[holds[h].case].stage \in LateStages
        /\ unit' = "reserved"
             => unit = "reserved" \/ cases'[holds[h].case].stage \in LateStages
    BY <1>1 DEF StageKept, ActiveHolds
  <2>3. holds[h].expires \in Nat /\ now \in Nat /\ now' \in Nat /\ now' >= now
    BY <1>1, <1>2, NowGrows DEF SaleInvariant, TypeOK, HoldRow, LaterTimes, ActiveHolds
  <2>4. holds[h].expires <= now => holds[h].expires <= now'
    BY <2>3
  <2> QED BY <1>1, <2>1, <2>2, <2>4
<1>8. OpenRsAfterReservation'
  <2> SUFFICES ASSUME NEW h \in ActiveHolds(holds'), NEW c \in ContractIds,
                      holds'[h].kind = "reservation",
                      contracts'[c].type = "rs", contracts'[c].st \in Unsigned,
                      contracts'[c].case = holds'[h].case
               PROVE  /\ cases'[holds'[h].case].stage \notin LateStages
                      /\ holds'[h].expires <= contracts'[c].created
    BY DEF OpenRsAfterReservation
  <2>1. CASE \A e \in ContractIds : RowMoves(e)
    <3>1. /\ contracts[c].type = "rs" /\ contracts[c].case = holds[h].case
          /\ contracts'[c].created = contracts[c].created
          /\ contracts[c].st \in Unsigned
      BY <1>1, <1>2, <2>1, MovesKeep DEF RowMoves
    <3>2. /\ cases[holds[h].case].stage \notin LateStages
          /\ holds[h].expires <= contracts[c].created
      BY <1>1, <3>1 DEF SaleReservations, OpenRsAfterReservation
    <3>3. cases'[holds[h].case].stage \notin LateStages
      BY <1>1, <3>1, <3>2 DEF StageKept, ActiveHolds
    <3> QED BY <1>1, <3>1, <3>2, <3>3
  <2>2. ASSUME NEW d \in ContractIds, NEW k \in CaseIds, NEW ty \in BaseTypes,
               CreateContract(d, k, ty)
        PROVE  /\ cases'[holds'[h].case].stage \notin LateStages
               /\ holds'[h].expires <= contracts'[c].created
    <3>0. cases' = cases /\ now' = now
      BY <2>2 DEF CreateContract
    <3>1. CASE c = d
      <4>1. ty = "rs" /\ contracts'[c].created = now /\ k = holds[h].case
        BY <1>1, <1>2, <2>2, <3>1, Inserted
      <4>2. cases[holds[h].case].stage \notin LateStages
        BY <2>2, <4>1, RsDrawnEarly DEF SaleReservations
      <4>3. holds[h].expires <= now
        BY <1>1, <4>2 DEF SaleReservations, ReservationOfLateCase
      <4> QED BY <1>1, <3>0, <4>1, <4>2, <4>3
    <3>2. CASE c # d
      <4>1. contracts'[c] = contracts[c]
        BY <1>2, <2>2, <3>2, Inserted
      <4> QED BY <1>1, <3>0, <4>1 DEF SaleReservations, OpenRsAfterReservation
    <3> QED BY <3>1, <3>2
  <2> QED BY <1>2, <2>1, <2>2, ContractStep
<1> QED BY <1>3, <1>4, <1>5, <1>6, <1>7, <1>8 DEF ReservationParts

\* A step that leaves holds, cases and the unit alone.
LEMMA NothingMoves ==
    ASSUME SaleReservations, TypeOK', [Next]_vars, UNCHANGED <<unit, holds, cases>>, NoNewRs
    PROVE  ReservationParts'
<1>1. \A h \in HoldIds : RowEnds(h)
  BY DEF RowEnds
<1>2. StageKept
  BY DEF StageKept
<1> QED BY <1>1, <1>2, QuietReservations

LEMMA EndedHoldReservations ==
    ASSUME SaleReservations, TypeOK', [Next]_vars, NEW t \in Times, NEW h \in HoldIds,
           ExpireUnitHold(h, t) \/ CancelUnitHold(h, t)
    PROVE  ReservationParts'
<1>1. TypeOK
  BY DEF SaleReservations, SaleHistory, SaleInvariant
<1>2. \A g \in HoldIds : RowEnds(g)
  <2>1. CASE ExpireUnitHold(h, t)
    <3>1. holds' = Expired({h}) /\ holds[h].st = "active"
      BY <2>1 DEF ExpireUnitHold, Expirable
    <3> QED BY <1>1, <3>1 DEF Expired, RowEnds, TypeOK, HoldRow
  <2>2. CASE CancelUnitHold(h, t)
    <3>1. holds' = [holds EXCEPT ![h].st = "cancelled"] /\ holds[h].st = "active"
      BY <2>2 DEF CancelUnitHold
    <3> QED BY <1>1, <3>1 DEF RowEnds, TypeOK, HoldRow
  <2> QED BY <2>1, <2>2
<1>3. ~HasEffectiveSignedContract(contracts) /\ UNCHANGED contracts
  BY DEF ExpireUnitHold, CancelUnitHold, Expirable
<1>4. NoNewRs
  BY <1>3 DEF NoNewRs, HasEffectiveSignedContract
<1>5. ActiveHolds(holds') = {} \/ UNCHANGED <<unit, cases>>
  BY DEF ExpireUnitHold, CancelUnitHold, FreesUnit
<1>6. StageKept
  BY <1>5 DEF StageKept, ActiveHolds
<1> QED BY <1>2, <1>4, <1>6, QuietReservations

LEMMA CreatedReservations ==
    ASSUME SaleReservations, TypeOK', NEW h \in HoldIds, NEW k \in CaseIds,
           NEW b \in Parties, NEW kind \in HoldKinds, NEW expires \in 1 .. MaxTime + 1,
           NEW closed \in {"cancelled", "expired"}, NEW t \in Times,
           CreateUnitHold(h, k, b, kind, expires, closed, t)
    PROVE  ReservationParts'
<1>1. SaleHistory /\ SaleInvariant /\ TypeOK
  BY DEF SaleReservations, SaleHistory, SaleInvariant
<1>2. /\ unit' = "pre_reserved" /\ ~HasEffectiveSignedContract(contracts)
      /\ kind = "pre_reservation"
      /\ holds'[h].kind = "pre_reservation" /\ holds'[h].by = None
      /\ \A g \in HoldIds : g # h =>
           /\ RowEnds(g)
           /\ holds'[g].st = "active" /\ holds[g].kind = "reservation"
                => holds[g].expires <= now
  BY <1>1, CreatedIsPreReservation DEF RowEnds
<1>3. UNCHANGED <<now, contracts>>
  BY DEF CreateUnitHold
<1>4. SignedRsKeepsReservation' /\ SignedRsEndsPreReservations'
  BY <1>2, <1>3 DEF SignedRsKeepsReservation, SignedRsEndsPreReservations,
                    HasEffectiveSignedContract
<1>5. ReservationOnlyBySignature'
  <2>1. \A g \in HoldIds : holds'[g].kind = "reservation" /\ holds'[g].st # "absent"
          => holds'[g].by # None
    BY <1>2 DEF SaleReservations, ReservationOnlyBySignature, RowEnds
  <2> QED
    BY <1>2, <1>3, <2>1 DEF ReservationOnlyBySignature, ReservationProof,
       HasEffectiveSignedContract, ConvertPreReservationEnabled
<1>6. ReservationMadeBySigned'
  BY <1>2, <1>3 DEF SaleReservations, ReservationMadeBySigned, RowEnds
<1>7. ReservationOfLateCase'
  BY <1>2, <1>3 DEF ReservationOfLateCase, ActiveHolds, RowEnds
<1>8. OpenRsAfterReservation'
  <2> SUFFICES ASSUME NEW g \in HoldIds, holds'[g].st = "active",
                      holds'[g].kind = "reservation",
                      NEW c \in ContractIds, contracts[c].type = "rs",
                      contracts[c].st \in Unsigned, contracts[c].case = holds'[g].case
               PROVE  /\ cases'[holds'[g].case].stage \notin LateStages
                      /\ holds'[g].expires <= contracts[c].created
    BY <1>3 DEF OpenRsAfterReservation, ActiveHolds
  <2>1. g # h /\ RowEnds(g) /\ g \in ActiveHolds(holds)
    BY <1>2 DEF RowEnds, ActiveHolds
  <2>2. /\ cases[holds[g].case].stage \notin LateStages
        /\ holds[g].expires <= contracts[c].created
    BY <2>1 DEF RowEnds, SaleReservations, OpenRsAfterReservation
  <2>3. cases'[k].stage = "pre_reservation"
    BY <1>2 DEF CreateUnitHold
  <2>4. holds'[g].case = k
    <3>1. SaleInvariant'
      BY <1>1, CreateHoldInvariant DEF SaleInvariant, Parts
    <3>2. /\ ActiveCases(cases') = {holds'[g].case}
      BY <3>1 DEF SaleInvariant, ActiveHoldsOfActiveCase, ActiveHolds
    <3>3. k \in ActiveCases(cases')
      BY DEF CreateUnitHold, ActiveCases
    <3> QED BY <3>2, <3>3
  <2> QED BY <2>1, <2>2, <2>3, <2>4 DEF RowEnds, LateStages
<1> QED BY <1>4, <1>5, <1>6, <1>7, <1>8 DEF ReservationParts

LEMMA EndedContractReservations ==
    ASSUME SaleReservations, TypeOK', [Next]_vars, NEW c \in ContractIds, NEW to \in Ended,
           NEW t \in Times, EndContract(c, to, t)
    PROVE  ReservationParts'
<1> DEFINE cs == [contracts EXCEPT ![c].st = to, ![c].ended = t]
<1>1. TypeOK
  BY DEF SaleReservations, SaleHistory, SaleInvariant
<1>2. /\ contracts' = cs /\ cs[c].st \in Ended /\ cs[c].case = contracts[c].case
      /\ \A d \in ContractIds : d # c => contracts'[d] = contracts[d]
  BY <1>1 DEF EndContract, TypeOK, ContractRow
<1>3. CASE ReleaseEligible(c, cs, t)
  <2>1. \A d \in ContractIds : contracts'[d].st # "signed"
    BY <1>2, <1>3 DEF ReleaseEligible, BlocksUnitRelease, EffectivelyEnded, Ended, Unsigned
  <2>2. \A h \in HoldIds : holds[h].st = "active" => holds[h].case = contracts[c].case
    BY <1>2, <1>3 DEF ReleaseEligible, ReleasableHold, ActiveHolds
  <2>3. holds' = [h \in HoldIds |->
                    IF h \in ActiveHolds(holds) /\ holds[h].case = contracts[c].case
                    THEN [holds[h] EXCEPT !.st = "cancelled"] ELSE holds[h]]
    BY <1>3 DEF EndContract
  <2>4. \A h \in HoldIds : RowEnds(h) /\ holds'[h].st # "active"
    BY <1>1, <2>2, <2>3 DEF RowEnds, ActiveHolds, TypeOK, HoldRow
  <2>5. StageKept /\ NoNewRs
    BY <2>1, <2>4 DEF StageKept, NoNewRs
  <2> QED BY <2>4, <2>5, QuietReservations
<1>4. CASE ~ReleaseEligible(c, cs, t)
  <2>1. UNCHANGED <<unit, holds, cases>>
    BY <1>4 DEF EndContract
  <2>2. NoNewRs
    BY <1>2, <2>1 DEF NoNewRs, Ended
  <2> QED BY <2>1, <2>2, NothingMoves
<1> QED BY <1>3, <1>4

LEMMA HandoverReservations ==
    ASSUME SaleReservations, TypeOK', [Next]_vars, Tick \/ HandoverCommand \/ UNCHANGED vars
    PROVE  ReservationParts'
<1>1. UNCHANGED <<holds, contracts>>
  BY DEF Tick, HandoverCommand, ScheduleUnitHandover, CompleteHandover, CancelHandover, vars
<1>2. NoNewRs /\ \A h \in HoldIds : RowEnds(h)
  BY <1>1 DEF NoNewRs, RowEnds
<1>3. CASE UNCHANGED <<unit, cases>>
  BY <1>1, <1>2, <1>3, NothingMoves
<1>4. CASE CompleteHandover
  <2>1. /\ unit \in {"sold", "handed_over"} /\ unit' = "handed_over"
        /\ \A k \in CaseIds : cases'[k].stage = cases[k].stage \/ cases'[k].stage = "handover"
    BY <1>4 DEF CompleteHandover, SaleReservations, SaleHistory, SaleInvariant, TypeOK, CaseRow
  <2>2. PICK d \in ContractIds : /\ contracts[d].type \in {"sbk", "ks"}
                                /\ contracts[d].st \in {"signed"} \cup Ended
                                /\ cases[contracts[d].case].st = "active"
    BY <2>1 DEF SaleReservations, SaleHistory, BoundByPurchase
  <2>3. contracts[d].st # "absent" /\ contracts[d].case \in CaseIds
    BY <2>2 DEF Ended, SaleReservations, SaleHistory, SaleInvariant, ContractOfCase
  \* A purchase bound the unit, so no RS of its case is open.
  <2>4. ASSUME NEW h \in HoldIds, holds[h].st = "active"
        PROVE  /\ holds[h].case = contracts[d].case
               /\ \A c \in ContractIds : contracts[c].type = "rs"
                    /\ contracts[c].case = holds[h].case => contracts[c].st \notin Unsigned
    <3>1. holds[h].case = contracts[d].case
      BY <2>2, <2>3, <2>4 DEF SaleReservations, SaleHistory, SaleInvariant,
                              ActiveHoldsOfActiveCase, ActiveHolds, ActiveCases
    <3>2. \A c \in ContractIds : contracts[c].type = "rs" /\ contracts[c].case = holds[h].case
            => contracts[c].st \notin Unsigned
      BY <2>2, <2>3, <3>1 DEF SaleReservations, SaleHistory, OnlyPurchaseReopens
    <3> QED BY <3>1, <3>2
  <2>5. StageKept
    BY <1>1, <2>1, <2>3, <2>4 DEF StageKept, LateStages
  <2> QED BY <1>2, <2>5, QuietReservations
<1> QED
  BY <1>3, <1>4 DEF Tick, HandoverCommand, ScheduleUnitHandover, CancelHandover, vars

LEMMA BlockReservations ==
    ASSUME SaleReservations, TypeOK', [Next]_vars, NEW t \in Times, UnitStatusCommand(t)
    PROVE  ReservationParts'
<1>1. UNCHANGED <<holds, cases, contracts>> /\ unit' # "reserved"
  BY DEF UnitStatusCommand, BlockUnit, UnblockUnit
<1>2. NoNewRs /\ StageKept /\ \A h \in HoldIds : RowEnds(h)
  BY <1>1 DEF NoNewRs, StageKept, RowEnds
<1> QED BY <1>2, QuietReservations

LEMMA PreparedReservations ==
    ASSUME SaleReservations, TypeOK', [Next]_vars, NEW c \in ContractIds,
           \/ PreparationCommand(c)
           \/ /\ contracts' = [contracts EXCEPT ![c].party = TRUE]
              /\ UNCHANGED <<unit, holds, cases>>
    PROVE  ReservationParts'
<1>1. UNCHANGED <<unit, holds, cases>>
  BY DEF PreparationCommand, CreateContract, CreateContractVersion, AdvanceContract
<1>2. TypeOK /\ SaleInvariant
  BY DEF SaleReservations, SaleHistory, SaleInvariant
<1>3. ASSUME NEW d \in ContractIds, contracts'[d].st = "signed"
      PROVE  contracts[d].st = "signed" /\ contracts'[d].type = contracts[d].type
             /\ contracts'[d].case = contracts[d].case
  <2>1. ASSUME NEW k \in CaseIds, NEW ty \in BaseTypes, CreateContract(c, k, ty)
        PROVE  contracts'[d] = contracts[d]
    BY <1>2, <1>3, <2>1, Inserted
  <2>2. CASE CreateContractVersion(c)
    BY <1>2, <1>3, <2>2 DEF CreateContractVersion, TypeOK, ContractRow, Unsigned
  <2>3. ASSUME NEW to \in Unsigned, AdvanceContract(c, to)
        PROVE  contracts'[d] = contracts[d]
    BY <1>2, <1>3, <2>3 DEF AdvanceContract, TypeOK, ContractRow, Unsigned
  <2>4. CASE contracts' = [contracts EXCEPT ![c].party = TRUE]
    BY <1>2, <1>3, <2>4 DEF TypeOK, ContractRow
  <2> QED BY <1>3, <2>1, <2>2, <2>3, <2>4 DEF PreparationCommand
<1>4. NoNewRs
  BY <1>1, <1>3 DEF NoNewRs
<1> QED BY <1>1, <1>4, NothingMoves

\* The reservation that a first signature of the RS c leaves.
LEMMA ReplaceRow ==
    ASSUME TypeOK, NEW c \in ContractIds, NEW t \in Times, ReplaceByReservation(c, t),
           \A h \in HoldIds : holds[h].by # c
    PROVE  \E h \in HoldIds :
             /\ holds'[h].st = "active" /\ holds'[h].kind = "reservation"
             /\ holds'[h].by = c /\ holds'[h].case = contracts[c].case
             /\ \A g \in HoldIds : g # h =>
                  /\ holds'[g].st # "active"
                  /\ holds'[g].kind = holds[g].kind /\ holds'[g].by = holds[g].by
                  /\ holds'[g].st = "absent" <=> holds[g].st = "absent"
<1> DEFINE ended(p) == [h \in HoldIds |->
                          IF h \notin ActiveHolds(holds) THEN holds[h]
                          ELSE [holds[h] EXCEPT !.st =
                                  IF h = p THEN "converted" ELSE "expired"]]
<1> DEFINE pre    == {h \in ActiveHolds(holds) :
                        holds[h].case = contracts[c].case /\ holds[h].kind = "pre_reservation"}
           term   == t + ReservationTerm
           row(p) == [st |-> "active", kind |-> "reservation", case |-> contracts[c].case,
                      starts |-> t, by |-> c,
                      expires |-> IF pre # {} /\ holds[p].expires > term
                                  THEN holds[p].expires ELSE term]
<1>1. PICK p \in IF pre = {} THEN {None} ELSE pre :
         \E h \in HoldIds : holds' = [ended(p) EXCEPT ![h] = row(p)]
  BY DEF ReplaceByReservation
<1>2. PICK h \in HoldIds : holds' = [ended(p) EXCEPT ![h] = row(p)]
  BY <1>1
<1>3. \A g \in HoldIds : /\ ended(p)[g].st # "active"
                         /\ ended(p)[g].kind = holds[g].kind /\ ended(p)[g].by = holds[g].by
                         /\ ended(p)[g].st = "absent" <=> holds[g].st = "absent"
  BY DEF ActiveHolds, TypeOK, HoldRow
<1>4. /\ row(p).st = "active" /\ row(p).kind = "reservation"
      /\ row(p).by = c /\ row(p).case = contracts[c].case
  OBVIOUS
<1>5. DOMAIN ended(p) = HoldIds
  OBVIOUS
<1> HIDE DEF ended, row
<1>6. holds'[h] = row(p) /\ \A g \in HoldIds : g # h => holds'[g] = ended(p)[g]
  BY <1>2, <1>5
<1> QED BY <1>3, <1>4, <1>6

\* The case of a signature is at a late stage after it, and the others stay.
LEMMA SignedStage ==
    ASSUME TypeOK, NEW c \in ContractIds, NEW t \in Times,
           NEW cs \in [ContractIds -> ContractRow], cs[c].case = contracts[c].case,
           contracts[c].case \in CaseIds, SynchronizeSignedContract(c, cs, t)
    PROVE  cases'[contracts[c].case].stage \in LateStages
<1>1. \/ UNCHANGED cases /\ cases[contracts[c].case].stage \in {"sbk", "ks", "handover"}
      \/ \E stage \in {"reservation", "sbk", "ks"} :
           cases' = [cases EXCEPT ![contracts[c].case].stage = stage]
  <2>1. CASE cs[c].type = "rs"
    BY <2>1 DEF SynchronizeSignedContract, EnsureSignedReservation
  <2>2. CASE cs[c].type # "rs"
    BY <2>2 DEF SynchronizeSignedContract, EnsurePurchaseStage, ContractRow, BaseTypes
  <2> QED BY <2>1, <2>2
<1> QED BY <1>1 DEF LateStages, TypeOK, CaseRow

\* A signature that changes no hold, in a case without another open RS.
LEMMA SignedQuietly ==
    ASSUME SaleReservations, TypeOK', [Next]_vars, NEW c \in ContractIds, NEW t \in Times,
           NEW cs \in [ContractIds -> ContractRow], cs[c].case = contracts[c].case,
           contracts[c].st # "absent", cases[contracts[c].case].st = "active",
           SynchronizeSignedContract(c, cs, t), UNCHANGED holds, NoNewRs,
           \A d \in ContractIds : ~ /\ contracts[d].type = "rs"
                                    /\ contracts[d].case = contracts[c].case
                                    /\ contracts[d].st \in Unsigned
                                    /\ contracts'[d].st \in Unsigned
    PROVE  ReservationParts'
<1>1. TypeOK /\ contracts[c].case \in CaseIds
  BY DEF SaleReservations, SaleHistory, SaleInvariant, ContractOfCase
<1>2. cases'[contracts[c].case].stage \in LateStages
  BY <1>1, SignedStage
<1>3. \A h \in HoldIds : holds[h].st = "active" => holds[h].case = contracts[c].case
  BY <1>1 DEF SaleReservations, SaleHistory, SaleInvariant, ActiveHoldsOfActiveCase,
              ActiveHolds, ActiveCases
<1>4. StageKept
  BY <1>2, <1>3 DEF StageKept
<1>5. \A h \in HoldIds : RowEnds(h)
  BY DEF RowEnds
<1> QED BY <1>4, <1>5, QuietReservations

LEMMA PurchaseReservations ==
    ASSUME SaleReservations, TypeOK', [Next]_vars, NEW c \in ContractIds, NEW t \in Times,
           CompleteSignature(c, t), contracts[c].type # "rs"
    PROVE  ReservationParts'
<1>1. TypeOK /\ contracts[c] \in ContractRow
  BY DEF SaleReservations, SaleHistory, SaleInvariant, TypeOK
<1>2. /\ contracts[c].st = "approved" /\ cases[contracts[c].case].st = "active"
      /\ contracts' = [contracts EXCEPT ![c].st = "signed", ![c].ver = "signed",
                                        ![c].party = TRUE]
      /\ SynchronizeSignedContract(c, contracts', t)
  BY DEF CompleteSignature, ReadyToSign
<1>3. /\ contracts' \in [ContractIds -> ContractRow]
      /\ contracts'[c].case = contracts[c].case /\ contracts'[c].type = contracts[c].type
      /\ \A d \in ContractIds : d # c => contracts'[d] = contracts[d]
  BY <1>1, <1>2 DEF TypeOK, ContractRow
<1>4. UNCHANGED holds
  BY <1>2, <1>3 DEF SynchronizeSignedContract, EnsurePurchaseStage
<1>5. NoNewRs
  BY <1>3, <1>4 DEF NoNewRs
<1>6. \A d \in ContractIds : ~ /\ contracts[d].type = "rs"
                               /\ contracts[d].case = contracts[c].case
                               /\ contracts[d].st \in Unsigned
                               /\ contracts'[d].st \in Unsigned
  BY <1>2 DEF SaleReservations, SaleHistory, OneOpenContractInOrder, Live, Ended, Unsigned
<1>7. /\ contracts[c].st # "absent" /\ cases[contracts[c].case].st = "active"
      /\ SynchronizeSignedContract(c, contracts', t)
  BY <1>2
<1>8. contracts'[c].case = contracts[c].case /\ contracts' \in [ContractIds -> ContractRow]
  BY <1>3
<1> QED BY <1>4, <1>5, <1>6, <1>7, <1>8, SignedQuietly

LEMMA RepeatedReservations ==
    ASSUME SaleReservations, TypeOK', [Next]_vars, NEW c \in ContractIds, NEW t \in Times,
           contracts[c].st = "signed", UNCHANGED contracts,
           SynchronizeSignedContract(c, contracts, t)
    PROVE  ReservationParts'
<1>1. /\ TypeOK /\ contracts \in [ContractIds -> ContractRow]
      /\ contracts[c].st # "absent" /\ cases[contracts[c].case].st = "active"
  BY DEF SaleReservations, SaleHistory, SaleInvariant, TypeOK, SignedContractProtectsUnit
<1>2. UNCHANGED holds
  <2>1. CASE contracts[c].type = "rs"
    <3>1. \E h \in ActiveHolds(holds) :
            holds[h].case = contracts[c].case /\ holds[h].kind = "reservation"
      BY <2>1 DEF SaleReservations, SignedRsKeepsReservation
    <3> QED BY <2>1, <3>1 DEF SynchronizeSignedContract, EnsureSignedReservation
  <2>2. CASE contracts[c].type # "rs"
    BY <2>2 DEF SynchronizeSignedContract, EnsurePurchaseStage
  <2> QED BY <2>1, <2>2
<1>3. NoNewRs
  BY <1>2 DEF NoNewRs
<1>4. \A d \in ContractIds : ~ /\ contracts[d].type = "rs"
                               /\ contracts[d].case = contracts[c].case
                               /\ contracts[d].st \in Unsigned
                               /\ contracts'[d].st \in Unsigned
  BY DEF SaleReservations, SaleHistory, OneOpenContractInOrder, Live, Ended, Unsigned
<1> QED BY <1>1, <1>2, <1>3, <1>4, SignedQuietly

\* The first signature of an RS reserves the unit: the reservation it makes is
\* the one active hold that is left.
LEMMA FirstRsSigned ==
    ASSUME SaleReservations, NEW c \in ContractIds, NEW t \in Times,
           CompleteSignature(c, t), contracts[c].type = "rs"
    PROVE  /\ unit' = "reserved" /\ cases'[contracts[c].case].stage = "reservation"
           /\ ReplaceByReservation(c, t)
           /\ \E h \in HoldIds :
                /\ ActiveHolds(holds') = {h}
                /\ holds'[h].st = "active" /\ holds'[h].kind = "reservation"
                /\ holds'[h].by = c /\ holds'[h].case = contracts[c].case
                /\ \A g \in HoldIds : g # h =>
                     /\ holds'[g].st # "active"
                     /\ holds'[g].kind = holds[g].kind /\ holds'[g].by = holds[g].by
                     /\ holds'[g].st = "absent" <=> holds[g].st = "absent"
<1> DEFINE k == contracts[c].case
<1>1. /\ TypeOK /\ SaleInvariant /\ SaleHistory /\ contracts[c] \in ContractRow
      /\ unit \notin {"contracted", "sold", "handed_over"}
  BY UnboundToSign DEF SaleReservations, SaleHistory, SaleInvariant, TypeOK
<1>2. /\ contracts[c].st = "approved" /\ cases[k].st = "active" /\ contracts[c].created <= t
      /\ contracts' = [contracts EXCEPT ![c].st = "signed", ![c].ver = "signed",
                                        ![c].party = TRUE]
      /\ SynchronizeSignedContract(c, contracts', t)
  BY DEF CompleteSignature, ReadyToSign
<1>3. /\ contracts'[c].case = k /\ contracts'[c].type = "rs" /\ contracts'[c].st = "signed"
      /\ \A d \in ContractIds : d # c => contracts'[d] = contracts[d]
  BY <1>1, <1>2 DEF TypeOK, ContractRow
<1>4. /\ k \in CaseIds
      /\ \A h \in ActiveHolds(holds) : holds[h].case = k
      /\ cases[k].stage \notin {"sbk", "ks", "handover"}
  BY <1>1, <1>2 DEF SaleInvariant, ContractOfCase, ActiveHoldsOfActiveCase, ActiveCases,
                    AdvancedCaseBindsUnit
<1>5. EnsureSignedReservation(c, contracts', t)
  BY <1>2, <1>3 DEF SynchronizeSignedContract
\* A reservation that is still there has run out, and no command may use it.
<1>6. \A h \in ActiveHolds(holds) : holds[h].kind # "reservation"
  <2> SUFFICES ASSUME NEW h \in ActiveHolds(holds), holds[h].kind = "reservation"
               PROVE  FALSE
    OBVIOUS
  <2>1. contracts[c].st \in Unsigned
    BY <1>2 DEF Unsigned
  <2>2. /\ cases[k].stage \notin LateStages
        /\ \A g \in ActiveHolds(holds) : holds[g].kind = "reservation"
             => holds[g].expires <= contracts[c].created
    BY <1>4, <2>1 DEF SaleReservations, OpenRsAfterReservation
  <2>3. unit # "reserved"
    BY <1>4, <2>2 DEF SaleReservations, ReservationOfLateCase
  <2>4. \E cmd \in {"createReservation", "confirmReservation"} :
          UnitCommand(cmd, unit, t, holds, cases', contracts')
    BY <1>3, <1>4, <1>5, <2>3 DEF EnsureSignedReservation
  <2>5. PICK g \in ActiveHolds(holds) : holds[g].kind = "reservation" /\ t < holds[g].expires
    BY <2>4 DEF UnitCommand, CommandEvidence, LiveHold
  <2>6. holds[g].expires <= contracts[c].created
    BY <2>2, <2>5
  <2>7. holds[g].expires \in Int /\ contracts[c].created \in Int /\ t \in Int
    BY <1>1, <2>5 DEF ActiveHolds, TypeOK, HoldRow, LaterTimes, ContractRow, Times
  <2> QED BY <1>2, <2>5, <2>6, <2>7
<1>7. ReplaceByReservation(c, t) /\ cases'[k].stage = "reservation"
  BY <1>1, <1>3, <1>4, <1>5, <1>6 DEF EnsureSignedReservation, TypeOK, CaseRow
<1>8. \A h \in HoldIds : holds[h].by # c
  BY <1>2 DEF SaleReservations, ReservationMadeBySigned, Ended, ContractIds, None
<1>9. PICK h \in HoldIds :
        /\ holds'[h].st = "active" /\ holds'[h].kind = "reservation"
        /\ holds'[h].by = c /\ holds'[h].case = k
        /\ \A g \in HoldIds : g # h =>
             /\ holds'[g].st # "active"
             /\ holds'[g].kind = holds[g].kind /\ holds'[g].by = holds[g].by
             /\ holds'[g].st = "absent" <=> holds[g].st = "absent"
  BY <1>1, <1>7, <1>8, ReplaceRow
<1>10. ActiveHolds(holds') = {h}
  BY <1>9 DEF ActiveHolds
<1>11. unit' = "reserved"
  BY <1>4, <1>3, <1>5 DEF EnsureSignedReservation
<1> QED BY <1>7, <1>9, <1>10, <1>11

LEMMA FirstRsReservations ==
    ASSUME SaleReservations, NEW c \in ContractIds, NEW t \in Times,
           CompleteSignature(c, t), contracts[c].type = "rs"
    PROVE  ReservationParts'
<1> DEFINE k == contracts[c].case
<1>1. /\ TypeOK /\ SaleInvariant /\ SaleHistory /\ contracts[c] \in ContractRow
  BY DEF SaleReservations, SaleHistory, SaleInvariant, TypeOK
<1>2. /\ contracts[c].st = "approved"
      /\ contracts' = [contracts EXCEPT ![c].st = "signed", ![c].ver = "signed",
                                        ![c].party = TRUE]
  BY DEF CompleteSignature, ReadyToSign
<1>3. /\ contracts'[c].case = k /\ contracts'[c].type = "rs" /\ contracts'[c].st = "signed"
      /\ \A d \in ContractIds : d # c => contracts'[d] = contracts[d]
  BY <1>1, <1>2 DEF TypeOK, ContractRow
<1>4. cases'[k].stage = "reservation"
  BY FirstRsSigned
<1>5. PICK h \in HoldIds :
        /\ ActiveHolds(holds') = {h}
        /\ holds'[h].st = "active" /\ holds'[h].kind = "reservation"
        /\ holds'[h].by = c /\ holds'[h].case = k
        /\ \A g \in HoldIds : g # h =>
             /\ holds'[g].st # "active"
             /\ holds'[g].kind = holds[g].kind /\ holds'[g].by = holds[g].by
             /\ holds'[g].st = "absent" <=> holds[g].st = "absent"
  BY FirstRsSigned
<1>6. ActiveHolds(holds') = {h}
  BY <1>5
<1>7. SignedRsKeepsReservation'
  <2>1. \A d \in ContractIds : contracts'[d].st = "signed" /\ contracts'[d].type = "rs" => d = c
    BY <1>1, <1>3, SignedBefore
  <2> QED BY <1>3, <1>5, <1>6, <2>1 DEF SignedRsKeepsReservation
<1>8. c # None
  BY DEF ContractIds, None
<1>9. SignedRsEndsPreReservations'
  BY <1>5, <1>6 DEF SignedRsEndsPreReservations
<1>10. ReservationOnlyBySignature'
  <2>1. \A g \in HoldIds : holds'[g].kind = "reservation" /\ holds'[g].st # "absent"
          => holds'[g].by # None
    BY <1>5, <1>8 DEF SaleReservations, ReservationOnlyBySignature
  <2> QED
    BY <1>5, <2>1 DEF ReservationOnlyBySignature, ConvertPreReservationEnabled
<1>11. ReservationOfLateCase'
  BY <1>4, <1>5, <1>6 DEF ReservationOfLateCase, LateStages
<1>12. OpenRsAfterReservation'
  <2> SUFFICES ASSUME NEW d \in ContractIds, contracts'[d].type = "rs",
                      contracts'[d].st \in Unsigned, contracts'[d].case = k
               PROVE  FALSE
    BY <1>5, <1>6 DEF OpenRsAfterReservation
  <2>1. d # c /\ contracts[d].type = "rs" /\ contracts[d].st \in Unsigned
        /\ contracts[d].case = k
    BY <1>3 DEF Unsigned
  <2> QED BY <1>1, <1>2, <2>1 DEF SaleHistory, LiveTypesDiffer, Live, Unsigned, Ended
<1>13. ReservationMadeBySigned'
  <2> SUFFICES ASSUME NEW g \in HoldIds, holds'[g].by # None
               PROVE  contracts'[holds'[g].by].st \in {"signed"} \cup Ended
    BY DEF ReservationMadeBySigned
  <2>1. CASE g = h
    BY <1>3, <1>5, <2>1
  <2>2. ASSUME g # h PROVE contracts'[holds'[g].by].st \in {"signed"} \cup Ended
    <3>1. holds'[g].by = holds[g].by /\ holds[g].by # None
      BY <1>5, <2>2
    <3>2. holds[g].by \in ContractIds
      <4>1. holds[g] \in HoldRow
        BY <1>1 DEF TypeOK
      <4> QED BY <3>1, <4>1 DEF HoldRow
    <3>3. contracts[holds[g].by].st \in {"signed"} \cup Ended
      BY <3>1 DEF SaleReservations, ReservationMadeBySigned
    <3> QED BY <1>3, <3>1, <3>2, <3>3
  <2> QED BY <2>1, <2>2
<1> QED BY <1>7, <1>9, <1>10, <1>11, <1>12, <1>13 DEF ReservationParts

LEMMA NextReservations == SaleReservations /\ [Next]_vars => SaleReservations'
<1> SUFFICES ASSUME SaleReservations, [Next]_vars PROVE ReservationParts'
  BY NextHistory DEF SaleReservations, ReservationParts
<1>0. TypeOK'
  BY NextType DEF SaleReservations, SaleHistory, SaleInvariant
<1>1. ASSUME NEW t \in Times, HoldCommand(t) PROVE ReservationParts'
  BY <1>0, <1>1, EndedHoldReservations, CreatedReservations DEF HoldCommand
<1>2. ASSUME NEW t \in Times, NEW c \in ContractIds, ContractCommand(c, t)
      PROVE  ReservationParts'
  <2>1. ASSUME SignContractExternally(c, t) \/ RecordContractPartySignature(c, t)
        PROVE  \/ CompleteSignature(c, t)
               \/ /\ contracts[c].st = "signed" /\ UNCHANGED contracts
                  /\ SynchronizeSignedContract(c, contracts, t)
               \/ /\ contracts' = [contracts EXCEPT ![c].party = TRUE]
                  /\ UNCHANGED <<unit, holds, cases>>
    BY <2>1 DEF SignContractExternally, RecordContractPartySignature
  <2> QED
    BY <1>0, <1>2, <2>1, EndedContractReservations, PurchaseReservations,
       FirstRsReservations, RepeatedReservations, PreparedReservations DEF ContractCommand
<1> QED
  BY <1>0, <1>1, <1>2, PreparedReservations, BlockReservations, HandoverReservations DEF Next

LEMMA InitReservations == Init => SaleReservations
<1> SUFFICES ASSUME Init PROVE SaleReservations
  OBVIOUS
<1>1. /\ \A h \in HoldIds : holds[h].st = "absent" /\ holds[h].by = None
      /\ \A c \in ContractIds : contracts[c].st = "absent"
  BY DEF Init, NoHold, NoContract
<1>2. SignedRsKeepsReservation /\ ReservationOnlyBySignature /\ ReservationOfLateCase
  BY <1>1 DEF SignedRsKeepsReservation, ReservationOnlyBySignature, ReservationOfLateCase,
     ActiveHolds, ConvertPreReservationEnabled
<1>3. OpenRsAfterReservation /\ SignedRsEndsPreReservations /\ ReservationMadeBySigned
  BY <1>1 DEF OpenRsAfterReservation, SignedRsEndsPreReservations, ReservationMadeBySigned,
     ActiveHolds
<1> QED BY <1>2, <1>3, InitHistory DEF SaleReservations

\* What reservations promise holds of every sale, for any number of buyers,
\* holds, cases, contracts and clock values, and however long transactions wait.
THEOREM ReservationsCorrect == Spec => []SaleReservations
BY InitReservations, NextReservations, PTL DEF Spec

\* A signed RS always has the reservation that its own signature made.
THEOREM SignedRsReserved == Spec => []SignedRsKeepsReservation
<1>1. SaleReservations => SignedRsKeepsReservation
  BY DEF SaleReservations
<1> QED BY <1>1, ReservationsCorrect, PTL

\* No reservation is ever made by hand, and no pre-reservation can be converted.
THEOREM BySignatureOnly == Spec => []ReservationOnlyBySignature
<1>1. SaleReservations => ReservationOnlyBySignature
  BY DEF SaleReservations
<1> QED BY <1>1, ReservationsCorrect, PTL
=============================================================================
