-------------------------- MODULE UnitReportsProofs --------------------------
(***************************************************************************)
(* What the system tells about a sale is true of it.  UnitSales implements *)
(* UnitOffer: every command maps to a step of the abstract offer or to a   *)
(* stutter.  The findings of the consistency checker are explained, and    *)
(* the status and the progress shown to the user are those of the sale.    *)
(***************************************************************************)
EXTENDS UnitSalesProofs, UnitReports, FiniteSetTheorems

-----------------------------------------------------------------------------
(* The abstract offer. *)

\* A step of the offer that a step of the sale is seen as.
OfferStep == Offer!Next \/ UNCHANGED <<OfferOf, SignedTypes>>

\* The status decides what is offered.
LEMMA OfferValues ==
    ASSUME TypeOK
    PROVE  /\ OfferOf = "offered" <=> unit = "available"
           /\ OfferOf = "held" <=> unit \in {"pre_reserved", "reserved"}
           /\ OfferOf = "bound" <=> unit = "contracted"
           /\ OfferOf = "owned" <=> unit \in {"sold", "handed_over"}
           /\ OfferOf = "withdrawn" <=> unit = "blocked"
BY DEF OfferOf, TypeOK, UnitStatus

LEMMA OfferValuesNext ==
    ASSUME TypeOK'
    PROVE  /\ OfferOf' = "offered" <=> unit' = "available"
           /\ OfferOf' = "held" <=> unit' \in {"pre_reserved", "reserved"}
           /\ OfferOf' = "bound" <=> unit' = "contracted"
           /\ OfferOf' = "owned" <=> unit' \in {"sold", "handed_over"}
           /\ OfferOf' = "withdrawn" <=> unit' = "blocked"
BY DEF OfferOf, TypeOK, UnitStatus

\* Nothing is signed when no contract is effective.
LEMMA NothingSignedTypes ==
    ASSUME ~HasEffectiveSignedContract(contracts)
    PROVE  SignedTypes = {}
BY DEF SignedTypes, HasEffectiveSignedContract

LEMMA HoldsOffer ==
    ASSUME SaleHistory, NEW t \in Times, HoldCommand(t), TypeOK'
    PROVE  OfferStep
<1> USE DEF SaleHistory, SaleInvariant
<1>1. UNCHANGED SignedTypes
  BY HoldsKeepContracts DEF SignedTypes
<1>2. CASE unit' = unit
  BY <1>1, <1>2 DEF OfferStep, OfferOf
<1>3. ASSUME NEW h \in HoldIds, ExpireUnitHold(h, t) \/ CancelUnitHold(h, t), unit' # unit
      PROVE  OfferStep
  <2>1. /\ unit \in {"pre_reserved", "reserved"} /\ unit' = "available"
        /\ ~HasEffectiveSignedContract(contracts)
    BY <1>3 DEF ExpireUnitHold, CancelUnitHold, Expirable, FreesUnit
  <2>2. SignedTypes = {} /\ OfferOf = "held" /\ OfferOf' = "offered"
    BY <2>1, NothingSignedTypes, OfferValues, OfferValuesNext
  <2> QED BY <1>1, <2>2 DEF OfferStep, Offer!Next, Offer!Release
<1>4. ASSUME NEW h \in HoldIds, NEW k \in CaseIds, NEW b \in Parties,
             NEW kind \in HoldKinds, NEW expires \in 1 .. MaxTime + 1,
             NEW closed \in {"cancelled", "expired"},
             CreateUnitHold(h, k, b, kind, expires, closed, t)
      PROVE  OfferStep
  <2>1. unit \in {"available", "pre_reserved"} /\ unit' \in {"pre_reserved", "reserved"}
    BY <1>4 DEF CreateUnitHold, UnitCommand, CommandFrom, CommandTo, HoldKinds, FreesUnit
  <2>2. CASE unit = "pre_reserved"
    BY <1>1, <2>1, <2>2 DEF OfferStep, OfferOf
  <2>3. CASE unit = "available"
    <3>1. SignedTypes = {} /\ OfferOf = "offered" /\ OfferOf' = "held"
      BY <2>1, <2>3, OfferValues, OfferValuesNext DEF SignedTypes, SignedContractProtectsUnit
    <3> QED BY <1>1, <3>1 DEF OfferStep, Offer!Next, Offer!PlaceHold
  <2> QED BY <2>1, <2>2, <2>3
<1> QED BY <1>2, <1>3, <1>4 DEF HoldCommand

\* All effective contracts of the unit are of its one active case.
LEMMA OneSale ==
    ASSUME SaleHistory, NEW c \in ContractIds, NEW d \in ContractIds,
           contracts[d].st = "signed", contracts[c].st # "absent",
           cases[contracts[c].case].st = "active"
    PROVE  contracts[c].case = contracts[d].case
BY DEF SaleHistory, SaleInvariant, SignedContractProtectsUnit, OneActiveCase,
       ActiveCases, ContractOfCase

\* The end of a contract withdraws its type, or releases the unit.
LEMMA EndOffer ==
    ASSUME SaleHistory, TypeOK', NEW c \in ContractIds, NEW to \in Ended, NEW t \in Times,
           EndContract(c, to, t)
    PROVE  OfferStep
<1> USE DEF SaleHistory, SaleInvariant
<1> DEFINE cs == [contracts EXCEPT ![c].st = to, ![c].ended = t]
<1>1. /\ contracts' = cs
      /\ cs[c].st \in Ended
      /\ \A d \in ContractIds : d # c => contracts'[d] = contracts[d]
  BY DEF EndContract, TypeOK, ContractRow
<1>2. CASE ReleaseEligible(c, cs, t)
  <2>1. \A d \in ContractIds : contracts'[d].st # "signed"
    BY <1>1, <1>2 DEF ReleaseEligible, BlocksUnitRelease, EffectivelyEnded, Ended, Unsigned
  <2>2. SignedTypes' = {}
    BY <2>1 DEF SignedTypes
  <2>3. /\ unit' = "available"
        /\ unit \in {"available", "pre_reserved", "reserved", "contracted"}
    BY <1>2 DEF EndContract, UnitCommand, CommandFrom
  <2>4. CASE unit = "available"
    <3>1. SignedTypes = {} /\ OfferOf = OfferOf'
      BY <2>3, <2>4 DEF SignedTypes, SignedContractProtectsUnit, OfferOf
    <3> QED BY <2>2, <3>1 DEF OfferStep
  <2>5. CASE unit # "available"
    <3>1. OfferOf \in {"held", "bound"} /\ OfferOf' = "offered"
      BY <2>3, <2>5, OfferValues, OfferValuesNext
    <3> QED BY <2>2, <3>1 DEF OfferStep, Offer!Next, Offer!Release
  <2> QED BY <2>4, <2>5
<1>3. CASE ~ReleaseEligible(c, cs, t)
  <2>1. UNCHANGED OfferOf
    BY <1>3 DEF EndContract, OfferOf
  <2>2. CASE contracts[c].st = "signed"
    <3> DEFINE ty == contracts[c].type
    <3>1. ASSUME NEW d \in ContractIds, d # c, contracts[d].st = "signed"
          PROVE  contracts[d].type # ty
      <4>1. contracts[c].case = contracts[d].case
        BY <2>2, <3>1, OneSale DEF SignedContractProtectsUnit
      <4> QED BY <2>2, <3>1, <4>1 DEF LiveTypesDiffer, Live, Ended
    <3>2. ty \in SignedTypes
      BY <2>2 DEF SignedTypes, TypeOK, ContractRow
    <3>3. SignedTypes' = SignedTypes \ {ty}
      BY <1>1, <3>1 DEF SignedTypes, Ended
    <3> QED BY <2>1, <3>2, <3>3 DEF OfferStep, Offer!Next, Offer!EndContract
  <2>3. CASE contracts[c].st # "signed"
    <3>1. UNCHANGED SignedTypes
      BY <1>1, <2>3 DEF SignedTypes, Ended
    <3> QED BY <2>1, <3>1 DEF OfferStep
  <2> QED BY <2>2, <2>3
<1> QED BY <1>2, <1>3

\* What a signature of the contract c, recorded in cs, does to the offer.
LEMMA SynchronizeOffer ==
    ASSUME SaleHistory, NEW c \in ContractIds, NEW t \in Times,
           NEW cs \in [ContractIds -> ContractRow], cs[c].case = contracts[c].case,
           contracts[c].st # "absent", cases[contracts[c].case].st = "active",
           SynchronizeSignedContract(c, cs, t)
    PROVE  /\ cs[c].type = "rs" =>
                \/ unit' = unit /\ unit \in {"contracted", "sold", "handed_over"}
                \/ /\ unit \in {"available", "pre_reserved", "reserved"}
                   /\ unit' = "reserved"
           /\ cs[c].type = "sbk" =>
                \/ unit' = unit /\ unit \in {"contracted", "sold"}
                \/ /\ unit \in {"available", "pre_reserved", "reserved"}
                   /\ unit' = "contracted"
           /\ cs[c].type = "ks" =>
                /\ unit \in {"available", "pre_reserved", "reserved", "contracted", "sold"}
                /\ unit' = "sold"
<1> USE DEF SaleHistory, SaleInvariant
<1>1. CASE cs[c].type = "rs"
  <2>1. EnsureSignedReservation(c, cs, t)
    BY <1>1 DEF SynchronizeSignedContract
  <2>2. contracts[c].case \in ActiveCases(cases)
    BY DEF ContractOfCase, ActiveCases
  <2> QED BY <1>1, <2>1, <2>2 DEF EnsureSignedReservation, AdvancedCaseBindsUnit
<1>2. CASE cs[c].type = "sbk"
  BY <1>2 DEF SynchronizeSignedContract, EnsurePurchaseStage, UnitCommand, CommandFrom, CommandTo
<1>3. CASE cs[c].type = "ks"
  BY <1>3 DEF SynchronizeSignedContract, EnsurePurchaseStage, UnitCommand, CommandFrom, CommandTo
<1> QED BY <1>1, <1>2, <1>3

\* The first signature of the contract c adds its type.
LEMMA FirstSignatureOffer ==
    ASSUME SaleHistory, TypeOK', NEW c \in ContractIds, NEW t \in Times, CompleteSignature(c, t)
    PROVE  OfferStep
<1> USE DEF SaleHistory, SaleInvariant
<1> DEFINE ty == contracts[c].type
<1>1. /\ contracts[c].st = "approved" /\ cases[contracts[c].case].st = "active"
      /\ contracts' = [contracts EXCEPT ![c].st = "signed", ![c].ver = "signed",
                                        ![c].party = TRUE]
      /\ SynchronizeSignedContract(c, contracts', t)
  BY DEF CompleteSignature, ReadyToSign
<1>2. /\ contracts' \in [ContractIds -> ContractRow]
      /\ contracts'[c].case = contracts[c].case /\ contracts'[c].type = ty
      /\ contracts'[c].st = "signed"
      /\ \A d \in ContractIds : d # c => contracts'[d] = contracts[d]
  BY <1>1 DEF TypeOK, ContractRow
<1>3. ty \in {"rs", "sbk", "ks"} /\ contracts[c].case \in CaseIds
  BY <1>1 DEF TypeOK, ContractRow, BaseTypes, ContractOfCase
<1>4. SignedTypes' = SignedTypes \cup {ty}
  BY <1>1, <1>2, <1>3 DEF SignedTypes, BaseTypes
\* Before it, every effective contract is of an earlier step of the same case.
<1>5. \A d \in ContractIds : contracts[d].st = "signed" =>
        contracts[d].type \in {"rs", "sbk"} /\ ty \in {"sbk", "ks"} /\ contracts[d].type # ty
  <2> SUFFICES ASSUME NEW d \in ContractIds, contracts[d].st = "signed"
               PROVE  contracts[d].type \in {"rs", "sbk"} /\ ty \in {"sbk", "ks"}
                      /\ contracts[d].type # ty
    OBVIOUS
  <2>1. contracts[c].case = contracts[d].case
    BY <1>1, OneSale
  <2>2. c # d /\ Live(contracts[c]) /\ Live(contracts[d])
    BY <1>1 DEF Live, Ended
  <2> QED BY <1>1, <2>1, <2>2 DEF OneOpenContractInOrder, LiveTypesDiffer
\* An SBK or RS is never signed on a unit that a purchase already binds.
<1>6. ty # "ks" => unit \notin {"contracted", "sold", "handed_over"}
  <2> SUFFICES ASSUME unit \in {"contracted", "sold", "handed_over"} PROVE ty = "ks"
    OBVIOUS
  <2>1. PICK d \in ContractIds : /\ contracts[d].type \in {"sbk", "ks"}
                                /\ contracts[d].st \in {"signed"} \cup Ended
                                /\ cases[contracts[d].case].st = "active"
    BY DEF BoundByPurchase
  <2>2. contracts[d].st # "absent" /\ c # d /\ contracts[c].st \in Unsigned
    BY <1>1, <2>1 DEF Ended, Unsigned
  <2>3. contracts[c].case = contracts[d].case
    BY <1>1, <1>3, <2>1, <2>2 DEF OneActiveCase, ActiveCases, ContractOfCase
  <2> QED BY <2>1, <2>2, <2>3 DEF OnlyPurchaseReopens
<1>7. /\ ty = "rs" => unit \in {"available", "pre_reserved", "reserved"} /\ unit' = "reserved"
      /\ ty = "sbk" => unit \in {"available", "pre_reserved", "reserved"}
                       /\ unit' = "contracted"
      /\ ty = "ks" => /\ unit \in {"available", "pre_reserved", "reserved", "contracted", "sold"}
                      /\ unit' = "sold"
  <2> HIDE DEF SaleHistory, SaleInvariant
  <2>1. contracts[c].st # "absent" /\ cases[contracts[c].case].st = "active"
        /\ SynchronizeSignedContract(c, contracts', t)
        /\ contracts' \in [ContractIds -> ContractRow]
        /\ contracts'[c].case = contracts[c].case
    BY <1>1, <1>2
  <2>2. /\ contracts'[c].type = "rs" =>
             \/ unit' = unit /\ unit \in {"contracted", "sold", "handed_over"}
             \/ unit \in {"available", "pre_reserved", "reserved"} /\ unit' = "reserved"
        /\ contracts'[c].type = "sbk" =>
             \/ unit' = unit /\ unit \in {"contracted", "sold"}
             \/ unit \in {"available", "pre_reserved", "reserved"} /\ unit' = "contracted"
        /\ contracts'[c].type = "ks" =>
             /\ unit \in {"available", "pre_reserved", "reserved", "contracted", "sold"}
             /\ unit' = "sold"
    BY <2>1, SynchronizeOffer
  <2> QED BY <1>2, <1>6, <2>2
<1>8. CASE ty = "rs"
  <2>1. SignedTypes = {} /\ SignedTypes' = {"rs"}
    BY <1>4, <1>5, <1>8 DEF SignedTypes
  <2>2. OfferOf \in {"offered", "held"} /\ OfferOf' = "held"
    BY <1>7, <1>8, OfferValues, OfferValuesNext
  <2> QED BY <2>1, <2>2 DEF OfferStep, Offer!Next, Offer!SignReservation
<1>9. CASE ty = "sbk"
  <2>1. "ks" \notin SignedTypes /\ SignedTypes' = SignedTypes \cup {"sbk"}
    BY <1>4, <1>5, <1>9 DEF SignedTypes
  <2>2. OfferOf \in {"offered", "held"} /\ OfferOf' = "bound"
    BY <1>7, <1>9, OfferValues, OfferValuesNext
  <2> QED BY <2>1, <2>2 DEF OfferStep, Offer!Next, Offer!SignFuturePurchase
<1>10. CASE ty = "ks"
  <2>1. OfferOf \in {"offered", "held", "bound", "owned"} /\ OfferOf' = "owned"
    BY <1>7, <1>10, OfferValues, OfferValuesNext
  <2> QED BY <1>4, <1>10, <2>1 DEF OfferStep, Offer!Next, Offer!SignPurchase
<1> QED BY <1>3, <1>8, <1>9, <1>10

\* A signature repeated on a signed contract adds nothing to what is signed.
LEMMA RepeatedSignatureOffer ==
    ASSUME SaleHistory, TypeOK', NEW c \in ContractIds, NEW t \in Times,
           contracts[c].st = "signed", SynchronizeSignedContract(c, contracts, t),
           UNCHANGED contracts
    PROVE  OfferStep
<1> DEFINE ty == contracts[c].type
<1>1. /\ contracts[c].st # "absent" /\ cases[contracts[c].case].st = "active"
      /\ contracts \in [ContractIds -> ContractRow]
      /\ unit # "available" /\ TypeOK
      /\ ty = "ks" => unit \in {"sold", "handed_over"}
      /\ \A d \in ContractIds : contracts[d].st = "signed" /\ contracts[d].type = "ks"
           => unit \in {"sold", "handed_over"}
  BY DEF SaleHistory, SaleInvariant, TypeOK, SignedContractProtectsUnit,
         PurchaseKeepsUnitSold, PurchaseSigned
<1>2. ty \in BaseTypes /\ ty \in SignedTypes /\ UNCHANGED SignedTypes
  BY <1>1 DEF SignedTypes, ContractRow
<1>3. /\ ty = "rs" =>
           \/ unit' = unit
           \/ unit \in {"pre_reserved", "reserved"} /\ unit' = "reserved"
      /\ ty = "sbk" =>
           \/ unit' = unit
           \/ unit \in {"pre_reserved", "reserved"} /\ unit' = "contracted"
      /\ ty = "ks" => unit = "sold" /\ unit' = "sold"
  BY <1>1, SynchronizeOffer
<1>4. CASE unit' = unit
  BY <1>2, <1>4 DEF OfferStep, OfferOf
<1>5. CASE unit \in {"pre_reserved", "reserved"} /\ unit' = "reserved"
  <2>1. OfferOf = "held" /\ OfferOf' = "held"
    BY <1>1, <1>5, OfferValues, OfferValuesNext
  <2> QED BY <1>2, <2>1 DEF OfferStep
<1>6. CASE ty = "sbk" /\ unit \in {"pre_reserved", "reserved"} /\ unit' = "contracted"
  <2>1. "ks" \notin SignedTypes /\ SignedTypes' = SignedTypes \cup {"sbk"}
    BY <1>1, <1>2, <1>6 DEF SignedTypes
  <2>2. OfferOf = "held" /\ OfferOf' = "bound"
    BY <1>1, <1>6, OfferValues, OfferValuesNext
  <2> QED BY <2>1, <2>2 DEF OfferStep, Offer!Next, Offer!SignFuturePurchase
<1> QED BY <1>2, <1>3, <1>4, <1>5, <1>6 DEF BaseTypes

\* A draft, a new version, an advance or a signature of one of several parties
\* changes neither what is offered nor what is signed.
LEMMA QuietContractOffer ==
    ASSUME SaleHistory, UNCHANGED unit, NEW c \in ContractIds,
           \/ PreparationCommand(c)
           \/ contracts' = [contracts EXCEPT ![c].party = TRUE]
    PROVE  OfferStep
<1> USE DEF SaleHistory, SaleInvariant
<1>1. ASSUME NEW d \in ContractIds
      PROVE  /\ contracts'[d].st = "signed" <=> contracts[d].st = "signed"
             /\ contracts[d].st = "signed" => contracts'[d].type = contracts[d].type
  <2>1. ASSUME NEW k \in CaseIds, NEW ty \in BaseTypes, CreateContract(c, k, ty)
        PROVE  <1>1!2
    <3>1. contracts[c].st = "absent" /\ contracts'[c].st = "draft"
          /\ (d # c => contracts'[d] = contracts[d])
      BY <2>1, Inserted
    <3> QED BY <3>1
  <2>2. CASE CreateContractVersion(c)
    BY <2>2 DEF CreateContractVersion, TypeOK, ContractRow, Unsigned
  <2>3. ASSUME NEW to \in Unsigned, AdvanceContract(c, to)
        PROVE  <1>1!2
    BY <2>3 DEF AdvanceContract, TypeOK, ContractRow, Unsigned
  <2>4. CASE contracts' = [contracts EXCEPT ![c].party = TRUE]
    BY <2>4 DEF TypeOK, ContractRow
  <2> QED BY <2>1, <2>2, <2>3, <2>4 DEF PreparationCommand
<1>2. UNCHANGED SignedTypes
  BY <1>1 DEF SignedTypes
<1> QED BY <1>2 DEF OfferStep, OfferOf

\* Blocking withdraws the unit; unblocking readmits it when nothing is signed.
LEMMA BlockOffer ==
    ASSUME SaleHistory, TypeOK', NEW t \in Times, UnitStatusCommand(t)
    PROVE  OfferStep
<1>1. UNCHANGED SignedTypes /\ TypeOK
  BY HoldsKeepContracts DEF SignedTypes, SaleHistory, SaleInvariant
<1>2. CASE BlockUnit(t)
  <2>1. unit \in {"available", "pre_reserved", "reserved"} /\ unit' = "blocked"
    BY <1>2 DEF BlockUnit, UnitCommand, CommandFrom
  <2>2. OfferOf \in {"offered", "held"} /\ OfferOf' = "withdrawn"
    BY <1>1, <2>1, OfferValues, OfferValuesNext
  <2> QED BY <1>1, <2>2 DEF OfferStep, Offer!Next, Offer!Withdraw
<1>3. CASE UnblockUnit(t)
  <2>1. /\ unit = "blocked" /\ unit' = "available"
        /\ ~HasEffectiveSignedContract(contracts)
    BY <1>3 DEF UnblockUnit, UnitCommand, CommandFrom, CommandTo
  <2>2. OfferOf = "withdrawn" /\ OfferOf' = "offered" /\ SignedTypes = {}
    BY <1>1, <2>1, OfferValues, OfferValuesNext, NothingSignedTypes
  <2> QED BY <1>1, <2>2 DEF OfferStep, Offer!Next, Offer!Readmit
<1> QED BY <1>2, <1>3 DEF UnitStatusCommand

LEMMA HandoverOffer ==
    ASSUME SaleHistory, TypeOK', Tick \/ HandoverCommand \/ UNCHANGED vars
    PROVE  OfferStep
<1>1. UNCHANGED SignedTypes /\ TypeOK
  BY DEF SignedTypes, SaleHistory, SaleInvariant, Tick, HandoverCommand, vars,
         ScheduleUnitHandover, CompleteHandover, CancelHandover
<1>2. UNCHANGED unit \/ (unit \in {"sold", "handed_over"} /\ unit' = "handed_over")
  BY DEF Tick, HandoverCommand, vars, ScheduleUnitHandover, CompleteHandover, CancelHandover
<1>3. UNCHANGED OfferOf
  <2>1. CASE UNCHANGED unit
    BY <2>1 DEF OfferOf
  <2>2. CASE unit \in {"sold", "handed_over"} /\ unit' = "handed_over"
    BY <1>1, <2>2, OfferValues, OfferValuesNext
  <2> QED BY <1>2, <2>1, <2>2
<1> QED BY <1>1, <1>3 DEF OfferStep

-----------------------------------------------------------------------------
(* The refinement. *)

LEMMA InitOffer == Init => Offer!Init
<1> SUFFICES ASSUME Init PROVE Offer!Init
  OBVIOUS
<1>1. OfferOf = "offered"
  BY DEF Init, OfferOf
<1>2. SignedTypes = {}
  BY DEF Init, NoContract, SignedTypes
<1> QED BY <1>1, <1>2 DEF Offer!Init

LEMMA NextOffer == SaleHistory /\ [Next]_vars => OfferStep
<1> SUFFICES ASSUME SaleHistory, [Next]_vars PROVE OfferStep
  OBVIOUS
<1>0. TypeOK'
  BY NextType DEF SaleHistory, SaleInvariant
<1>1. ASSUME NEW t \in Times, NEW c \in ContractIds, ContractCommand(c, t)
      PROVE  OfferStep
  <2>1. ASSUME SignContractExternally(c, t) \/ RecordContractPartySignature(c, t)
        PROVE  \/ CompleteSignature(c, t)
               \/ /\ contracts[c].st = "signed" /\ UNCHANGED contracts
                  /\ SynchronizeSignedContract(c, contracts, t)
               \/ contracts' = [contracts EXCEPT ![c].party = TRUE] /\ UNCHANGED unit
    BY <2>1 DEF SignContractExternally, RecordContractPartySignature
  <2> QED
    BY <1>0, <1>1, <2>1, EndOffer, FirstSignatureOffer, RepeatedSignatureOffer,
       QuietContractOffer DEF ContractCommand
<1>2. ASSUME NEW c \in ContractIds, PreparationCommand(c) PROVE OfferStep
  <2>1. UNCHANGED unit
    BY <1>2 DEF PreparationCommand, CreateContract, CreateContractVersion, AdvanceContract
  <2> QED BY <1>2, <2>1, QuietContractOffer
<1> QED BY <1>0, <1>1, <1>2, HoldsOffer, BlockOffer, HandoverOffer DEF Next

\* Every behaviour of the commands, for any number of buyers, rows and clock
\* values, is a behaviour of the abstract offer: no interleaving offers a bound
\* unit, readmits it, or takes an owned one back.
THEOREM OfferCorrect == Spec => OfferSpec
<1>1. SaleHistory /\ [Next]_vars => [Offer!Next]_<<OfferOf, SignedTypes>>
  BY NextOffer DEF OfferStep
<1> QED BY <1>1, InitOffer, HistoryCorrect, PTL DEF Spec, OfferSpec, Offer!Spec

-----------------------------------------------------------------------------
(* What was signed. *)

\* A contract that was signed once keeps its type, its case and its signed
\* version, whatever becomes of it.
LEMMA SignedVersionKept ==
    ASSUME SaleInvariant, [Next]_vars, NEW d \in ContractIds,
           contracts[d].st \in {"signed"} \cup Ended
    PROVE  /\ contracts'[d].st \in {"signed"} \cup Ended
           /\ contracts'[d].ver = contracts[d].ver
           /\ contracts'[d].type = contracts[d].type
           /\ contracts'[d].case = contracts[d].case
<1> DEFINE Same == contracts'[d].ver = contracts[d].ver
<1>1. /\ contracts \in [ContractIds -> ContractRow]
      /\ contracts[d].st \notin Unsigned /\ contracts[d].st # "absent"
  BY DEF SaleInvariant, TypeOK, Unsigned, Ended
<1>2. /\ contracts'[d].st \in {"signed"} \cup Ended
      /\ contracts'[d].type = contracts[d].type /\ contracts'[d].case = contracts[d].case
  <2>1. CASE \A e \in ContractIds : RowMoves(e)
    BY <2>1, MovesKeep DEF RowMoves
  <2>2. ASSUME NEW c \in ContractIds, NEW k \in CaseIds, NEW ty \in BaseTypes,
               CreateContract(c, k, ty)
        PROVE  contracts'[d] = contracts[d]
    BY <1>1, <2>2, Inserted
  <2> QED BY <2>1, <2>2, ContractStep
<1>3. ASSUME UNCHANGED contracts PROVE Same
  BY <1>3
<1>4. ASSUME NEW t \in Times, NEW c \in ContractIds, ContractCommand(c, t) PROVE Same
  <2>1. ASSUME NEW to \in Ended, EndContract(c, to, t) PROVE Same
    BY <1>1, <2>1 DEF EndContract, ContractRow
  <2>2. CASE CompleteSignature(c, t)
    BY <1>1, <2>2 DEF CompleteSignature, ReadyToSign, Unsigned
  <2>3. CASE contracts' = [contracts EXCEPT ![c].party = TRUE]
    BY <1>1, <2>3 DEF ContractRow
  <2>4. ASSUME SignContractExternally(c, t) \/ RecordContractPartySignature(c, t) PROVE Same
    <3>1. \/ CompleteSignature(c, t)
          \/ UNCHANGED contracts
          \/ contracts' = [contracts EXCEPT ![c].party = TRUE]
      BY <2>4 DEF SignContractExternally, RecordContractPartySignature
    <3> QED BY <1>3, <2>2, <2>3, <3>1
  <2> QED BY <1>4, <2>1, <2>4 DEF ContractCommand
<1>5. ASSUME NEW c \in ContractIds, PreparationCommand(c) PROVE Same
  <2>1. ASSUME NEW k \in CaseIds, NEW ty \in BaseTypes, CreateContract(c, k, ty) PROVE Same
    BY <1>1, <2>1, Inserted
  <2>2. CASE CreateContractVersion(c)
    BY <1>1, <2>2 DEF CreateContractVersion
  <2>3. ASSUME NEW to \in Unsigned, AdvanceContract(c, to) PROVE Same
    BY <1>1, <2>3 DEF AdvanceContract
  <2> QED BY <1>5, <2>1, <2>2, <2>3 DEF PreparationCommand
<1>6. ASSUME NEW t \in Times, HoldCommand(t) \/ UnitStatusCommand(t) PROVE Same
  BY <1>3, <1>6, HoldsKeepContracts
<1>7. ASSUME Tick \/ HandoverCommand \/ UNCHANGED vars PROVE Same
  BY <1>3, <1>7 DEF Tick, HandoverCommand, ScheduleUnitHandover, CompleteHandover,
                    CancelHandover, vars
<1> QED BY <1>2, <1>4, <1>5, <1>6, <1>7 DEF Next

LEMMA OnceSignedStays ==
    ASSUME SaleInvariant, [Next]_vars, NEW k, NEW types, OnceSigned(k, types)
    PROVE  OnceSigned(k, types)'
<1>1. PICK c \in OfCase(k) : /\ contracts[c].type \in types
                             /\ contracts[c].ver = "signed"
                             /\ contracts[c].st \in {"signed"} \cup Ended
  BY DEF OnceSigned
<1>2. c \in ContractIds /\ contracts[c].case = k
  BY <1>1 DEF OfCase
<1> QED BY <1>1, <1>2, SignedVersionKept DEF OnceSigned, OfCase

\* The step signs no contract for the first time.
NothingSignedNow ==
    \A d \in ContractIds : contracts'[d].st = "signed" =>
        /\ contracts[d].st = "signed"
        /\ contracts'[d].type = contracts[d].type /\ contracts'[d].case = contracts[d].case

ReportParts ==
    /\ HoldsBegun
    /\ OneReservation
    /\ StatusHasItsHold
    /\ BoundCaseIsAdvanced
    /\ RsReserves
    /\ SbkBinds
    /\ SoldByPurchase
    /\ HandedOverForGood

LEMMA ReportsHave ==
    ASSUME SaleReports
    PROVE  /\ TypeOK /\ SaleInvariant /\ SaleHistory /\ SaleReservations /\ ReportParts
BY DEF SaleReports, SaleReservations, SaleHistory, SaleInvariant, ReportParts

LEMMA BegunKept ==
    ASSUME TypeOK, HoldsBegun, [Next]_vars, HoldsOnlyEnd PROVE HoldsBegun'
<1> SUFFICES ASSUME NEW h \in ActiveHolds(holds') PROVE holds'[h].starts <= now'
  BY DEF HoldsBegun
<1>1. h \in ActiveHolds(holds) /\ holds'[h].starts = holds[h].starts
  BY DEF HoldsOnlyEnd
<1>2. holds[h].starts \in Nat /\ holds[h].starts <= now
  BY <1>1 DEF HoldsBegun, ActiveHolds, TypeOK, HoldRow, Times
<1> QED BY <1>1, <1>2, NowGrows

\* The signatures a step leaves are kept by what they did to the unit.
LEMMA SignaturesKept ==
    ASSUME SaleReports, [Next]_vars, NothingSignedNow,
           unit' = unit \/ (unit = "reserved" /\ unit' = "blocked"),
           \A k \in CaseIds : cases'[k] = cases[k]
    PROVE  RsReserves' /\ SbkBinds' /\ SoldByPurchase'
<1>1. TypeOK /\ SaleInvariant /\ RsReserves /\ SbkBinds /\ SoldByPurchase
  BY ReportsHave DEF ReportParts
<1>2. RsReserves'
  <2> SUFFICES ASSUME NEW c \in ContractIds, contracts'[c].type = "rs",
                      contracts'[c].st = "signed"
               PROVE  \/ unit' = "blocked"
                      \/ /\ unit' = "reserved"
                         /\ cases'[contracts'[c].case].stage = "reservation"
                      \/ OnceSigned(contracts[c].case, {"sbk", "ks"})'
    BY DEF RsReserves
  <2>1. contracts[c].type = "rs" /\ contracts[c].st = "signed"
        /\ contracts'[c].case = contracts[c].case
    BY DEF NothingSignedNow
  <2>2. contracts[c].case \in CaseIds
    BY <1>1, <2>1 DEF SaleInvariant, ContractOfCase
  <2>3. \/ unit = "blocked"
        \/ unit = "reserved" /\ cases[contracts[c].case].stage = "reservation"
        \/ OnceSigned(contracts[c].case, {"sbk", "ks"})
    BY <1>1, <2>1 DEF RsReserves
  <2>4. ASSUME NEW k, k = contracts[c].case, OnceSigned(k, {"sbk", "ks"})
        PROVE  OnceSigned(contracts[c].case, {"sbk", "ks"})'
    <3>1. OnceSigned(k, {"sbk", "ks"})'
      BY <1>1, <2>4, OnceSignedStays
    <3> QED BY <2>1, <2>4, <3>1 DEF OnceSigned, OfCase
  <2> QED BY <2>1, <2>2, <2>3, <2>4
<1>3. SbkBinds'
  BY <1>1 DEF SbkBinds, NothingSignedNow, BoundStatus
<1>4. SoldByPurchase'
  <2> SUFFICES ASSUME unit' \in {"sold", "handed_over"}
               PROVE  \E k \in ActiveCases(cases') : OnceSigned(k, {"ks"})'
    BY DEF SoldByPurchase
  <2>1. PICK k \in ActiveCases(cases) : OnceSigned(k, {"ks"})
    BY <1>1 DEF SoldByPurchase
  <2>2. k \in ActiveCases(cases')
    BY DEF ActiveCases
  <2> QED BY <1>1, <2>1, <2>2, OnceSignedStays
<1> QED BY <1>2, <1>3, <1>4

-----------------------------------------------------------------------------
(* One lemma per group of commands. *)

\* A step that moves neither the unit, its holds nor its cases, and signs nothing.
LEMMA QuietReports ==
    ASSUME SaleReports, [Next]_vars, NothingSignedNow,
           UNCHANGED <<unit, holds, cases, handedOver>>
    PROVE  ReportParts'
<1>1. TypeOK /\ ReportParts
  BY ReportsHave
<1>2. HoldsBegun'
  BY <1>1, BegunKept DEF HoldsOnlyEnd, ReportParts
<1>3. OneReservation' /\ StatusHasItsHold' /\ BoundCaseIsAdvanced' /\ HandedOverForGood'
  BY <1>1 DEF ReportParts, OneReservation, StatusHasItsHold, BoundCaseIsAdvanced,
              HandedOverForGood, ActiveHolds, ActiveCases
<1> QED BY <1>2, <1>3, SignaturesKept DEF ReportParts

\* A hold that ends frees the unit it was the last one of.
LEMMA EndedHoldReports ==
    ASSUME SaleReports, [Next]_vars, NEW t \in Times, NEW h \in HoldIds,
           ExpireUnitHold(h, t) \/ CancelUnitHold(h, t)
    PROVE  ReportParts'
<1>1. TypeOK /\ SaleInvariant /\ ReportParts
  BY ReportsHave
<1>2. /\ UNCHANGED <<now, contracts, handedOver>>
      /\ ~HasEffectiveSignedContract(contracts)
      /\ holds[h].st = "active"
  BY DEF ExpireUnitHold, CancelUnitHold, Expirable
<1>3. \A g \in HoldIds : /\ holds'[g].kind = holds[g].kind
                         /\ holds'[g].starts = holds[g].starts
                         /\ holds'[g].expires = holds[g].expires
                         /\ holds'[g].st = "active" => holds[g].st = "active"
                         /\ g # h => holds'[g].st = holds[g].st
  <2>1. CASE ExpireUnitHold(h, t)
    <3>1. holds' = Expired({h})
      BY <2>1 DEF ExpireUnitHold
    <3> QED BY <1>1, <1>2, <3>1 DEF Expired, TypeOK, HoldRow
  <2>2. CASE CancelUnitHold(h, t)
    <3>1. holds' = [holds EXCEPT ![h].st = "cancelled"]
      BY <2>2 DEF CancelUnitHold
    <3> QED BY <1>1, <3>1 DEF TypeOK, HoldRow
  <2> QED BY <2>1, <2>2
<1>4. \/ unit' = "available" /\ unit \in {"pre_reserved", "reserved"}
      \/ /\ UNCHANGED <<unit, cases>>
         /\ unit = "pre_reserved" => ActiveHolds(holds') # {}
         /\ unit = "reserved" => ActiveHolds(holds') # {} \/ holds[h].kind = "pre_reservation"
  <2>1. CASE ExpireUnitHold(h, t)
    BY <2>1 DEF ExpireUnitHold, FreesUnit, Expirable
  <2>2. CASE CancelUnitHold(h, t)
    BY <2>2 DEF CancelUnitHold
  <2> QED BY <2>1, <2>2
<1>5. HoldsBegun' /\ OneReservation'
  <2>1. HoldsOnlyEnd
    BY <1>3 DEF HoldsOnlyEnd, ActiveHolds
  <2>2. OneReservation'
    BY <1>1, <1>3 DEF ReportParts, OneReservation, ActiveHolds
  <2> QED BY <1>1, <2>1, <2>2, BegunKept DEF ReportParts
<1>6. StatusHasItsHold'
  <2>1. unit = "reserved" => holds[h].kind = "reservation"
    BY <1>1, <1>2 DEF ReportParts, StatusHasItsHold, ActiveHolds
  <2>2. unit = "reserved" => \A g \in ActiveHolds(holds') : holds'[g].kind = "reservation"
    BY <1>1, <1>3 DEF ReportParts, StatusHasItsHold, ActiveHolds
  <2> QED BY <1>4, <2>1, <2>2, Zenon DEF StatusHasItsHold
<1>7. BoundCaseIsAdvanced' /\ HandedOverForGood'
  BY <1>1, <1>2, <1>4 DEF ReportParts, BoundCaseIsAdvanced, HandedOverForGood, BoundStatus,
                          ActiveCases
<1>8. RsReserves' /\ SbkBinds'
  BY <1>2 DEF RsReserves, SbkBinds, HasEffectiveSignedContract
<1>9. SoldByPurchase'
  <2>1. CASE UNCHANGED <<unit, cases>>
    BY <1>1, <1>2, <2>1 DEF ReportParts, SoldByPurchase, OnceSigned, OfCase, ActiveCases
  <2>2. CASE unit' = "available"
    BY <2>2 DEF SoldByPurchase
  <2> QED BY <1>4, <2>1, <2>2
<1> QED BY <1>5, <1>6, <1>7, <1>8, <1>9 DEF ReportParts

\* A hold is placed on a unit without a signature, and holds it from then on.
LEMMA CreatedReports ==
    ASSUME SaleReports, NEW h \in HoldIds, NEW k \in CaseIds,
           NEW b \in Parties, NEW kind \in HoldKinds, NEW expires \in 1 .. MaxTime + 1,
           NEW closed \in {"cancelled", "expired"}, NEW t \in Times,
           CreateUnitHold(h, k, b, kind, expires, closed, t)
    PROVE  ReportParts'
<1>1. TypeOK /\ SaleInvariant /\ SaleHistory /\ ReportParts
  BY ReportsHave
<1>2. /\ unit' = "pre_reserved" /\ ~HasEffectiveSignedContract(contracts)
      /\ kind = "pre_reservation"
      /\ holds'[h].st = "active" /\ holds'[h].kind = "pre_reservation"
      /\ \A g \in HoldIds : g # h =>
           /\ holds'[g].kind = holds[g].kind
           /\ holds'[g].st = "active" => holds[g].st = "active"
  BY <1>1, CreatedIsPreReservation
<1>3. UNCHANGED <<now, contracts, handedOver>> /\ unit \in {"available", "pre_reserved"}
  BY DEF CreateUnitHold, UnitCommand, CommandFrom, FreesUnit, HoldKinds
<1>4. HoldsBegun'
  <2> DEFINE hs == Expired({g \in HoldIds : Expirable(g, t)})
             new == [st |-> "active", kind |-> kind, case |-> k,
                     starts |-> t, expires |-> expires, by |-> None]
  <2>1. holds' = [hs EXCEPT ![h] = new] /\ t <= now
    BY DEF CreateUnitHold, TxTime
  <2>2. hs \in [HoldIds -> HoldRow]
    BY <1>1, ExpiredType
  <2>3. \A g \in HoldIds : hs[g].starts = holds[g].starts
    BY <1>1 DEF Expired, TypeOK, HoldRow
  <2>4. new.starts = t
    OBVIOUS
  <2> HIDE DEF hs, new
  <2>5. holds'[h].starts = t /\ \A g \in HoldIds : g # h => holds'[g].starts = holds[g].starts
    BY <2>1, <2>2, <2>3, <2>4
  <2> QED BY <1>1, <1>2, <1>3, <2>1, <2>5 DEF HoldsBegun, ReportParts, ActiveHolds
<1>5. OneReservation' /\ StatusHasItsHold'
  BY <1>1, <1>2 DEF ReportParts, OneReservation, StatusHasItsHold, ActiveHolds
<1>6. BoundCaseIsAdvanced' /\ SoldByPurchase' /\ HandedOverForGood'
  BY <1>1, <1>2, <1>3 DEF ReportParts, BoundCaseIsAdvanced, SoldByPurchase,
                          HandedOverForGood, BoundStatus
<1>7. RsReserves' /\ SbkBinds'
  BY <1>2, <1>3 DEF RsReserves, SbkBinds, HasEffectiveSignedContract
<1> QED BY <1>4, <1>5, <1>6, <1>7 DEF ReportParts

\* The end of a contract leaves the unit as it is, or frees it of everything.
LEMMA EndedContractReports ==
    ASSUME SaleReports, [Next]_vars, NEW c \in ContractIds, NEW to \in Ended,
           NEW t \in Times, EndContract(c, to, t)
    PROVE  ReportParts'
<1> DEFINE cs == [contracts EXCEPT ![c].st = to, ![c].ended = t]
<1>1. TypeOK /\ SaleInvariant /\ ReportParts
  BY ReportsHave
<1>2. /\ contracts' = cs /\ cs[c].st \in Ended /\ cs[c].case = contracts[c].case
      /\ \A d \in ContractIds : d # c => contracts'[d] = contracts[d]
      /\ UNCHANGED handedOver
  BY <1>1 DEF EndContract, TypeOK, ContractRow
<1>3. CASE ReleaseEligible(c, cs, t)
  <2>1. \A d \in ContractIds : contracts'[d].st # "signed"
    BY <1>2, <1>3 DEF ReleaseEligible, BlocksUnitRelease, EffectivelyEnded, Ended, Unsigned
  <2>2. \A h \in HoldIds : holds[h].st = "active" => holds[h].case = contracts[c].case
    BY <1>2, <1>3 DEF ReleaseEligible, ReleasableHold, ActiveHolds
  <2>3. holds' = [h \in HoldIds |->
                    IF h \in ActiveHolds(holds) /\ holds[h].case = contracts[c].case
                    THEN [holds[h] EXCEPT !.st = "cancelled"] ELSE holds[h]]
        /\ unit' = "available" /\ ~handedOver
    BY <1>3 DEF EndContract, ReleaseEligible, HandoverExists
  <2>4. ActiveHolds(holds') = {}
    BY <1>1, <2>2, <2>3 DEF ActiveHolds, TypeOK, HoldRow
  <2>5. HoldsBegun' /\ OneReservation' /\ StatusHasItsHold' /\ HandedOverForGood'
    BY <1>2, <2>3, <2>4 DEF HoldsBegun, OneReservation, StatusHasItsHold, HandedOverForGood
  <2>6. BoundCaseIsAdvanced' /\ SoldByPurchase' /\ RsReserves' /\ SbkBinds'
    BY <2>1, <2>3 DEF BoundCaseIsAdvanced, SoldByPurchase, RsReserves, SbkBinds, BoundStatus
  <2> QED BY <2>5, <2>6 DEF ReportParts
<1>4. CASE ~ReleaseEligible(c, cs, t)
  <2>1. UNCHANGED <<unit, holds, cases>>
    BY <1>4 DEF EndContract
  <2>2. NothingSignedNow
    BY <1>2 DEF NothingSignedNow, Ended
  <2> QED BY <1>2, <2>1, <2>2, QuietReports
<1> QED BY <1>3, <1>4

LEMMA BlockReports ==
    ASSUME SaleReports, [Next]_vars, NEW t \in Times, UnitStatusCommand(t)
    PROVE  ReportParts'
<1>1. TypeOK /\ SaleInvariant /\ ReportParts
  BY ReportsHave
<1>2. UNCHANGED <<holds, cases, contracts, handedOver>>
  BY DEF UnitStatusCommand, BlockUnit, UnblockUnit
<1>3. /\ unit \in {"available", "pre_reserved", "reserved", "blocked"}
      /\ unit' \in {"available", "blocked"}
      /\ unit' = "available" => ~HasEffectiveSignedContract(contracts)
  BY DEF UnitStatusCommand, BlockUnit, UnblockUnit, UnitCommand, CommandFrom, CommandTo
<1>4. HoldsBegun'
  BY <1>1, <1>2, BegunKept DEF HoldsOnlyEnd, ReportParts
<1>5. OneReservation' /\ StatusHasItsHold' /\ HandedOverForGood'
  BY <1>1, <1>2, <1>3 DEF ReportParts, OneReservation, StatusHasItsHold, HandedOverForGood
<1>6. BoundCaseIsAdvanced' /\ SoldByPurchase'
  BY <1>3 DEF BoundCaseIsAdvanced, SoldByPurchase, BoundStatus
<1>7. RsReserves' /\ SbkBinds'
  BY <1>1, <1>2, <1>3 DEF ReportParts, RsReserves, SbkBinds, BoundStatus,
                          HasEffectiveSignedContract
<1> QED BY <1>4, <1>5, <1>6, <1>7 DEF ReportParts

LEMMA HandoverReports ==
    ASSUME SaleReports, [Next]_vars, Tick \/ HandoverCommand \/ UNCHANGED vars
    PROVE  ReportParts'
<1>1. TypeOK /\ SaleInvariant /\ ReportParts
  BY ReportsHave
<1>2. UNCHANGED <<holds, contracts>> /\ NothingSignedNow
  BY DEF Tick, HandoverCommand, ScheduleUnitHandover, CompleteHandover, CancelHandover,
         vars, NothingSignedNow
<1>3. CASE UNCHANGED <<unit, cases, handedOver>>
  BY <1>2, <1>3, QuietReports
<1>4. CASE CompleteHandover
  <2>1. /\ unit \in {"sold", "handed_over"} /\ unit' = "handed_over"
        /\ \A k \in CaseIds : /\ cases'[k].st = cases[k].st
                              /\ cases'[k].stage \in {cases[k].stage, "handover"}
    BY <1>1, <1>4 DEF CompleteHandover, TypeOK, CaseRow
  <2>2. ActiveCases(cases') = ActiveCases(cases)
    BY <2>1 DEF ActiveCases
  <2>3. HoldsBegun'
    BY <1>1, <1>2, BegunKept DEF HoldsOnlyEnd, ReportParts
  <2>4. OneReservation' /\ StatusHasItsHold' /\ HandedOverForGood'
    BY <1>1, <1>2, <2>1 DEF ReportParts, OneReservation, StatusHasItsHold, HandedOverForGood
  <2>5. BoundCaseIsAdvanced'
    BY <1>1, <2>1, <2>2 DEF ReportParts, BoundCaseIsAdvanced, BoundStatus, ActiveCases
  <2>6. PICK k \in ActiveCases(cases) : OnceSigned(k, {"ks"})
    BY <1>1, <2>1 DEF ReportParts, SoldByPurchase
  <2>7. SoldByPurchase'
    BY <1>2, <2>2, <2>6 DEF SoldByPurchase, OnceSigned, OfCase
  <2>8. SbkBinds'
    BY <2>1 DEF SbkBinds, BoundStatus
  \* The KS that sold the unit is of the case of every signed RS.
  <2>9. RsReserves'
    <3> SUFFICES ASSUME NEW c \in ContractIds, contracts[c].st = "signed"
                 PROVE  OnceSigned(contracts[c].case, {"sbk", "ks"})
      BY <1>2 DEF RsReserves, OnceSigned, OfCase
    <3>1. contracts[c].case \in ActiveCases(cases)
      BY <1>1 DEF SaleInvariant, SignedContractProtectsUnit, ContractOfCase, ActiveCases
    <3>2. contracts[c].case = k
      BY <1>1, <2>6, <3>1 DEF SaleInvariant, OneActiveCase
    <3> QED BY <2>6, <3>2 DEF OnceSigned
  <2> QED BY <2>3, <2>4, <2>5, <2>7, <2>8, <2>9 DEF ReportParts
<1> QED
  BY <1>3, <1>4 DEF Tick, HandoverCommand, ScheduleUnitHandover, CancelHandover, vars

\* The reservation that replaces the other holds begins with the signature.
LEMMA ReplaceBegins ==
    ASSUME TypeOK, NEW c \in ContractIds, NEW t \in Times, ReplaceByReservation(c, t)
    PROVE  \A h \in ActiveHolds(holds') : holds'[h].starts = t
<1> DEFINE ended(p) == [h \in HoldIds |->
                          IF h \notin ActiveHolds(holds) THEN holds[h]
                          ELSE [holds[h] EXCEPT !.st =
                                  IF h = p THEN "converted" ELSE "expired"]]
<1> DEFINE pre    == {h \in ActiveHolds(holds) :
                        holds[h].case = contracts[c].case /\ holds[h].kind = "pre_reservation"}
           term   == t + ReservationTerm
           row(p) == [st |-> "active", kind |-> "reservation", case |-> contracts[c].case,
                      starts |-> t, by |-> c,
                      expires |-> IF pre # {} /\ holds[p].expires > term
                                  THEN holds[p].expires ELSE term]
<1>1. PICK p \in IF pre = {} THEN {None} ELSE pre :
         \/ holds' = ended(p)
         \/ \E h \in HoldIds : holds' = [ended(p) EXCEPT ![h] = row(p)]
  BY DEF ReplaceByReservation
<1>2. \A h \in HoldIds : ended(p)[h].st # "active"
  BY DEF ActiveHolds, TypeOK, HoldRow
<1>3. DOMAIN ended(p) = HoldIds /\ row(p).starts = t
  OBVIOUS
<1> HIDE DEF ended, row
<1> QED BY <1>1, <1>2, <1>3 DEF ActiveHolds

LEMMA FirstRsReports ==
    ASSUME SaleReports, [Next]_vars, NEW c \in ContractIds, NEW t \in Times,
           CompleteSignature(c, t), contracts[c].type = "rs"
    PROVE  ReportParts'
<1>1. TypeOK /\ SaleHistory /\ SaleReservations /\ ReportParts
  BY ReportsHave
<1>2. /\ UNCHANGED <<now, handedOver>> /\ t <= now
      /\ contracts' = [contracts EXCEPT ![c].st = "signed", ![c].ver = "signed",
                                        ![c].party = TRUE]
  BY DEF CompleteSignature, ReadyToSign, TxTime
<1>3. /\ contracts'[c].case = contracts[c].case /\ contracts'[c].type = "rs"
      /\ \A d \in ContractIds : d # c => contracts'[d] = contracts[d]
  BY <1>1, <1>2 DEF TypeOK, ContractRow
<1>4. /\ unit' = "reserved" /\ cases'[contracts[c].case].stage = "reservation"
      /\ ReplaceByReservation(c, t)
  BY <1>1, FirstRsSigned
<1>5. PICK h \in HoldIds : ActiveHolds(holds') = {h} /\ holds'[h].kind = "reservation"
  BY <1>1, FirstRsSigned
<1>6. \A d \in ContractIds : contracts'[d].st = "signed" => d = c
  BY <1>1, <1>3, SignedBefore
<1>7. HoldsBegun'
  BY <1>1, <1>2, <1>4, ReplaceBegins DEF HoldsBegun
<1>8. OneReservation' /\ StatusHasItsHold'
  BY <1>5 DEF OneReservation, StatusHasItsHold
<1>9. BoundCaseIsAdvanced' /\ SoldByPurchase'
  BY <1>4 DEF BoundCaseIsAdvanced, SoldByPurchase, BoundStatus
<1>10. HandedOverForGood'
  BY <1>1, <1>2, UnboundToSign DEF ReportParts, HandedOverForGood
<1>11. RsReserves' /\ SbkBinds'
  BY <1>3, <1>4, <1>6 DEF RsReserves, SbkBinds
<1> QED BY <1>7, <1>8, <1>9, <1>10, <1>11 DEF ReportParts

\* A signature closes no case.
LEMMA SignatureCases ==
    ASSUME TypeOK, NEW c \in ContractIds, NEW t \in Times,
           NEW cs \in [ContractIds -> ContractRow], cs[c].case = contracts[c].case,
           SynchronizeSignedContract(c, cs, t)
    PROVE  ActiveCases(cases') = ActiveCases(cases)
BY SynchronizeCase DEF ActiveCases

\* The first signature of an SBK or a KS binds the unit to its case.
LEMMA FirstPurchaseReports ==
    ASSUME SaleReports, [Next]_vars, NEW c \in ContractIds, NEW t \in Times,
           CompleteSignature(c, t), contracts[c].type # "rs",
           NEW k, k = contracts[c].case, NEW ty, ty = contracts[c].type
    PROVE  ReportParts'
<1>1. /\ TypeOK /\ SaleInvariant /\ SaleHistory /\ ReportParts
      /\ contracts[c] \in ContractRow
  BY ReportsHave DEF TypeOK
<1>2. /\ contracts[c].st = "approved" /\ cases[k].st = "active"
      /\ contracts' = [contracts EXCEPT ![c].st = "signed", ![c].ver = "signed",
                                        ![c].party = TRUE]
      /\ SynchronizeSignedContract(c, contracts', t)
      /\ UNCHANGED <<now, handedOver>>
  BY DEF CompleteSignature, ReadyToSign
<1>3. /\ contracts' \in [ContractIds -> ContractRow]
      /\ contracts'[c].case = k /\ contracts'[c].type = ty
      /\ contracts'[c].st = "signed" /\ contracts'[c].ver = "signed"
      /\ \A d \in ContractIds : d # c => contracts'[d] = contracts[d]
  BY <1>1, <1>2 DEF TypeOK, ContractRow
<1>4. ty \in {"sbk", "ks"} /\ k \in CaseIds /\ contracts[c].st # "absent"
  BY <1>1, <1>2 DEF ContractRow, BaseTypes, SaleInvariant, ContractOfCase
<1>5. /\ UNCHANGED holds
      /\ cases' = [cases EXCEPT ![k].stage = ty]
  BY <1>2, <1>3, <1>4 DEF SynchronizeSignedContract, EnsurePurchaseStage
<1>6. ActiveCases(cases') = {k} /\ k \in ActiveCases(cases)
  <2>1. k \in ActiveCases(cases)
    BY <1>2, <1>4 DEF ActiveCases
  <2>2. ActiveCases(cases) = {k}
    BY <1>1, <2>1 DEF SaleInvariant, OneActiveCase
  <2>3. ActiveCases(cases') = ActiveCases(cases)
    BY <1>1, <1>2, <1>3, SignatureCases
  <2> QED BY <2>1, <2>2, <2>3
<1>7. /\ unit \notin {"handed_over"}
      /\ ty = "sbk" => unit' = "contracted"
      /\ ty = "ks" => unit' = "sold"
  <2>1. ty = "sbk" => unit \notin {"contracted", "sold", "handed_over"}
    BY <1>1, UnboundToSign
  <2>2. /\ contracts'[c].type = "sbk" =>
             \/ unit' = unit /\ unit \in {"contracted", "sold"}
             \/ unit \in {"available", "pre_reserved", "reserved"} /\ unit' = "contracted"
        /\ contracts'[c].type = "ks" =>
             /\ unit \in {"available", "pre_reserved", "reserved", "contracted", "sold"}
             /\ unit' = "sold"
    <3>1. /\ contracts[c].st # "absent" /\ cases[contracts[c].case].st = "active"
          /\ SynchronizeSignedContract(c, contracts', t)
          /\ contracts' \in [ContractIds -> ContractRow]
          /\ contracts'[c].case = contracts[c].case /\ SaleHistory
      BY <1>1, <1>2, <1>3, <1>4
    <3> QED BY <3>1, SynchronizeOffer
  <2> QED BY <1>3, <1>4, <2>1, <2>2
<1>8. HoldsBegun'
  BY <1>1, <1>5, BegunKept DEF HoldsOnlyEnd, ReportParts
<1>9. OneReservation' /\ StatusHasItsHold'
  BY <1>1, <1>4, <1>5, <1>7 DEF ReportParts, OneReservation, StatusHasItsHold
<1>10. BoundCaseIsAdvanced'
  <2>1. cases'[k].stage = ty
    BY <1>1, <1>4, <1>5 DEF TypeOK, CaseRow
  <2> QED BY <1>4, <1>6, <2>1 DEF BoundCaseIsAdvanced
<1>11. OnceSigned(k, {ty})' /\ OnceSigned(k, {"sbk", "ks"})'
  BY <1>3, <1>4 DEF OnceSigned, OfCase
<1>12. RsReserves'
  <2> SUFFICES ASSUME NEW d \in ContractIds, contracts'[d].st = "signed",
                      contracts'[d].type = "rs"
               PROVE  contracts'[d].case = k
    BY <1>11 DEF RsReserves, OnceSigned, OfCase
  <2>1. d # c /\ contracts'[d] = contracts[d]
    BY <1>3, <1>4
  <2> QED BY <1>1, <2>1, SignedBefore
<1>13. SbkBinds'
  BY <1>4, <1>7 DEF SbkBinds, BoundStatus
<1>14. SoldByPurchase'
  BY <1>4, <1>6, <1>7, <1>11 DEF SoldByPurchase
<1>15. HandedOverForGood'
  BY <1>1, <1>2, <1>7 DEF ReportParts, HandedOverForGood
<1> QED BY <1>8, <1>9, <1>10, <1>12, <1>13, <1>14, <1>15 DEF ReportParts

\* A signature repeated on a signed RS restores the status, or does nothing.
LEMMA RepeatedRsReports ==
    ASSUME SaleReports, [Next]_vars, NEW c \in ContractIds, NEW t \in Times,
           contracts[c].st = "signed", contracts[c].type = "rs",
           SynchronizeSignedContract(c, contracts, t), UNCHANGED <<now, contracts, handedOver>>
    PROVE  ReportParts'
<1>1. TypeOK /\ SaleInvariant /\ SaleHistory /\ SaleReservations /\ ReportParts
  BY ReportsHave
<1>2. /\ EnsureSignedReservation(c, contracts, t)
      /\ \E h \in ActiveHolds(holds) :
           holds[h].case = contracts[c].case /\ holds[h].kind = "reservation"
  BY <1>1 DEF SynchronizeSignedContract, SaleReservations, SignedRsKeepsReservation
<1>3. NothingSignedNow
  BY DEF NothingSignedNow
<1>4. CASE UNCHANGED <<unit, holds, cases>>
  BY <1>3, <1>4, QuietReports
<1>5. CASE ~UNCHANGED <<unit, holds, cases>>
  <2>1. /\ unit \in {"available", "pre_reserved", "reserved"} /\ unit' = "reserved"
        /\ UNCHANGED holds
        /\ cases' = [cases EXCEPT ![contracts[c].case].stage = "reservation"]
    BY <1>2, <1>5 DEF EnsureSignedReservation
  <2>2. contracts[c].case \in CaseIds /\ contracts[c].case \in ActiveCases(cases)
    BY <1>1 DEF SaleInvariant, SignedContractProtectsUnit, ContractOfCase, ActiveCases
  <2>3. cases'[contracts[c].case].stage = "reservation"
    BY <1>1, <2>1, <2>2 DEF TypeOK, CaseRow
  <2>4. \A h \in ActiveHolds(holds) : holds[h].kind = "reservation"
    <3> TAKE h \in ActiveHolds(holds)
    <3>1. holds[h].case = contracts[c].case
      BY <1>1, <2>2 DEF SaleInvariant, ActiveHoldsOfActiveCase
    <3>2. holds[h].kind # "pre_reservation"
      BY <1>1, <3>1 DEF SaleReservations, SignedRsEndsPreReservations
    <3> QED BY <1>1, <3>2 DEF TypeOK, HoldRow, HoldKinds, ActiveHolds
  <2>5. HoldsBegun'
    BY <1>1, <2>1, BegunKept DEF HoldsOnlyEnd, ReportParts
  <2>6. OneReservation' /\ StatusHasItsHold'
    BY <1>1, <1>2, <2>1, <2>4 DEF ReportParts, OneReservation, StatusHasItsHold
  <2>7. BoundCaseIsAdvanced' /\ SoldByPurchase'
    BY <2>1 DEF BoundCaseIsAdvanced, SoldByPurchase, BoundStatus
  <2>8. HandedOverForGood' /\ SbkBinds'
    BY <1>1, <2>1 DEF ReportParts, HandedOverForGood, SbkBinds, BoundStatus
  <2>9. RsReserves'
    <3> SUFFICES ASSUME NEW d \in ContractIds, contracts[d].st = "signed"
                 PROVE  contracts[d].case = contracts[c].case
      BY <2>1, <2>3 DEF RsReserves
    <3>1. contracts[d].case \in ActiveCases(cases)
      BY <1>1 DEF SaleInvariant, SignedContractProtectsUnit, ContractOfCase, ActiveCases
    <3> QED BY <1>1, <2>2, <3>1 DEF SaleInvariant, OneActiveCase
  <2> QED BY <2>5, <2>6, <2>7, <2>8, <2>9 DEF ReportParts
<1> QED BY <1>4, <1>5

\* A signature repeated on a signed SBK or KS finds the unit bound.
LEMMA RepeatedPurchaseReports ==
    ASSUME SaleReports, [Next]_vars, NEW c \in ContractIds, NEW t \in Times,
           contracts[c].st = "signed", contracts[c].type # "rs",
           SynchronizeSignedContract(c, contracts, t), UNCHANGED <<now, contracts, handedOver>>,
           NEW k, k = contracts[c].case
    PROVE  ReportParts'
<1>1. /\ TypeOK /\ SaleInvariant /\ SaleHistory /\ ReportParts
      /\ contracts \in [ContractIds -> ContractRow]
  BY ReportsHave DEF TypeOK
<1>2. /\ contracts[c].st # "absent" /\ cases[contracts[c].case].st = "active"
      /\ contracts[c].type \in {"sbk", "ks"} /\ k \in CaseIds /\ k \in ActiveCases(cases)
      /\ contracts[c].ver = "signed"
  BY <1>1 DEF SaleInvariant, SignedContractProtectsUnit, ContractOfCase, ActiveCases,
              ContractRow, BaseTypes
<1>3. /\ UNCHANGED holds
      /\ cases' = [cases EXCEPT ![k].stage = contracts[c].type]
  BY <1>2 DEF SynchronizeSignedContract, EnsurePurchaseStage
<1>4. ActiveCases(cases') = {k} /\ ActiveCases(cases) = {k}
  <2>1. ActiveCases(cases') = ActiveCases(cases)
    BY <1>1, SignatureCases
  <2> QED BY <1>1, <1>2, <2>1 DEF SaleInvariant, OneActiveCase
<1>5. unit' = unit /\ unit \in BoundStatus
  <2>1. /\ contracts[c].type = "sbk" =>
             \/ unit' = unit /\ unit \in {"contracted", "sold"}
             \/ unit \in {"available", "pre_reserved", "reserved"} /\ unit' = "contracted"
        /\ contracts[c].type = "ks" =>
             /\ unit \in {"available", "pre_reserved", "reserved", "contracted", "sold"}
             /\ unit' = "sold"
    BY <1>1, <1>2, SynchronizeOffer
  <2>2. contracts[c].type = "sbk" => unit \in {"contracted", "sold", "handed_over"}
    BY <1>1 DEF ReportParts, SbkBinds, BoundStatus
  <2>3. contracts[c].type = "ks" => unit \in {"sold", "handed_over"}
    BY <1>1, <1>2 DEF SaleInvariant, PurchaseKeepsUnitSold, PurchaseSigned
  <2> QED BY <1>2, <2>1, <2>2, <2>3 DEF BoundStatus
<1>6. HoldsBegun'
  BY <1>1, <1>3, BegunKept DEF HoldsOnlyEnd, ReportParts
<1>7. OneReservation' /\ StatusHasItsHold' /\ HandedOverForGood'
  BY <1>1, <1>3, <1>5 DEF ReportParts, OneReservation, StatusHasItsHold, HandedOverForGood
<1>8. BoundCaseIsAdvanced'
  <2>1. cases'[k].stage = contracts[c].type
    BY <1>1, <1>2, <1>3 DEF TypeOK, CaseRow
  <2> QED BY <1>2, <1>4, <2>1 DEF BoundCaseIsAdvanced
<1>9. OnceSigned(k, {"sbk", "ks"})
  BY <1>2 DEF OnceSigned, OfCase
<1>10. RsReserves'
  <2> SUFFICES ASSUME NEW d \in ContractIds, contracts[d].st = "signed"
               PROVE  contracts[d].case = k
    BY <1>9 DEF RsReserves, OnceSigned, OfCase
  <2>1. contracts[d].case \in ActiveCases(cases)
    BY <1>1 DEF SaleInvariant, SignedContractProtectsUnit, ContractOfCase, ActiveCases
  <2> QED BY <1>4, <2>1
<1>11. SbkBinds'
  BY <1>5 DEF SbkBinds
<1>12. SoldByPurchase'
  BY <1>1, <1>4, <1>5 DEF ReportParts, SoldByPurchase, OnceSigned, OfCase
<1> QED BY <1>6, <1>7, <1>8, <1>10, <1>11, <1>12 DEF ReportParts

\* A draft, a new version, an advance or one of several signatures.
LEMMA PreparedReports ==
    ASSUME SaleReports, [Next]_vars, NEW c \in ContractIds,
           \/ PreparationCommand(c)
           \/ /\ contracts' = [contracts EXCEPT ![c].party = TRUE]
              /\ UNCHANGED <<unit, holds, cases, handedOver>>
    PROVE  ReportParts'
<1>1. TypeOK /\ SaleInvariant
  BY ReportsHave
<1>2. UNCHANGED <<unit, holds, cases, handedOver>>
  BY DEF PreparationCommand, CreateContract, CreateContractVersion, AdvanceContract
<1>3. NothingSignedNow
  <2> SUFFICES ASSUME NEW d \in ContractIds, contracts'[d].st = "signed"
               PROVE  /\ contracts[d].st = "signed"
                      /\ contracts'[d].type = contracts[d].type
                      /\ contracts'[d].case = contracts[d].case
    BY DEF NothingSignedNow
  <2>1. ASSUME NEW k \in CaseIds, NEW ty \in BaseTypes, CreateContract(c, k, ty)
        PROVE  contracts'[d] = contracts[d]
    BY <1>1, <2>1, Inserted
  <2>2. CASE CreateContractVersion(c)
    BY <1>1, <2>2 DEF CreateContractVersion, TypeOK, ContractRow, Unsigned
  <2>3. ASSUME NEW to \in Unsigned, AdvanceContract(c, to) PROVE contracts'[d] = contracts[d]
    BY <1>1, <2>3 DEF AdvanceContract, TypeOK, ContractRow, Unsigned
  <2>4. CASE contracts' = [contracts EXCEPT ![c].party = TRUE]
    BY <1>1, <2>4 DEF TypeOK, ContractRow
  <2> QED BY <2>1, <2>2, <2>3, <2>4 DEF PreparationCommand
<1> QED BY <1>2, <1>3, QuietReports

LEMMA NextReports == SaleReports /\ [Next]_vars => SaleReports'
<1> SUFFICES ASSUME SaleReports, [Next]_vars PROVE ReportParts'
  BY NextReservations, ReportsHave DEF SaleReports, ReportParts
<1>1. ASSUME NEW t \in Times, HoldCommand(t) PROVE ReportParts'
  BY <1>1, EndedHoldReports, CreatedReports DEF HoldCommand
<1>2. ASSUME NEW t \in Times, NEW c \in ContractIds, ContractCommand(c, t)
      PROVE  ReportParts'
  <2>1. ASSUME SignContractExternally(c, t) \/ RecordContractPartySignature(c, t)
        PROVE  \/ CompleteSignature(c, t)
               \/ /\ contracts[c].st = "signed" /\ UNCHANGED <<now, contracts, handedOver>>
                  /\ SynchronizeSignedContract(c, contracts, t)
               \/ /\ contracts' = [contracts EXCEPT ![c].party = TRUE]
                  /\ UNCHANGED <<unit, holds, cases, handedOver>>
    BY <2>1 DEF SignContractExternally, RecordContractPartySignature
  <2>2. CASE CompleteSignature(c, t)
    BY <2>2, FirstRsReports, FirstPurchaseReports
  <2>3. CASE /\ contracts[c].st = "signed" /\ UNCHANGED <<now, contracts, handedOver>>
             /\ SynchronizeSignedContract(c, contracts, t)
    BY <2>3, RepeatedRsReports, RepeatedPurchaseReports
  <2> QED BY <1>2, <2>1, <2>2, <2>3, EndedContractReports, PreparedReports DEF ContractCommand
<1> QED BY <1>1, <1>2, PreparedReports, BlockReports, HandoverReports DEF Next

LEMMA InitReports == Init => SaleReports
<1> SUFFICES ASSUME Init PROVE ReportParts
  BY InitReservations DEF SaleReports, ReportParts
<1>1. /\ ActiveHolds(holds) = {} /\ unit = "available" /\ ~handedOver
      /\ \A c \in ContractIds : contracts[c].st = "absent"
  BY DEF Init, NoHold, NoContract, ActiveHolds
<1> QED
  BY <1>1 DEF ReportParts, HoldsBegun, OneReservation, StatusHasItsHold, BoundCaseIsAdvanced,
     RsReserves, SbkBinds, SoldByPurchase, HandedOverForGood, BoundStatus

\* What each status of the unit goes back to (SaleReports, UnitReports.tla): a held
\* unit to its holds, a bound one to its signed SBK, a sold one to the KS of its sale.
THEOREM SaleReportsCorrect == Spec => []SaleReports
BY InitReports, NextReports, PTL DEF Spec

-----------------------------------------------------------------------------
(* The findings of the consistency checker. *)

\* A signed RS has exactly one reservation made by a signature.
LEMMA OneContractualReservation ==
    ASSUME SaleReports, NEW c \in ContractIds,
           contracts[c].st = "signed", contracts[c].type = "rs"
    PROVE  Cardinality(ContractualReservations(contracts[c].case)) = 1
<1>1. SaleReservations /\ OneReservation
  BY ReportsHave DEF ReportParts
<1>2. PICK h \in ActiveHolds(holds) : /\ holds[h].by = c /\ holds[h].kind = "reservation"
                                      /\ holds[h].case = contracts[c].case
  BY <1>1 DEF SaleReservations, SignedRsKeepsReservation
<1>3. c # None
  BY DEF ContractIds, None
<1>4. ContractualReservations(contracts[c].case) = {h}
  BY <1>1, <1>2, <1>3 DEF ContractualReservations, OneReservation
<1> QED BY <1>4, FS_Singleton

LEMMA RsFindingExplained ==
    ASSUME SaleReports, NEW c \in RS_RESERVATION_INCONSISTENT
    PROVE  /\ Cardinality(ContractualReservations(contracts[c].case)) = 1
           /\ unit = "blocked" \/ EndedAfterSignature(contracts[c].case, {"sbk", "ks"})
<1> DEFINE k == contracts[c].case
<1>1. /\ c \in ContractIds /\ contracts[c].type = "rs" /\ contracts[c].st = "signed"
      /\ \A d \in OfCase(k) : contracts[d].type \in {"sbk", "ks"} => contracts[d].st # "signed"
  BY DEF RS_RESERVATION_INCONSISTENT, ReservingContracts
<1>2. Cardinality(ContractualReservations(k)) = 1
  BY <1>1, OneContractualReservation
<1>3. cases[k].st = "active" /\ RsReserves
  BY <1>1, ReportsHave DEF ReportParts, SaleInvariant, SignedContractProtectsUnit
<1>4. \/ unit # "reserved"
      \/ cases[k].stage \notin {"reservation", "sbk"}
  BY <1>2, <1>3 DEF RS_RESERVATION_INCONSISTENT
<1>5. unit = "blocked" \/ OnceSigned(k, {"sbk", "ks"})
  BY <1>1, <1>3, <1>4 DEF RsReserves
<1>6. OnceSigned(k, {"sbk", "ks"}) => EndedAfterSignature(k, {"sbk", "ks"})
  BY <1>1 DEF OnceSigned, EndedAfterSignature
<1> QED BY <1>2, <1>5, <1>6

LEMMA HoldFindingsExplained ==
    ASSUME SaleReports
    PROVE  /\ AVAILABLE_WITH_HOLD => \A h \in ActiveHolds(holds) :
                holds[h].kind = "reservation" => contracts[holds[h].by].st \in Ended
           /\ RESERVED_WITHOUT_SIGNED_CONTRACT => \E h \in ActiveHolds(holds) :
                holds[h].by # None /\ contracts[holds[h].by].st \in Ended
           /\ MULTIPLE_ACTIVE_HOLDS => \A g, h \in ActiveHolds(holds) :
                g # h => Lapsed(g) \/ Lapsed(h)
<1>1. TypeOK /\ SaleInvariant /\ SaleHistory /\ SaleReservations /\ ReportParts
  BY ReportsHave
<1>2. \A h \in ActiveHolds(holds) : holds[h].kind = "reservation" =>
        /\ holds[h].by # None /\ holds[h].by \in ContractIds
        /\ contracts[holds[h].by].st \in {"signed"} \cup Ended
  <2> TAKE h \in ActiveHolds(holds)
  <2>1. h \in HoldIds /\ holds[h].st = "active" /\ holds[h] \in HoldRow
    BY <1>1 DEF ActiveHolds, TypeOK
  <2>2. holds[h].by \in ContractIds \cup {None}
    BY <2>1 DEF HoldRow
  <2> QED BY <1>1, <2>1, <2>2 DEF SaleReservations, ReservationOnlyBySignature,
                                  ReservationMadeBySigned
<1>3. AVAILABLE_WITH_HOLD => \A h \in ActiveHolds(holds) :
        holds[h].kind = "reservation" => contracts[holds[h].by].st \in Ended
  BY <1>1, <1>2 DEF AVAILABLE_WITH_HOLD, SaleInvariant, SignedContractProtectsUnit
<1>4. RESERVED_WITHOUT_SIGNED_CONTRACT => \E h \in ActiveHolds(holds) :
        holds[h].by # None /\ contracts[holds[h].by].st \in Ended
  <2> SUFFICES ASSUME unit = "reserved", ~HasEffectiveSignedContract(contracts)
               PROVE  \E h \in ActiveHolds(holds) :
                        holds[h].by # None /\ contracts[holds[h].by].st \in Ended
    BY DEF RESERVED_WITHOUT_SIGNED_CONTRACT
  <2>1. PICK h \in ActiveHolds(holds) : holds[h].kind = "reservation"
    BY <1>1 DEF ReportParts, StatusHasItsHold
  <2> QED BY <1>2, <2>1 DEF HasEffectiveSignedContract
<1>5. ASSUME NEW g \in ActiveHolds(holds), NEW h \in ActiveHolds(holds), g # h
      PROVE  Lapsed(g) \/ Lapsed(h)
  <2>1. holds[g].expires <= holds[h].starts \/ holds[h].expires <= holds[g].starts
    BY <1>1, <1>5 DEF SaleHistory, HoldsNeverOverlap
  <2>2. holds[g].starts <= now /\ holds[h].starts <= now
    BY <1>1 DEF ReportParts, HoldsBegun
  <2>3. /\ holds[g].starts \in Int /\ holds[h].starts \in Int
        /\ holds[g].expires \in Int /\ holds[h].expires \in Int /\ now \in Int
    BY <1>1 DEF ActiveHolds, TypeOK, HoldRow, Times, LaterTimes
  <2> QED BY <2>1, <2>2, <2>3 DEF Lapsed
<1> QED BY <1>3, <1>4, <1>5

LEMMA StaleStageExplained ==
    ASSUME SaleReports, STALE_PRE_RESERVATION_STAGE # {}
    PROVE  EXPIRED_ACTIVE_PRE_RESERVATION # {} \/ unit \in {"available", "blocked"}
<1>1. TypeOK /\ SaleInvariant /\ SaleReservations /\ ReportParts
  BY ReportsHave
<1>2. PICK k \in ActiveCases(cases) :
        /\ cases[k].stage = "pre_reservation"
        /\ \A h \in ActiveHolds(holds) : holds[h].case = k => holds[h].by = None /\ Lapsed(h)
  BY DEF STALE_PRE_RESERVATION_STAGE
<1>3. ASSUME NEW h \in ActiveHolds(holds) PROVE h \in EXPIRED_ACTIVE_PRE_RESERVATION
  <2>1. holds[h].case = k
    BY <1>1, <1>2 DEF SaleInvariant, ActiveHoldsOfActiveCase
  <2>2. holds[h].by = None /\ Lapsed(h)
    BY <1>2, <2>1
  <2>3. holds[h].st = "active" /\ holds[h].kind \in HoldKinds
    BY <1>1 DEF ActiveHolds, TypeOK, HoldRow
  <2>4. holds[h].kind # "reservation"
    BY <1>1, <2>2, <2>3 DEF SaleReservations, ReservationOnlyBySignature, ActiveHolds
  <2> QED BY <2>2, <2>3, <2>4 DEF EXPIRED_ACTIVE_PRE_RESERVATION, HoldKinds
<1>4. unit \notin BoundStatus
  BY <1>1, <1>2 DEF ReportParts, BoundCaseIsAdvanced
<1>5. unit \in {"pre_reserved", "reserved"} => ActiveHolds(holds) # {}
  BY <1>1 DEF ReportParts, StatusHasItsHold
<1> QED BY <1>1, <1>3, <1>4, <1>5 DEF TypeOK, UnitStatus, BoundStatus

\* Whatever the consistency checker finds of units, holds and signatures in a
\* sale was left by the commands it names, for any number of buyers, holds,
\* cases, contracts and clock values.
THEOREM ReportsCorrect == Spec => []ReportsExplained
<1>1. SaleReports => ReportsExplained
  <2> SUFFICES ASSUME SaleReports PROVE ReportsExplained
    OBVIOUS
  <2>1. SIGNED_CONTRACT_VERSION_MISSING = {}
    BY ReportsHave DEF SIGNED_CONTRACT_VERSION_MISSING, SaleInvariant, SignedContractProtectsUnit
  <2> QED
    BY <2>1, RsFindingExplained, HoldFindingsExplained, StaleStageExplained
       DEF ReportsExplained
<1> QED BY <1>1, SaleReportsCorrect, PTL

-----------------------------------------------------------------------------
(* The sale shown to the user. *)

\* A type is live in a case when it has a live contract there, and signed when
\* that contract is.
LEMMA LiveOf ==
    ASSUME NEW k, NEW ty
    PROVE  /\ SignedOfType(k, ty) => LiveOfType(k, ty) # {}
           /\ SignedOfType(k, ty) <=>
                \E c \in ContractIds : /\ contracts[c].case = k /\ contracts[c].type = ty
                                       /\ contracts[c].st = "signed"
           /\ \A c \in LiveOfType(k, ty) : /\ c \in ContractIds /\ Live(contracts[c])
                                           /\ contracts[c].case = k /\ contracts[c].type = ty
BY DEF SignedOfType, LiveOfType, OfCase, Live, Ended

LEMMA StatusOfSale ==
    ASSUME SaleReports, NEW k \in ActiveCases(cases)
    PROVE  \/ ShownStatus(k, FALSE) = unit
           \/ unit \in {"blocked", "handed_over"}
           \/ EndedAfterSignature(k, {"sbk", "ks"})
<1>1. TypeOK /\ SaleInvariant /\ ReportParts
  BY ReportsHave
<1>2. CASE SignedOfType(k, "ks")
  <2>1. unit \in {"sold", "handed_over"}
    BY <1>1, <1>2, LiveOf DEF SaleInvariant, SignedContractProtectsUnit, PurchaseKeepsUnitSold,
                              PurchaseSigned
  <2> QED BY <1>2, <2>1 DEF ShownStatus
<1>3. CASE SignedOfType(k, "sbk") /\ ~SignedOfType(k, "ks")
  <2>1. unit \in BoundStatus
    BY <1>1, <1>3, LiveOf DEF ReportParts, SbkBinds
  <2>2. ASSUME unit = "sold" PROVE EndedAfterSignature(k, {"sbk", "ks"})
    <3>1. OnceSigned(k, {"ks"})
      BY <1>1, <2>2 DEF ReportParts, SoldByPurchase, SaleInvariant, OneActiveCase
    <3>2. PICK c \in OfCase(k) : /\ contracts[c].type = "ks" /\ contracts[c].ver = "signed"
                                 /\ contracts[c].st \in {"signed"} \cup Ended
      BY <3>1 DEF OnceSigned
    <3>3. contracts[c].st # "signed"
      BY <1>3, <3>2, LiveOf DEF OfCase
    <3> QED BY <3>2, <3>3 DEF EndedAfterSignature
  <2> QED BY <1>3, <2>1, <2>2 DEF ShownStatus, BoundStatus
<1>4. CASE SignedOfType(k, "rs") /\ ~SignedOfType(k, "sbk") /\ ~SignedOfType(k, "ks")
  <2>1. PICK c \in ContractIds : /\ contracts[c].case = k /\ contracts[c].type = "rs"
                                 /\ contracts[c].st = "signed"
    BY <1>4, LiveOf
  <2>2. unit \in {"blocked", "reserved"} \/ OnceSigned(k, {"sbk", "ks"})
    BY <1>1, <2>1 DEF ReportParts, RsReserves
  <2>3. ASSUME OnceSigned(k, {"sbk", "ks"}) PROVE EndedAfterSignature(k, {"sbk", "ks"})
    <3>1. PICK d \in OfCase(k) : /\ contracts[d].type \in {"sbk", "ks"}
                                 /\ contracts[d].ver = "signed"
                                 /\ contracts[d].st \in {"signed"} \cup Ended
      BY <2>3 DEF OnceSigned
    <3>2. contracts[d].st # "signed"
      BY <1>4, <3>1, LiveOf DEF OfCase
    <3> QED BY <3>1, <3>2 DEF EndedAfterSignature
  <2> QED BY <1>4, <2>2, <2>3 DEF ShownStatus
<1>5. CASE ~SignedOfType(k, "rs") /\ ~SignedOfType(k, "sbk") /\ ~SignedOfType(k, "ks")
  BY <1>5 DEF ShownStatus
<1> QED BY <1>2, <1>3, <1>4, <1>5

LEMMA Steps == Step["rs"] = 2 /\ Step["sbk"] = 3 /\ Step["ks"] = 4 /\ Handover = 5
BY DEF Step, Handover

\* The live contracts of lower types are signed.
LEMMA LowerSigned ==
    ASSUME SaleReports, NEW k, NEW lo \in BaseTypes, NEW hi \in BaseTypes,
           LiveOfType(k, lo) # {}, LiveOfType(k, hi) # {}, Step[lo] < Step[hi]
    PROVE  SignedOfType(k, lo)
<1>1. PICK c \in LiveOfType(k, lo), d \in LiveOfType(k, hi) : TRUE
  OBVIOUS
<1>2. /\ c \in ContractIds /\ Live(contracts[c])
      /\ contracts[c].case = k /\ contracts[c].type = lo
      /\ d \in ContractIds /\ Live(contracts[d])
      /\ contracts[d].case = k /\ contracts[d].type = hi
  BY <1>1, LiveOf
<1>3. lo # hi /\ ~(hi \in {"rs", "sbk"} /\ lo \in {"sbk", "ks"})
  BY Steps DEF BaseTypes
<1>4. contracts[c].st = "signed"
  BY <1>2, <1>3, ReportsHave DEF SaleHistory, OneOpenContractInOrder
<1> QED BY <1>2, <1>4, LiveOf

\* After a KS was signed in the case, its live RS and SBK are signed.
LEMMA PurchasedSigned ==
    ASSUME SaleReports, NEW k, OnceSigned(k, {"ks"}), NEW ty \in {"rs", "sbk"},
           LiveOfType(k, ty) # {}
    PROVE  SignedOfType(k, ty)
<1>1. PICK d \in ContractIds : /\ contracts[d].type = "ks" /\ contracts[d].case = k
                               /\ contracts[d].st \in {"signed"} \cup Ended
  BY DEF OnceSigned, OfCase
<1>2. PICK c \in ContractIds : /\ Live(contracts[c])
                               /\ contracts[c].case = k /\ contracts[c].type = ty
  BY LiveOf
<1>3. contracts[c].st \notin Unsigned
  BY <1>1, <1>2, ReportsHave DEF SaleHistory, OnlyPurchaseReopens, Ended
<1>4. contracts[c].st = "signed"
  BY <1>2, <1>3, ReportsHave, LiveKinds
<1> QED BY <1>2, <1>4, LiveOf

\* The progress bar of a sale that goes on, and after its handover.
At(k) == ActiveIndex(k, FALSE)
Shown(k, i) == ShownStep(k, FALSE, i)
ShownAfter(k, i) == ShownStep(k, TRUE, i)

LEMMA BarIs ==
    ASSUME NEW k, NEW i
    PROVE  /\ Shown(k, i) =
                IF ReviewRequired(k) /\ i > At(k) - 1 THEN "pending"
                ELSE IF i <= 1
                THEN IF i <= At(k) - 1 THEN "complete" ELSE IF i = At(k) THEN "current" ELSE "pending"
                ELSE IF \E ty \in BaseTypes : Step[ty] = i /\ SignedOfType(k, ty) THEN "complete"
                ELSE IF \E ty \in LiveTypes(k) : Step[ty] = i THEN "current"
                ELSE IF i \in 2 .. 4 /\ i < At(k) THEN "skipped"
                ELSE IF i = At(k) THEN "current" ELSE "pending"
           /\ ShownAfter(k, i) =
                IF i <= 1
                THEN IF i <= 5 THEN "complete" ELSE IF i = 5 THEN "current" ELSE "pending"
                ELSE IF \E ty \in BaseTypes : Step[ty] = i /\ SignedOfType(k, ty) THEN "complete"
                ELSE IF \E ty \in LiveTypes(k) : Step[ty] = i THEN "current"
                ELSE IF i \in 2 .. 4 /\ i < 5 THEN "skipped"
                ELSE IF i = 5 THEN "current" ELSE "pending"
<1>1. CompletedThrough(k, FALSE) = At(k) - 1 /\ CompletedThrough(k, TRUE) = 5
  BY Zenon DEF CompletedThrough, At, Handover
<1>2. ActiveIndex(k, TRUE) = 5 /\ ActiveIndex(k, FALSE) = At(k)
  BY Zenon DEF ActiveIndex, Handover, At
<1> HIDE DEF ActiveIndex, CompletedThrough, At
<1> QED BY <1>1, <1>2, Zenon DEF Shown, ShownAfter, ShownStep

\* The step the sale is in: before any contract 0 or 1, then that of the highest
\* live contract, or the one after it.
LEMMA TopStep ==
    ASSUME NEW k
    PROVE  /\ LiveTypes(k) = {} => At(k) \in {0, 1}
           /\ LiveTypes(k) # {} =>
                \E top \in LiveTypes(k) :
                    /\ \A other \in LiveTypes(k) : Step[other] <= Step[top]
                    /\ At(k) = IF SignedOfType(k, top) THEN Step[top] + 1 ELSE Step[top]
<1>1. LiveTypes(k) \subseteq BaseTypes
  BY DEF LiveTypes
<1>2. CASE LiveTypes(k) = {}
  BY <1>2 DEF At, ActiveIndex
<1>3. CASE LiveTypes(k) # {}
  <2> DEFINE Top(ty) == \A other \in LiveTypes(k) : Step[other] <= Step[ty]
             top == CHOOSE ty \in LiveTypes(k) : Top(ty)
  <2>1. \E ty \in LiveTypes(k) : Top(ty)
    <3>1. "ks" \in LiveTypes(k) => Top("ks")
      BY <1>1, Steps DEF BaseTypes
    <3>2. "ks" \notin LiveTypes(k) /\ "sbk" \in LiveTypes(k) => Top("sbk")
      BY <1>1, Steps DEF BaseTypes
    <3>3. LiveTypes(k) \subseteq {"rs"} => "rs" \in LiveTypes(k) /\ Top("rs")
      BY <1>3, Steps
    <3>4. LiveTypes(k) \subseteq {"rs", "sbk", "ks"}
      BY <1>1 DEF BaseTypes
    <3> QED BY <3>1, <3>2, <3>3, <3>4
  <2>2. top \in LiveTypes(k) /\ Top(top)
    BY <2>1
  <2>3. At(k) = IF SignedOfType(k, top) THEN Step[top] + 1 ELSE Step[top]
    BY <1>3 DEF At, ActiveIndex
  <2> QED BY <1>3, <2>2, <2>3
<1> QED BY <1>2, <1>3

LEMMA AtRange == ASSUME NEW k PROVE At(k) \in 0 .. 5
<1>1. CASE LiveTypes(k) = {}
  <2>1. At(k) \in {0, 1}
    BY <1>1, TopStep
  <2> QED BY <2>1
<1>2. CASE LiveTypes(k) # {}
  <2>1. PICK top \in LiveTypes(k) :
               At(k) = IF SignedOfType(k, top) THEN Step[top] + 1 ELSE Step[top]
    BY <1>2, TopStep
  <2>2. top \in {"rs", "sbk", "ks"}
    BY DEF LiveTypes, BaseTypes
  <2>3. Step[top] \in 2 .. 4
    BY <2>2, Steps
  <2> QED BY <2>1, <2>3
<1> QED BY <1>1, <1>2

\* The step of a type of contract, ...
LEMMA StepOfType ==
    ASSUME NEW k, NEW ty \in BaseTypes
    PROVE  /\ Shown(k, Step[ty]) =
                IF ReviewRequired(k) /\ Step[ty] > At(k) - 1 THEN "pending"
                ELSE IF SignedOfType(k, ty) THEN "complete"
                ELSE IF LiveOfType(k, ty) # {} THEN "current"
                ELSE IF Step[ty] < At(k) THEN "skipped"
                ELSE IF Step[ty] = At(k) THEN "current" ELSE "pending"
           /\ ShownAfter(k, Step[ty]) =
                IF SignedOfType(k, ty) THEN "complete"
                ELSE IF LiveOfType(k, ty) # {} THEN "current" ELSE "skipped"
<1>1. /\ Step[ty] \in 2 .. 4 /\ ~(Step[ty] <= 1) /\ Step[ty] < 5
      /\ \A other \in BaseTypes : Step[other] = Step[ty] => other = ty
  BY Steps DEF BaseTypes
<1>2. /\ (\E other \in BaseTypes : Step[other] = Step[ty] /\ SignedOfType(k, other))
           <=> SignedOfType(k, ty)
      /\ (\E other \in LiveTypes(k) : Step[other] = Step[ty]) <=> LiveOfType(k, ty) # {}
  BY <1>1 DEF LiveTypes
<1> QED BY <1>1, <1>2, BarIs

\* ... and those before and after the contracts.
LEMMA OuterSteps ==
    ASSUME NEW k
    PROVE  /\ Shown(k, 5) \in {"current", "pending"}
           /\ ShownAfter(k, 5) = "current"
           /\ ShownAfter(k, 0) = "complete" /\ ShownAfter(k, 1) = "complete"
           /\ At(k) > 0 => Shown(k, 0) = "complete"
           /\ At(k) > 1 => Shown(k, 1) = "complete"
           /\ At(k) <= 1 => Shown(k, 1) \in {"current", "pending"}
<1>1. \A ty \in BaseTypes : Step[ty] # 5
  BY Steps DEF BaseTypes
<1>2. ~ \E ty \in LiveTypes(k) : Step[ty] = 5
  BY <1>1 DEF LiveTypes
<1>3. At(k) \in 0 .. 5
  BY AtRange
<1>4. Shown(k, 5) \in {"current", "pending"} /\ ShownAfter(k, 5) = "current"
  BY <1>1, <1>2, BarIs
<1>5. ShownAfter(k, 0) = "complete" /\ ShownAfter(k, 1) = "complete"
  BY BarIs
<1>6. At(k) > 0 => Shown(k, 0) = "complete"
  BY <1>3, BarIs
<1>7. At(k) > 1 => Shown(k, 1) = "complete"
  BY <1>3, BarIs
<1>8. At(k) <= 1 => Shown(k, 1) \in {"current", "pending"}
  BY <1>3, BarIs
<1> QED BY <1>4, <1>5, <1>6, <1>7, <1>8

Passed == {"complete", "skipped"}

\* A type of a sale that goes on is passed when its step is behind the current one.
LEMMA TypePassed ==
    ASSUME SaleReports, NEW k, NEW ty \in BaseTypes
    PROVE  Shown(k, Step[ty]) \in Passed <=> Step[ty] < At(k)
<1>1. Step[ty] \in 2 .. 4 /\ At(k) \in 0 .. 5
  BY Steps, AtRange DEF BaseTypes
<1>2. ty \in LiveTypes(k) <=> LiveOfType(k, ty) # {}
  BY DEF LiveTypes
<1>3. SignedOfType(k, ty) => ty \in LiveTypes(k)
  BY <1>2, LiveOf
<1>4. CASE LiveTypes(k) = {}
  <2>1. At(k) \in {0, 1}
    BY <1>4, TopStep
  <2>2. Shown(k, Step[ty]) \in {"current", "pending"}
    BY <1>1, <1>2, <1>3, <1>4, <2>1, StepOfType
  <2> QED BY <1>1, <2>1, <2>2 DEF Passed
<1>5. CASE LiveTypes(k) # {}
  <2>1. PICK top \in LiveTypes(k) :
               /\ \A other \in LiveTypes(k) : Step[other] <= Step[top]
               /\ At(k) = IF SignedOfType(k, top) THEN Step[top] + 1 ELSE Step[top]
    BY <1>5, TopStep
  <2>2. top \in BaseTypes /\ LiveOfType(k, top) # {}
    BY DEF LiveTypes
  <2>3. Step[top] \in 2 .. 4 /\ (Step[ty] = Step[top] => ty = top)
    BY <2>2, Steps DEF BaseTypes
  <2>4. CASE Step[ty] < At(k)
    <3>1. LiveOfType(k, ty) # {} => SignedOfType(k, ty)
      <4>1. CASE ty = top
        BY <1>1, <2>1, <2>3, <2>4, <4>1
      <4>2. CASE ty # top
        <5>1. Step[ty] < Step[top]
          BY <1>1, <2>1, <2>3, <2>4, <4>2
        <5> QED BY <2>2, <5>1, LowerSigned
      <4> QED BY <4>1, <4>2
    <3>2. ~(Step[ty] > At(k) - 1)
      BY <1>1, <2>4
    <3> QED BY <2>4, <3>1, <3>2, StepOfType DEF Passed
  <2>5. CASE ~(Step[ty] < At(k))
    <3>1. ~SignedOfType(k, ty)
      <4> SUFFICES ASSUME SignedOfType(k, ty) PROVE FALSE
        OBVIOUS
      <4>1. Step[ty] <= Step[top]
        BY <1>3, <2>1
      <4>2. Step[top] = Step[ty] /\ ~SignedOfType(k, top)
        BY <1>1, <2>1, <2>3, <2>5, <4>1
      <4> QED BY <2>3, <4>2
    <3> QED BY <2>5, <3>1, StepOfType DEF Passed
  <2> QED BY <2>4, <2>5
<1> QED BY <1>4, <1>5

\* The progress of a sale that goes on: what lies behind the current step is
\* passed, and nothing else.
LEMMA ProgressGoing ==
    ASSUME SaleReports, NEW k
    PROVE  \A i \in 1 .. 5 : Shown(k, i) \in Passed => Shown(k, i - 1) \in Passed
<1>1. /\ Shown(k, 2) \in Passed <=> 2 < At(k)
      /\ Shown(k, 3) \in Passed <=> 3 < At(k)
      /\ Shown(k, 4) \in Passed <=> 4 < At(k)
  <2>1. "rs" \in BaseTypes /\ "sbk" \in BaseTypes /\ "ks" \in BaseTypes
    BY DEF BaseTypes
  <2> QED BY <2>1, Steps, TypePassed
<1>2. /\ At(k) > 0 => Shown(k, 0) \in Passed
      /\ At(k) > 1 => Shown(k, 1) \in Passed
      /\ At(k) <= 1 => Shown(k, 1) \notin Passed
      /\ Shown(k, 5) \notin Passed
  BY OuterSteps DEF Passed
<1>3. At(k) \in 0 .. 5
  BY AtRange
<1>4. /\ Shown(k, 1) \in Passed => Shown(k, 0) \in Passed
      /\ Shown(k, 2) \in Passed => Shown(k, 1) \in Passed
      /\ Shown(k, 3) \in Passed => Shown(k, 2) \in Passed
      /\ Shown(k, 4) \in Passed => Shown(k, 3) \in Passed
      /\ Shown(k, 5) \in Passed => Shown(k, 4) \in Passed
  BY <1>1, <1>2, <1>3
<1> SUFFICES ASSUME NEW i \in 1 .. 5, Shown(k, i) \in Passed
             PROVE  Shown(k, i - 1) \in Passed
  OBVIOUS
<1>5. /\ i = 1 \/ i = 2 \/ i = 3 \/ i = 4 \/ i = 5
      /\ 1 - 1 = 0 /\ 2 - 1 = 1 /\ 3 - 1 = 2 /\ 4 - 1 = 3 /\ 5 - 1 = 4
  OBVIOUS
<1> QED BY <1>4, <1>5

\* After the handover the KS was signed, and the contracts before it with it.
LEMMA ProgressAfter ==
    ASSUME SaleReports, NEW k, OnceSigned(k, {"ks"})
    PROVE  \A i \in 1 .. 5 : ShownAfter(k, i) \in Passed => ShownAfter(k, i - 1) \in Passed
<1>1. ASSUME NEW ty \in {"rs", "sbk"} PROVE ShownAfter(k, Step[ty]) \in Passed
  <2>1. ty \in BaseTypes
    BY <1>1 DEF BaseTypes
  <2>2. LiveOfType(k, ty) # {} => SignedOfType(k, ty)
    BY PurchasedSigned
  <2> QED BY <2>1, <2>2, StepOfType DEF Passed
<1>2. ShownAfter(k, 2) \in Passed /\ ShownAfter(k, 3) \in Passed
  BY <1>1, Steps
<1>3. /\ ShownAfter(k, 0) \in Passed /\ ShownAfter(k, 1) \in Passed
      /\ ShownAfter(k, 5) \notin Passed
  BY OuterSteps DEF Passed
<1> SUFFICES ASSUME NEW i \in 1 .. 5, ShownAfter(k, i) \in Passed
             PROVE  ShownAfter(k, i - 1) \in Passed
  OBVIOUS
<1>4. /\ i = 1 \/ i = 2 \/ i = 3 \/ i = 4 \/ i = 5
      /\ 1 - 1 = 0 /\ 2 - 1 = 1 /\ 3 - 1 = 2 /\ 4 - 1 = 3 /\ 5 - 1 = 4
  OBVIOUS
<1> QED BY <1>2, <1>3, <1>4

\* What the user is shown of a sale follows from its tables, for any number of
\* buyers, holds, cases, contracts and clock values.
THEOREM ShownSaleCorrect == Spec => []ShownSaleIsTrue
<1>1. SaleReports => ShownSaleIsTrue
  <2> SUFFICES ASSUME SaleReports, NEW k \in ActiveCases(cases), NEW done \in {FALSE, handedOver}
               PROVE  /\ \/ ShownStatus(k, done) = unit
                         \/ unit = "blocked" \/ (unit = "handed_over" /\ ~done)
                         \/ EndedAfterSignature(k, {"sbk", "ks"})
                      /\ \A i \in 1 .. Handover :
                           ShownStep(k, done, i) \in {"complete", "skipped"}
                             => ShownStep(k, done, i - 1) \in {"complete", "skipped"}
    BY DEF ShownSaleIsTrue
  <2>1. CASE done = FALSE
    <3>1. \A i \in 1 .. Handover :
            ShownStep(k, FALSE, i) \in {"complete", "skipped"}
              => ShownStep(k, FALSE, i - 1) \in {"complete", "skipped"}
      BY ProgressGoing, Steps DEF Shown, Passed
    <3> QED BY <2>1, <3>1, StatusOfSale
  <2>2. CASE done = TRUE
    <3>1. handedOver
      BY <2>2
    <3>2. unit = "handed_over" /\ OnceSigned(k, {"ks"})
      BY <3>1, ReportsHave DEF ReportParts, HandedOverForGood, SoldByPurchase, SaleInvariant,
                               OneActiveCase
    <3>3. ShownStatus(k, TRUE) = unit
      BY <3>2 DEF ShownStatus
    <3>4. \A i \in 1 .. Handover :
            ShownStep(k, TRUE, i) \in {"complete", "skipped"}
              => ShownStep(k, TRUE, i - 1) \in {"complete", "skipped"}
      BY <3>2, ProgressAfter, Steps DEF ShownAfter, Passed
    <3> QED BY <2>2, <3>3, <3>4
  <2>3. handedOver \in BOOLEAN
    BY ReportsHave DEF TypeOK
  <2> QED BY <2>1, <2>2, <2>3
<1> QED BY <1>1, SaleReportsCorrect, PTL
=============================================================================
