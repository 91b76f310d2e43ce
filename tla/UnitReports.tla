---------------------------- MODULE UnitReports ----------------------------
(***************************************************************************)
(* What the system tells about a sale, read from the tables of UnitSales:  *)
(* the findings of the consistency checker, each a critical inconsistency  *)
(* for the administrator, and the sales process shown to the user with the *)
(* contract that comes next.  None of it changes the state.                *)
(***************************************************************************)
EXTENDS UnitSales

-----------------------------------------------------------------------------
(* The facts of the consistency checker about units, holds, cases and the    *)
(* signatures of contracts.                                                  *)

SIGNED_CONTRACT_VERSION_MISSING ==
    {c \in ContractIds : contracts[c].st = "signed" /\ contracts[c].ver # "signed"}

\* The holds of a case that are not expirable: reservations made by a signature.
ContractualReservations(k) ==
    {h \in ActiveHolds(holds) :
       holds[h].case = k /\ holds[h].kind = "reservation" /\ holds[h].by # None}

\* A signed RS that no signed SBK or KS of its case continues.
ReservingContracts ==
    {c \in ContractIds :
       /\ contracts[c].type = "rs" /\ contracts[c].st = "signed"
       /\ \A d \in OfCase(contracts[c].case) :
            contracts[d].type \in {"sbk", "ks"} => contracts[d].st # "signed"}

RS_RESERVATION_INCONSISTENT ==
    {c \in ReservingContracts :
       LET k == contracts[c].case IN
       \/ unit # "reserved"
       \/ cases[k].st # "active"
       \/ cases[k].stage \notin {"reservation", "sbk"}
       \/ Cardinality(ContractualReservations(k)) # 1}

AVAILABLE_WITH_HOLD == unit = "available" /\ ActiveHolds(holds) # {}

RESERVED_WITHOUT_SIGNED_CONTRACT ==
    unit = "reserved" /\ ~HasEffectiveSignedContract(contracts)

MULTIPLE_ACTIVE_HOLDS == Cardinality(ActiveHolds(holds)) > 1

Lapsed(h) == holds[h].expires <= now

EXPIRED_ACTIVE_PRE_RESERVATION ==
    {h \in ActiveHolds(holds) : holds[h].kind = "pre_reservation" /\ Lapsed(h)}

STALE_PRE_RESERVATION_STAGE ==
    {k \in ActiveCases(cases) :
       /\ cases[k].stage = "pre_reservation"
       /\ \A h \in ActiveHolds(holds) : holds[h].case = k => holds[h].by = None /\ Lapsed(h)}

-----------------------------------------------------------------------------
(* The sales process of the active case k, as the commercial service projects *)
(* it; done says that the handover of the case is completed.                  *)

\* The kind of hold that counts: of the latest active hold that has begun and
\* is a reservation or has not lapsed.
ShownHold(k) ==
    LET live == {h \in ActiveHolds(holds) :
                   /\ holds[h].case = k /\ holds[h].starts <= now
                   /\ holds[h].kind = "reservation" \/ ~Lapsed(h)}
    IN {holds[h].kind : h \in {g \in live :
                                 \A i \in live : holds[i].starts <= holds[g].starts}}

LiveTypes(k) == {ty \in BaseTypes : LiveOfType(k, ty) # {}}

\* The steps of salesProcessSteps by their index.
Step == [rs |-> 2, sbk |-> 3, ks |-> 4]
Handover == 5

\* The step the sale is in: that of its highest live contract, or the next one
\* when it is signed; before any contract 1 under a pre-reservation, 0 otherwise.
ActiveIndex(k, done) ==
    IF done THEN Handover
    ELSE IF LiveTypes(k) = {}
    THEN IF "pre_reservation" \in ShownHold(k) THEN 1 ELSE 0
    ELSE LET top == CHOOSE ty \in LiveTypes(k) :
                      \A other \in LiveTypes(k) : Step[other] <= Step[ty]
         IN IF SignedOfType(k, top) THEN Step[top] + 1 ELSE Step[top]

CompletedThrough(k, done) == IF done THEN Handover ELSE ActiveIndex(k, done) - 1

\* The commercial status the label speaks of.
ShownStatus(k, done) ==
    IF done THEN "handed_over"
    ELSE IF SignedOfType(k, "ks") THEN "sold"
    ELSE IF SignedOfType(k, "sbk") THEN "contracted"
    ELSE IF SignedOfType(k, "rs") /\ unit \notin {"contracted", "sold", "handed_over"}
    THEN "reserved" ELSE unit

\* The progress bar.
ShownStep(k, done, i) ==
    LET at == ActiveIndex(k, done) IN
    IF ~done /\ ReviewRequired(k) /\ i > CompletedThrough(k, done) THEN "pending"
    ELSE IF i <= 1
    THEN IF i <= CompletedThrough(k, done) THEN "complete"
         ELSE IF i = at THEN "current" ELSE "pending"
    ELSE IF \E ty \in BaseTypes : Step[ty] = i /\ SignedOfType(k, ty) THEN "complete"
    ELSE IF \E ty \in LiveTypes(k) : Step[ty] = i THEN "current"
    ELSE IF i \in 2 .. 4 /\ i < at THEN "skipped"
    ELSE IF i = at THEN "current" ELSE "pending"

-----------------------------------------------------------------------------
EndedAfterSignature(k, types) ==
    \E c \in OfCase(k) : /\ contracts[c].type \in types
                         /\ contracts[c].ver = "signed" /\ contracts[c].st \in Ended

\* Which findings the commands leave in the tables, and out of what.  A signed
\* contract always has its signed version, and a signed RS its one reservation:
\* it is reported only while the unit is blocked or after a purchase contract of
\* the sale was signed and ended.  An available unit is held only by what a block
\* has covered: a pre-reservation, or the reservation of an RS that has ended; a
\* reserved unit without a signature by such a reservation.  Of two active holds
\* one has lapsed.  A sale stays in the negotiation without a hold only if the
\* job has not come yet, or a block kept the unit from being released.
ReportsExplained ==
    /\ SIGNED_CONTRACT_VERSION_MISSING = {}
    /\ \A c \in RS_RESERVATION_INCONSISTENT :
         LET k == contracts[c].case IN
         /\ Cardinality(ContractualReservations(k)) = 1
         /\ unit = "blocked" \/ EndedAfterSignature(k, {"sbk", "ks"})
    /\ AVAILABLE_WITH_HOLD => \A h \in ActiveHolds(holds) :
         holds[h].kind = "reservation" => contracts[holds[h].by].st \in Ended
    /\ RESERVED_WITHOUT_SIGNED_CONTRACT => \E h \in ActiveHolds(holds) :
         holds[h].by # None /\ contracts[holds[h].by].st \in Ended
    /\ MULTIPLE_ACTIVE_HOLDS => \A g, h \in ActiveHolds(holds) :
         g # h => Lapsed(g) \/ Lapsed(h)
    /\ STALE_PRE_RESERVATION_STAGE # {} =>
         EXPIRED_ACTIVE_PRE_RESERVATION # {} \/ unit \in {"available", "blocked"}

\* What the user is shown of a sale is the unit's status, unless the unit is
\* blocked or a purchase contract was signed and ended, and its progress is in
\* order: nothing is complete behind a step that is current or still to come.
ShownSaleIsTrue ==
    \A k \in ActiveCases(cases), done \in {FALSE, handedOver} :
        /\ \/ ShownStatus(k, done) = unit
           \/ unit = "blocked" \/ (unit = "handed_over" /\ ~done)
           \/ EndedAfterSignature(k, {"sbk", "ks"})
        /\ \A i \in 1 .. Handover :
             ShownStep(k, done, i) \in {"complete", "skipped"}
               => ShownStep(k, done, i - 1) \in {"complete", "skipped"}

-----------------------------------------------------------------------------
(* What the proofs add to SaleReservations.                                *)

BoundStatus == {"contracted", "sold", "handed_over"}

\* A contract of one of the types was signed in the case k, and may have ended.
OnceSigned(k, types) ==
    \E c \in OfCase(k) : /\ contracts[c].type \in types
                         /\ contracts[c].ver = "signed"
                         /\ contracts[c].st \in {"signed"} \cup Ended

\* Every active hold has begun, and at most one of them is a reservation.
HoldsBegun == \A h \in ActiveHolds(holds) : holds[h].starts <= now

OneReservation ==
    \A g, h \in ActiveHolds(holds) :
        holds[g].kind = "reservation" /\ holds[h].kind = "reservation" => g = h

\* A held unit has a hold, a reserved one nothing but its reservation.
StatusHasItsHold ==
    /\ unit \in {"pre_reserved", "reserved"} => ActiveHolds(holds) # {}
    /\ unit = "reserved" => \A h \in ActiveHolds(holds) : holds[h].kind = "reservation"

\* The active case of a bound unit has reached the stage of a purchase.
BoundCaseIsAdvanced ==
    unit \in BoundStatus =>
        \A k \in ActiveCases(cases) : cases[k].stage \in {"sbk", "ks", "handover"}

\* A signed RS reserves the unit, unless the unit is blocked or a purchase
\* contract of the sale has been signed; ...
RsReserves ==
    \A c \in ContractIds : contracts[c].type = "rs" /\ contracts[c].st = "signed" =>
        \/ unit = "blocked"
        \/ unit = "reserved" /\ cases[contracts[c].case].stage = "reservation"
        \/ OnceSigned(contracts[c].case, {"sbk", "ks"})

\* ... a signed SBK binds it; ...
SbkBinds ==
    \A c \in ContractIds : contracts[c].type = "sbk" /\ contracts[c].st = "signed"
        => unit \in BoundStatus

\* ... and it is sold by a KS that was signed in its active case, and handed
\* over once a handover is completed.
SoldByPurchase ==
    unit \in {"sold", "handed_over"} =>
        \E k \in ActiveCases(cases) : OnceSigned(k, {"ks"})

HandedOverForGood == handedOver => unit = "handed_over"

SaleReports ==
    /\ SaleReservations
    /\ HoldsBegun
    /\ OneReservation
    /\ StatusHasItsHold
    /\ BoundCaseIsAdvanced
    /\ RsReserves
    /\ SbkBinds
    /\ SoldByPurchase
    /\ HandedOverForGood
=============================================================================
