------------------------------ MODULE UnitOffer ------------------------------
(***************************************************************************)
(* What the sale of a unit promises to someone who only looks at the price *)
(* list and at the signed contracts: an offered unit is bound by nothing,  *)
(* a unit withdrawn by an administrator returns only when nothing binds    *)
(* it, and an owned unit is never offered again.                           *)
(***************************************************************************)
VARIABLES
    offer,    \* "offered", "held", "bound" (SBK), "owned" (KS) or "withdrawn"
    signed    \* types of the effective signed contracts

Init == offer = "offered" /\ signed = {}

PlaceHold ==
    /\ offer = "offered" /\ signed = {}
    /\ offer' = "held"
    /\ UNCHANGED signed

\* The end of the hold, or of the last contract, that kept the unit.
Release ==
    /\ offer \in {"held", "bound"}
    /\ offer' = "offered"
    /\ signed' = {}

Withdraw ==
    /\ offer \in {"offered", "held"}
    /\ offer' = "withdrawn"
    /\ UNCHANGED signed

Readmit ==
    /\ offer = "withdrawn" /\ signed = {}
    /\ offer' = "offered"
    /\ UNCHANGED signed

SignReservation ==
    /\ offer \in {"offered", "held"} /\ signed = {}
    /\ offer' = "held"
    /\ signed' = {"rs"}

SignFuturePurchase ==
    /\ offer \in {"offered", "held"} /\ "ks" \notin signed
    /\ offer' = "bound"
    /\ signed' = signed \cup {"sbk"}

\* A second purchase contract may follow a cancelled one.
SignPurchase ==
    /\ offer \in {"offered", "held", "bound", "owned"}
    /\ offer' = "owned"
    /\ signed' = signed \cup {"ks"}

\* A contract ends, and something else still keeps the unit.
EndContract ==
    /\ \E ty \in signed : signed' = signed \ {ty}
    /\ UNCHANGED offer

Next ==
    \/ PlaceHold \/ Release \/ Withdraw \/ Readmit
    \/ SignReservation \/ SignFuturePurchase \/ SignPurchase \/ EndContract

Spec == Init /\ [][Next]_<<offer, signed>>
=============================================================================
