-------------------------- MODULE ContractReadiness --------------------------
(***************************************************************************)
(* The preparation of a draft RS or SBK: the facts a contract is printed   *)
(* from, its versions with the payment terms frozen in them, and the       *)
(* readiness check that tells the user what has to be put right before the *)
(* document is generated.  A fact that is only printed is one of a few     *)
(* values:                                                                 *)
(*   "ok", "absent" (null or empty), "spaces", "bad" (a control character, *)
(*   a brace, too long), "notMailbox" (an address Word cannot link to).    *)
(* Money is in halere; -1 stands for null.                                 *)
(***************************************************************************)
EXTENDS Integers, FiniteSets, Sequences

CONSTANT MaxEdits   \* how often somebody changes a fact or advances the contract

VARIABLES source,   \* RsSource: the facts of the contract, its buyer and unit
          terms,    \* payment_terms_snapshot of the newest version
          edits     \* changes made so far

vars == <<source, terms, edits>>

Null == -1
NoTerms == [type |-> "none"]

Accessory(category, form, numerator, denominator, place) ==
    [category |-> category, form |-> form, n |-> numerator, d |-> denominator,
     place |-> place]
Cellar == Accessory("cellar", "cellar_unit", Null, Null, "ok")
Outdoor == Accessory("parking", "outdoor_parking_use_right", Null, Null, "absent")
Garage == Accessory("garage", "garage_coownership", 1, 25, "ok")
Wallbox == Accessory("wallbox", "none", Null, Null, "ok")
Complete == {Cellar, Outdoor, Garage}

\* units.code is imported once and never changed.  The payment symbol of a
\* contract is this code, if it is a number; the terms of the time before were
\* given the digits of the contract's reference.
Codes == {"7401", "A-7403"}
OldSymbol == "74"
Numeric == {"7401", OldSymbol}

\* What each fact of the source may be; the price, the fee, the list of
\* accessories and the code are those of the contract and stay (Starts, Codes).
Domain ==
    [type |-> {"rs", "sbk"}, active |-> BOOLEAN,
     variant |-> {"none", "default", "original", "delivery"},
     approval |-> {"approved", "draft", "several"},
     settings |-> BOOLEAN, sellerName |-> {"ok", "bad"},
     sellerEmail |-> {"ok", "notMailbox"},
     signatureName |-> {"ok", "absent", "bad"},
     clientChangesAccount |-> {"ok", "absent"},
     sellerDelivery |-> {"ok", "absent"},
     buyer |-> {1, 2}, buyerCount |-> {1, 2},
     partyType |-> {"individual", "organization"},
     salutation |-> {"ok", "absent"}, birthDate |-> {"ok", "absent"},
     name |-> {"ok", "absent", "spaces", "bad"},
     address |-> {"ok", "absent", "bad"}, contacts |-> {"ok", "absent", "bad"},
     deliveryAddress |-> {"ok", "absent"}, dataBox |-> {"ok", "absent", "bad"},
     layout |-> {"ok", "absent"}, floorLabel |-> {"ok", "absent"},
     completionYear |-> {"ok", "absent"}, floorNumber |-> {1, 0},
     outdoor |-> SUBSET {"balcony", "terrace"}, garden |-> BOOLEAN,
     accessories |-> {Complete,
        {Cellar, Outdoor, [Garage EXCEPT !.n = 2]},
        {Cellar, Outdoor, [Garage EXCEPT !.n = Null, !.d = Null]},
        {Cellar, Garage, [Outdoor EXCEPT !.form = "none"]},
        {[Cellar EXCEPT !.place = "bad"], Outdoor, Garage},
        {Cellar, Outdoor, [Garage EXCEPT !.place = "absent"]}},
     plan |-> {"ok", "absent", "outOfRange"},
     appendices |-> {"selected", "missing", "archived"}, obligations |-> BOOLEAN,
     rs |-> {{1}, {}, {2}}, paid |-> {100, 90, 0}]

Facts == DOMAIN Domain

-----------------------------------------------------------------------------
(* Reading the facts                                                       *)

Sbk(s) == s.type = "sbk"
OriginalVariant(s) == s.variant \in {"original", "delivery"}

\* The legal rules of an original contract apply.
Original(s) == OriginalVariant(s) \/ Sbk(s)

SellerTexts == {"sellerName", "sellerEmail", "signatureName",
                "clientChangesAccount", "sellerDelivery"}
PersonTexts == {"salutation", "birthDate", "name"}

\* A text as it is loaded: no row of settings or of personal details, no text.
Text(s, f) ==
    IF \/ f \in SellerTexts /\ ~s.settings
       \/ f \in PersonTexts /\ s.partyType = "organization"
    THEN "absent" ELSE s[f]

Blank(text) == text \in {"absent", "spaces"}
Printable(text) == text \in {"ok", "notMailbox"}

Fee(s) == IF Sbk(s) /\ s.rs = {} THEN Null ELSE s.fee
Paid(s) == IF s.rs = {} THEN 0 ELSE s.paid

\* The stage of the newest version: "draft" and "sent" are the contract's status
\* while the version is a working one without a document, "approved" and "bound"
\* a version that was approved or has its document, "partlySigned" one that a
\* party has signed.  Dates and appendices are set in a working version.
WorkingVersion(s) == s.stage \in {"draft", "sent"} /\ s.active

\* The payment obligation of the contract, or the frozen terms, carry it.
VariableSymbol(s, t) == t # NoTerms \/ s.obligations

Kind(a) ==
    CASE a.category = "cellar" /\ a.form = "cellar_unit" -> "cellar"
      [] a.category \in {"parking", "garage"} /\ a.form = "garage_coownership" -> "garage"
      [] a.category = "parking" /\ a.form = "outdoor_parking_use_right" -> "outdoor"
      [] OTHER -> "none"

OfKind(s, kind) == {a \in s.accessories : Kind(a) = kind}
Only(s, kind) == Cardinality(OfKind(s, kind)) = 1
Place(s, kind) == (CHOOSE a \in OfKind(s, kind) : TRUE).place

\* The share printed in the text of the variant.
ShareAgrees(s, a) ==
    IF Sbk(s) THEN a.n = 1 /\ a.d = 25 ELSE a.n \in {Null, 1}

AccessoryFaults(s) ==
    {a \in s.accessories :
        Kind(a) = "none" \/ (Kind(a) = "garage" /\ ~ShareAgrees(s, a))}

-----------------------------------------------------------------------------
(* Payment terms                                                           *)

\* originalPaymentPlan: the amounts of the rows, or <<>> where it throws.
PaymentPlan(type, price, fee, paid) ==
    LET first == (price * 20 + 50) \div 100
        final == price - first - paid
    IN IF fee <= 0 THEN <<>>
       ELSE IF type = "rs" THEN <<fee>>
       ELSE IF price <= 0 \/ paid # fee \/ first <= 0 \/ final < 0 THEN <<>>
       ELSE <<first, final>>

CurrentPlan(s) == PaymentPlan(s.type, s.price, Fee(s), Paid(s))

\* signaturePaymentTerms: the stored rows are those of the stored amounts.
Intact(t) ==
    /\ t # NoTerms
    /\ t.symbol \in Numeric
    /\ t.type = "rs" => t.paid = 0
    /\ t.rows # <<>> /\ t.rows = PaymentPlan(t.type, t.price, t.fee, t.paid)

\* Mutant: the terms of another buyer are taken for this contract's.
TermsOfAnyBuyer(s, t) ==
    /\ Intact(t)
    /\ t.type = s.type /\ t.price = s.price /\ t.fee = Fee(s)
    /\ t.type = "sbk" => t.paid = Paid(s) /\ {t.rs} = s.rs

ValidPaymentTerms(s, t) ==
    /\ Intact(t)
    /\ t.type = s.type /\ t.price = s.price /\ t.fee = Fee(s)
    /\ t.buyer = s.buyer /\ s.buyerCount = 1
    /\ t.type = "sbk" => t.paid = Paid(s) /\ {t.rs} = s.rs

-----------------------------------------------------------------------------
(* Readiness.  An issue names the fact the user is sent to.                *)

If(condition, code, fact) ==
    IF condition THEN {[code |-> code, fact |-> fact]} ELSE {}

OriginalContractIssues(s, t) == UNION {
    If(s.price # Null /\ s.price <= 0, "contract_price", "price"),
    If(Fee(s) # Null /\ (Fee(s) <= 0 \/ (s.price > 0 /\ Fee(s) > s.price)),
       "contract_fee", "fee"),
    UNION {If(Blank(Text(s, f)), "seller_field", f) :
       f \in IF Sbk(s) THEN {"signatureName", "clientChangesAccount", "sellerDelivery"}
                       ELSE {"signatureName"}},
    If(s.floorNumber < 1, "unit_floor_number", "floorNumber"),
    If(Cardinality(s.outdoor) # 1, "outdoor_space_variant", "outdoor"),
    If(~s.garden, "garden_variant", "garden"),
    UNION {If(~Only(s, kind), "accessory_variant", "accessories") :
       kind \in {"cellar", "garage", "outdoor"}},
    UNION {If(Only(s, kind) /\ Blank(Place(s, kind)), "accessory_floor", "accessories") :
       kind \in {"cellar", "garage"}},
    If(AccessoryFaults(s) # {}, "accessory_legal_basis", "accessories"),
    If(s.plan = "absent", "planned_signing_dates", "plan"),
    If(~VariableSymbol(s, t), "payment_reference", "terms"),
    If(Sbk(s) /\ Blank(s.deliveryAddress), "buyer_delivery_address", "deliveryAddress"),
    If(Sbk(s) /\ Cardinality(s.rs) # 1, "signed_rs", "rs"),
    If(Sbk(s) /\ (Paid(s) = 0 \/ Paid(s) # Fee(s)), "reservation_fee_paid", "paid")}

\* Which contracts a catalogue exists for, and is released.
Supported(s) ==
    IF Sbk(s) THEN s.variant = "delivery" ELSE s.variant \in {"default", "original"}

\* The rules of every contract, and of the original or of the older text.
FactIssues(s, t) == UNION {
    If(t # NoTerms /\ ~OriginalVariant(s), "payment_terms_template_mismatch", "variant"),
    If(~s.active, "closed_case", "active"),
    If(~s.settings, "seller_settings", "settings"),
    If(s.variant = "none", "approved_template", "variant"),
    If(s.variant # "none" /\ s.approval = "draft", "approved_template", "approval"),
    If(s.variant # "none" /\ s.approval = "several", "ambiguous_template", "approval"),
    If(s.buyerCount # 1, "buyer_count", "buyerCount"),
    If(s.partyType # "individual", "buyer_type", "partyType"),
    UNION {If(Text(s, f) = "absent", "buyer_fact", f) :
       f \in {"salutation", "name", "birthDate", "address", "contacts"}},
    If(s.layout = "absent", "unit_layout", "layout"),
    If(s.price = Null, "price", "price"),
    If(Fee(s) = Null, "reservation_fee", IF Sbk(s) /\ s.rs = {} THEN "rs" ELSE "fee"),
    If(\E a \in s.accessories : a.category = "wallbox", "unsupported_wallbox", "accessories"),
    IF Original(s)
    THEN UNION {
       If(OriginalVariant(s) /\ s.appendices # "selected", "contract_appendix", "appendices"),
       If(~OriginalVariant(s) /\ s.appendices # "missing",
          "contract_appendix_unexpected", "variant"),
       OriginalContractIssues(s, t),
       If(~ValidPaymentTerms(s, t), "contract_payment_terms", "terms"),
       If(~Supported(s), "original_profile_review", "variant")}
    ELSE UNION {
       If(s.floorLabel = "absent", "unit_floor", "floorLabel"),
       If("terrace" \in s.outdoor, "unsupported_terrace", "outdoor"),
       If(s.completionYear = "absent", "completion_year", "completionYear")}}

\* buildOriginalContractSnapshot: the first fact it cannot print, "plan" where
\* the payment plan throws, or "built".  It reads the facts on its own.
Snapshot(s, t) ==
    LET Fails(check) == check[2]
        Unprintable(f) == <<f, ~Printable(Text(s, f))>>
        common == <<
          <<"settings", ~s.settings>>,
          <<"partyType", s.buyerCount # 1 \/ s.partyType # "individual">>,
          <<"salutation", Text(s, "salutation") # "ok">>,
          <<"floorNumber", s.floorNumber < 1>>,
          <<"outdoor", Cardinality(s.outdoor) # 1>>, <<"garden", ~s.garden>>,
          <<"accessories", AccessoryFaults(s) # {}
             \/ \E kind \in {"cellar", "garage", "outdoor"} : ~Only(s, kind)>>,
          <<"price", s.price <= 0>>, <<"fee", Fee(s) <= 0 \/ Fee(s) > s.price>>,
          <<"plan", s.plan # "ok">>,
          Unprintable("sellerName"), Unprintable("sellerEmail"),
          Unprintable("signatureName"), Unprintable("name"), Unprintable("address"),
          Unprintable("birthDate"), Unprintable("contacts"),
          <<"accessories", \E kind \in {"cellar", "garage"} : ~Printable(Place(s, kind))>>,
          <<"terms", ~VariableSymbol(s, t)>>,
          <<"sellerEmail", Text(s, "sellerEmail") # "ok">> >>
        sbk == <<
          <<"rs", Cardinality(s.rs) # 1>>, <<"paid", Paid(s) <= 0>>,
          <<"throws", CurrentPlan(s) = <<>> >>,
          Unprintable("deliveryAddress"), Unprintable("clientChangesAccount"),
          <<"sellerDelivery", s.variant = "delivery"
             /\ ~Printable(Text(s, "sellerDelivery"))>> >>
        rs == << <<"dataBox", s.dataBox = "bad">> >>
        failed == SelectSeq(common \o IF Sbk(s) THEN sbk ELSE rs, Fails)
    IN IF failed = <<>> THEN "built" ELSE failed[1][1]

\* Gates that are closed by others; the facts are tried without them.
IndependentGates == {"approved_template", "ambiguous_template",
    "original_profile_review", "contract_payment_terms", "contract_appendix"}

Preflighted(s, t) ==
    OriginalVariant(s) /\ \A i \in FactIssues(s, t) : i.code \in IndependentGates

InvalidValue(s, t) ==
    If(Preflighted(s, t) /\ Snapshot(s, t) \notin {"built", "throws"},
       "invalid_contract_value", Snapshot(s, t))

Issues(s, t) == FactIssues(s, t) \union InvalidValue(s, t)

\* OriginalPaymentPlanError is not caught: the check fails instead of answering.
Unanswered(s, t) == Preflighted(s, t) /\ Snapshot(s, t) = "throws"

Ready(s, t) == Issues(s, t) = {} /\ ~Unanswered(s, t)

-----------------------------------------------------------------------------
(* Freezing the terms                                                      *)

\* What the command asks of the facts, and preparePaymentTerms of the variant.
Payable(s) ==
    /\ OriginalVariant(s) /\ s.active /\ ~s.obligations
    /\ s.buyerCount = 1 /\ s.price > 0 /\ Fee(s) > 0
    /\ IF Sbk(s) THEN /\ Cardinality(s.rs) = 1 /\ Paid(s) = Fee(s)
                      /\ CurrentPlan(s) # <<>>
                 ELSE Fee(s) <= s.price

\* Mutant: the symbol of a unit whose code is no number is frozen.
MayPrepareAnyUnit(s, t) == s.stage = "draft" /\ t = NoTerms /\ Payable(s)

\* prepare_signature_payment_terms: a draft whose newest version is a working one,
\* nobody has signed, nothing is prepared, and the unit's code is a number.
MayPrepare(s, t) ==
    s.stage = "draft" /\ t = NoTerms /\ Payable(s) /\ s.code \in Numeric

PaymentTerms(s, symbol) ==
    [type |-> s.type, price |-> s.price, fee |-> Fee(s),
     paid |-> IF Sbk(s) THEN Paid(s) ELSE 0, buyer |-> s.buyer, symbol |-> symbol,
     rs |-> IF Sbk(s) THEN CHOOSE r \in s.rs : TRUE ELSE 0, rows |-> CurrentPlan(s)]

\* A new version inherits terms with the unit's code; it drops an obsolete symbol.
Inherited(s, t) == IF t # NoTerms /\ t.symbol = s.code THEN t ELSE NoTerms

-----------------------------------------------------------------------------
(* Actions                                                                 *)

\* Price, fee and accessories a contract was drawn up with; the last one is a
\* legacy draft without any of them.
Starts == {<<1003, 100, Complete>>, <<110, 100, Complete>>, <<100, 200, Complete>>,
           <<1003, Null, Complete>>, <<1003, 100, Complete \ {Cellar}>>,
           <<1003, 100, Complete \union {Wallbox}>>, <<Null, Null, {}>>}

\* The accessories sold, whatever their rights.
Sold(accessories) == {a.category : a \in accessories}

\* The start whose amounts are met by every kind of unit and of terms.
Usual == <<1003, 100, Complete>>

Init ==
    /\ \E type \in Domain.type, variant \in Domain.variant, start \in Starts, code \in Codes :
        /\ variant = "delivery" => type = "sbk"
        /\ variant = "default" => type = "rs"
        /\ code \in Numeric \/ start = Usual
        /\ source = [type |-> type, active |-> TRUE, variant |-> variant,
             approval |-> "approved", settings |-> TRUE, sellerName |-> "ok",
             sellerEmail |-> "ok", signatureName |-> "ok",
             clientChangesAccount |-> "ok", sellerDelivery |-> "ok",
             buyer |-> 1, buyerCount |-> 1, partyType |-> "individual",
             salutation |-> "ok", birthDate |-> "ok", name |-> "ok",
             address |-> "ok", contacts |-> "ok", deliveryAddress |-> "ok",
             dataBox |-> "ok", layout |-> "ok", floorLabel |-> "ok",
             completionYear |-> "ok", floorNumber |-> 1,
             outdoor |-> {"balcony"}, garden |-> TRUE,
             accessories |-> start[3], plan |-> "ok", appendices |-> "missing",
             obligations |-> FALSE, rs |-> IF type = "sbk" THEN {1} ELSE {},
             paid |-> 100, price |-> start[1], fee |-> start[2],
             code |-> code, stage |-> "draft", later |-> FALSE, evidence |-> FALSE]
    /\ \/ terms = NoTerms
       \/ Payable(source) /\ terms = PaymentTerms(source, OldSymbol)
    /\ edits = 0

\* Somebody changes a fact elsewhere: the unit, the buyer, the project, the
\* template, a payment, the reservation contract, the rights of an accessory.
Edit(f, value) ==
    /\ edits < MaxEdits
    /\ f # "type" /\ value # source[f]
    /\ f = "accessories" => Sold(value) = Sold(source.accessories)
    /\ f = "variant" => (value = "delivery" => Sbk(source)) /\ (value = "default" => ~Sbk(source))
    /\ f = "rs" => Sbk(source) /\ value # {1}
    /\ f = "active" => ~value
    /\ f = "obligations" => value
    /\ f = "plan" => WorkingVersion(source)
    /\ f = "appendices" => IF value = "archived" THEN source.appendices = "selected"
                                                ELSE WorkingVersion(source)
    /\ source' = [source EXCEPT ![f] = value]
    /\ edits' = edits + 1
    /\ UNCHANGED terms

\* A version after the newest one: it has no document, dates or appendices yet
\* and needs a new approval.  Refused as soon as a party has signed.  What the
\* older versions leave behind is evidence of a contract that was worked on.
NewVersion(stage) ==
    /\ source.stage # "partlySigned"
    /\ source' = [source EXCEPT !.stage = stage, !.plan = "absent", !.appendices = "missing",
         !.later = TRUE,
         !.evidence = @ \/ source.stage = "bound" \/ source.appendices # "missing"]
    /\ terms' = Inherited(source, terms)

CreateVersion ==
    /\ edits < MaxEdits
    /\ NewVersion("draft")
    /\ edits' = edits + 1

\* transition_contract_status, and the signature of one of several parties.
Advance(stage) ==
    /\ edits < MaxEdits /\ source.active
    /\ \/ source.stage = "draft" /\ stage = "sent"
       \/ source.stage = "sent" /\ stage = "approved"
       \/ source.stage = "bound" /\ stage = "partlySigned"
    /\ source' = [source EXCEPT !.stage = stage]
    /\ edits' = edits + 1
    /\ UNCHANGED terms

\* A generated document, or an external one for the first version, becomes the
\* document of the version itself; any other external one makes a version.
BindDocument ==
    /\ edits < MaxEdits
    /\ \/ /\ source.stage \notin {"bound", "partlySigned"}
          /\ source' = [source EXCEPT !.stage = "bound"]
          /\ UNCHANGED terms
       \/ (source.later \/ source.stage = "bound") /\ NewVersion("bound")
    /\ edits' = edits + 1

\* A draft of the time before prices were kept: nothing agreed, nothing done.
LegacyPreparable(s, t) ==
    /\ s.type = "rs" /\ s.active
    /\ s.stage \in {"draft", "sent", "approved"} /\ ~s.evidence
    /\ s.price = Null /\ s.fee = Null /\ s.accessories = {}
    /\ t = NoTerms /\ ~s.obligations /\ s.appendices = "missing"

\* The user agrees the price, the accessories and the fee of a legacy draft, in a
\* version of their own.
PrepareLegacyRs ==
    /\ LegacyPreparable(source, terms)
    /\ source' = [source EXCEPT !.price = 1003, !.fee = 100, !.accessories = Complete,
                                   !.stage = "draft", !.plan = "absent", !.later = TRUE]
    /\ UNCHANGED terms

\* The terms are frozen in the newest version.
PreparePaymentTerms ==
    /\ MayPrepare(source, terms)
    /\ terms' = PaymentTerms(source, source.code)
    /\ UNCHANGED source

\* Where an issue leads to, and what is right there.
Corrected(s, fact) ==
    CASE fact = "variant" -> IF Sbk(s) THEN "delivery" ELSE "original"
      [] fact = "rs" -> {2}
      [] fact = "paid" -> Fee(s)
      [] fact = "outdoor" -> {"balcony"}
      [] fact = "accessories" ->
           IF Sold(s.accessories) = Sold(Complete) THEN Complete ELSE s.accessories
      [] fact = "floorNumber" -> 1
      [] fact = "approval" -> "approved"
      [] fact = "partyType" -> "individual"
      [] fact = "buyerCount" -> 1
      [] fact = "appendices" -> "selected"
      [] fact \in {"settings", "garden"} -> TRUE
      [] OTHER -> "ok"

\* The user corrects the fact an issue names.  The type of the contract, what was
\* agreed and what is closed cannot be corrected; terms have a command of their own.
Repair(i) ==
    /\ i.fact \notin {"type", "active", "price", "fee", "terms"}
    /\ i.fact \in {"plan", "appendices"} => WorkingVersion(source)
    /\ i.fact = "paid" => source.rs # {} /\ Fee(source) # Null
    /\ source' = [source EXCEPT ![i.fact] = Corrected(source, i.fact)]
    /\ source' # source
    /\ UNCHANGED terms

\* The user makes a new version where only that helps: for dates or appendices of
\* a version that is closed, and for terms that are obsolete or need a draft.
Reopen(i) ==
    /\ \/ i.fact \in {"plan", "appendices"} /\ ~WorkingVersion(source)
       \/ i.fact = "terms" /\ IF terms = NoTerms THEN source.stage # "draft"
                                                ELSE terms.symbol # source.code
    /\ NewVersion("draft")

\* What the user does until the contract is ready, in whatever order.
Correct ==
    /\ UNCHANGED edits
    /\ \/ PrepareLegacyRs
       \/ PreparePaymentTerms
       \/ \E i \in Issues(source, terms) : Repair(i) \/ Reopen(i)

Next ==
    \/ \E f \in Facts : \E value \in Domain[f] : Edit(f, value)
    \/ CreateVersion
    \/ \E stage \in {"sent", "approved", "partlySigned"} : Advance(stage)
    \/ BindDocument
    \/ Correct

Spec == Init /\ [][Next]_vars

FairSpec == Spec /\ WF_vars(Correct)

-----------------------------------------------------------------------------
(* Properties                                                              *)

\* A contract without an issue can be printed, with the terms frozen for this
\* very buyer and predecessor, and the installments of an SBK add up to its
\* price: readiness accepts nothing the mapper or the signature would refuse
\* (validate and its preflight, rs-generation-service.ts).
ReadyIsPrintable ==
    Ready(source, terms) /\ Original(source) =>
        /\ Snapshot(source, terms) = "built"
        /\ terms.rows = CurrentPlan(source) /\ terms.buyer = source.buyer
        /\ Sbk(source) => /\ {terms.rs} = source.rs
                          /\ terms.rows[1] + terms.rows[2] + Paid(source) = source.price

\* The contract cannot be prepared any further, most often because it must be
\* cancelled and drawn up anew: its case is closed, a party has signed it, what was
\* sold or agreed is not what its variant describes, or its terms are frozen for another
\* buyer or reservation contract in every version to come, or cannot be frozen at all,
\* for there are obligations or the code of the unit is no number.
DeadEnd ==
    \/ ~source.active
    \/ source.stage = "partlySigned"
    \/ Original(source) /\ terms = NoTerms
          /\ (source.obligations \/ source.code \notin Numeric)
    \/ Original(source) /\ Inherited(source, terms) # NoTerms
          /\ (terms.buyer # source.buyer \/ (Sbk(source) /\ {terms.rs} # source.rs))
    \/ Sbk(source) /\ Fee(source) > 0 /\ PaymentPlan("sbk", source.price, Fee(source), Fee(source)) = <<>>
    \/ ~LegacyPreparable(source, terms)
       /\ \E i \in Issues(source, terms) :
             \/ i.fact \in {"price", "fee"}
             \/ i.fact = "accessories" /\ Sold(source.accessories) # Sold(Complete)

\* Whoever corrects what readiness reports gets a contract that is ready: no
\* issue names the wrong fact, hides another for ever or comes back, and every
\* value the mapper refuses is reported (validate, issueAction).
RepairsLeadToReady == <>[](Ready(source, terms) \/ DeadEnd)

=============================================================================
