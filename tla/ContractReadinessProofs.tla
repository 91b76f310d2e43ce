----------------------- MODULE ContractReadinessProofs -----------------------
(***************************************************************************)
(* Theorems about the preparation of a draft contract, for any number of   *)
(* changes of its facts: what readiness accepts can be printed, and the    *)
(* terms frozen in a version stay what they were calculated from.          *)
(***************************************************************************)
EXTENDS ContractReadiness, TLAPS

\* The facts the amounts of a contract are calculated from.
SourceInvariant ==
    /\ {"type", "price", "fee", "paid"} \subseteq DOMAIN source
    /\ source.type \in {"rs", "sbk"}
    /\ source.price \in Int /\ source.fee \in Int /\ source.paid \in Int

LEMMA Domains ==
  /\ Domain.type = {"rs", "sbk"} /\ Domain.paid = {100, 90, 0}
  /\ "price" \notin Facts /\ "fee" \notin Facts
<1>1. Domain.type = {"rs", "sbk"} /\ Domain.paid = {100, 90, 0}
  BY DEF Domain
<1>2. "price" \notin Facts /\ "fee" \notin Facts
  BY DEF Facts, Domain
<1> QED BY <1>1, <1>2

LEMMA InitSource == Init => SourceInvariant
<1> SUFFICES ASSUME Init PROVE SourceInvariant
  OBVIOUS
<1>1. PICK type \in {"rs", "sbk"}, start \in Starts :
        /\ source.type = type /\ source.price = start[1] /\ source.fee = start[2]
        /\ source.paid = 100
        /\ {"type", "price", "fee", "paid"} \subseteq DOMAIN source
  BY Domains DEF Init
<1>2. start[1] \in Int /\ start[2] \in Int
  BY DEF Starts, Null
<1> QED BY <1>1, <1>2 DEF SourceInvariant

LEMMA FactChanged ==
  ASSUME SourceInvariant, NEW f, NEW value, source' = [source EXCEPT ![f] = value],
         f \notin {"type", "price", "fee"}, f = "paid" => value \in Int
  PROVE  SourceInvariant' /\ source'.type = source.type
BY DEF SourceInvariant

LEMMA SourceKept ==
  ASSUME SourceInvariant, [Next]_vars
  PROVE  SourceInvariant' /\ source'.type = source.type
<1>1. ASSUME NEW f \in Facts, NEW value \in Domain[f], Edit(f, value)
      PROVE  SourceInvariant' /\ source'.type = source.type
  <2>1. f \notin {"type", "price", "fee"} /\ (f = "paid" => value \in Int)
    BY <1>1, Domains DEF Edit
  <2>2. source' = [source EXCEPT ![f] = value]
    BY <1>1 DEF Edit
  <2> QED BY <2>1, <2>2, FactChanged
<1>2. ASSUME NEW stage, NewVersion(stage) PROVE SourceInvariant' /\ source'.type = source.type
  BY <1>2 DEF NewVersion, SourceInvariant
<1>3. ASSUME NEW stage, Advance(stage) PROVE SourceInvariant' /\ source'.type = source.type
  BY <1>3 DEF Advance, SourceInvariant
<1>4. CASE CreateVersion
  BY <1>2, <1>4 DEF CreateVersion
<1>5. CASE BindDocument
  <2>1. CASE source' = [source EXCEPT !.stage = "bound"]
    BY <2>1 DEF SourceInvariant
  <2> QED BY <1>2, <1>5, <2>1 DEF BindDocument
<1>6. CASE PrepareLegacyRs
  BY <1>6 DEF PrepareLegacyRs, SourceInvariant
<1>7. CASE UNCHANGED source
  BY <1>7 DEF SourceInvariant
<1>8. ASSUME NEW i, Repair(i) PROVE SourceInvariant' /\ source'.type = source.type
  <2>1. i.fact \notin {"type", "price", "fee"}
    BY <1>8 DEF Repair
  <2>2. i.fact = "paid" => Corrected(source, i.fact) \in Int
    BY <1>8 DEF Corrected, Fee, Null, SourceInvariant
  <2>3. source' = [source EXCEPT ![i.fact] = Corrected(source, i.fact)]
    BY <1>8 DEF Repair
  <2> QED BY <2>1, <2>2, <2>3, FactChanged
<1>9. CASE Correct
  <2>1. ASSUME NEW i, Reopen(i) PROVE NewVersion("draft")
    BY <2>1 DEF Reopen
  <2> QED BY <1>2, <1>6, <1>7, <1>8, <1>9, <2>1 DEF Correct, PreparePaymentTerms
<1> QED BY <1>1, <1>3, <1>4, <1>5, <1>7, <1>9 DEF Next, vars

-----------------------------------------------------------------------------
(* What a contract without an issue has                                    *)

LEMMA NoIssue ==
  ASSUME NEW condition \in BOOLEAN, NEW code, NEW fact
  PROVE  (If(condition, code, fact) = {}) <=> ~condition
BY DEF If

\* A readiness check without issues has none of the facts of the contract, and
\* none of the mapper.
LEMMA WithoutIssues ==
  ASSUME NEW s, NEW t, Ready(s, t)
  PROVE  FactIssues(s, t) = {} /\ InvalidValue(s, t) = {} /\ ~Unanswered(s, t)
BY DEF Ready, Issues

\* Only a contract whose variant has a released catalogue is without issues,
\* and the terms of its version are those of its facts.
LEMMA OriginalAccepted ==
  ASSUME NEW s, NEW t, FactIssues(s, t) = {}, Original(s)
  PROVE  Supported(s) /\ ValidPaymentTerms(s, t)
<1>1. UNION {
         If(OriginalVariant(s) /\ s.appendices # "selected", "contract_appendix", "appendices"),
         If(~OriginalVariant(s) /\ s.appendices # "missing",
            "contract_appendix_unexpected", "variant"),
         OriginalContractIssues(s, t),
         If(~ValidPaymentTerms(s, t), "contract_payment_terms", "terms"),
         If(~Supported(s), "original_profile_review", "variant")} = {}
  BY ZenonT(60) DEF FactIssues
<1>2. /\ If(~ValidPaymentTerms(s, t), "contract_payment_terms", "terms") = {}
      /\ If(~Supported(s), "original_profile_review", "variant") = {}
  BY <1>1
<1>3. (~ValidPaymentTerms(s, t)) \in BOOLEAN /\ (~Supported(s)) \in BOOLEAN
  OBVIOUS
<1> QED BY <1>2, <1>3, NoIssue

LEMMA SupportedIsOriginal ==
  ASSUME NEW s, Supported(s), Original(s) PROVE OriginalVariant(s)
BY DEF Supported, Original, OriginalVariant

\* The mapper was tried, and built the contract.
LEMMA ReadyIsBuilt ==
  ASSUME NEW s, NEW t, Ready(s, t), Original(s) PROVE Snapshot(s, t) = "built"
<1>1. Preflighted(s, t)
  BY WithoutIssues, OriginalAccepted, SupportedIsOriginal DEF Preflighted
<1>2. Snapshot(s, t) \in {"built", "throws"}
  BY <1>1, WithoutIssues, NoIssue DEF InvalidValue
<1>3. Snapshot(s, t) # "throws"
  BY <1>1, WithoutIssues DEF Unanswered
<1> QED BY <1>2, <1>3

-----------------------------------------------------------------------------
(* The payment plan                                                        *)

\* The plan of a reservation contract does not depend on what was paid.
LEMMA PlanOfReservation ==
  ASSUME NEW price, NEW fee, NEW p, NEW q
  PROVE  PaymentPlan("rs", price, fee, p) = PaymentPlan("rs", price, fee, q)
BY DEF PaymentPlan

\* The installments of an SBK and what is paid of its fee add up to the price.
LEMMA InstallmentsAddUp ==
  ASSUME NEW price \in Int, NEW fee \in Int, NEW paid \in Int,
         PaymentPlan("sbk", price, fee, paid) # <<>>
  PROVE  LET rows == PaymentPlan("sbk", price, fee, paid)
         IN  rows[1] + rows[2] + paid = price
<1> DEFINE first == (price * 20 + 50) \div 100
           final == price - first - paid
<1>1. first \in Int /\ final \in Int
  OBVIOUS
<1>2. PaymentPlan("sbk", price, fee, paid) = <<first, final>>
  BY DEF PaymentPlan
<1> HIDE DEF first
<1>3. <<first, final>>[1] = first /\ <<first, final>>[2] = final
  OBVIOUS
<1> QED BY <1>1, <1>2, <1>3

\* The frozen rows are those calculated from the facts of the contract.
LEMMA RowsAreCurrent ==
  ASSUME NEW s, NEW t, s.type \in {"rs", "sbk"}, ValidPaymentTerms(s, t)
  PROVE  t.rows = CurrentPlan(s) /\ t.rows # <<>>
<1>1. /\ t.rows = PaymentPlan(t.type, t.price, t.fee, t.paid) /\ t.rows # <<>>
      /\ t.type = s.type /\ t.price = s.price /\ t.fee = Fee(s)
      /\ t.type = "sbk" => t.paid = Paid(s)
  BY DEF ValidPaymentTerms, Intact
<1>2. CASE s.type = "rs"
  BY <1>1, <1>2, PlanOfReservation DEF CurrentPlan
<1>3. CASE s.type = "sbk"
  BY <1>1, <1>3 DEF CurrentPlan
<1> QED BY <1>2, <1>3

-----------------------------------------------------------------------------
(* Readiness                                                               *)

LEMMA SourceAlways == Spec => []SourceInvariant
<1>1. SourceInvariant /\ [Next]_vars => SourceInvariant'
  BY SourceKept
<1> QED BY InitSource, <1>1, PTL DEF Spec

LEMMA SourcePrintable == SourceInvariant => ReadyIsPrintable
<1> SUFFICES ASSUME SourceInvariant, Ready(source, terms), Original(source)
             PROVE  /\ Snapshot(source, terms) = "built"
                    /\ terms.rows = CurrentPlan(source) /\ terms.buyer = source.buyer
                    /\ Sbk(source) =>
                         /\ {terms.rs} = source.rs
                         /\ terms.rows[1] + terms.rows[2] + Paid(source) = source.price
  BY DEF ReadyIsPrintable
<1>1. ValidPaymentTerms(source, terms)
  BY WithoutIssues, OriginalAccepted
<1>2. terms.rows = CurrentPlan(source) /\ terms.rows # <<>>
  BY <1>1, RowsAreCurrent DEF SourceInvariant
<1>3. terms.buyer = source.buyer
  BY <1>1 DEF ValidPaymentTerms
<1>4. ASSUME Sbk(source)
      PROVE  /\ {terms.rs} = source.rs
             /\ terms.rows[1] + terms.rows[2] + Paid(source) = source.price
  <2>1. source.price \in Int /\ Fee(source) \in Int /\ Paid(source) \in Int
    BY DEF SourceInvariant, Fee, Paid, Null
  <2>2. terms.rows = PaymentPlan("sbk", source.price, Fee(source), Paid(source))
    BY <1>2, <1>4 DEF CurrentPlan, Sbk
  <2>3. {terms.rs} = source.rs
    BY <1>1, <1>4 DEF ValidPaymentTerms, Sbk
  <2> QED BY <1>2, <2>1, <2>2, <2>3, InstallmentsAddUp
<1> QED BY <1>2, <1>3, <1>4, ReadyIsBuilt

\* What readiness accepts can be printed and signed: the mapper builds the
\* contract, the frozen terms are of this buyer and predecessor, and the
\* installments add up to the price (validate, rs-generation-service.ts).
THEOREM ReadyIsPrintableCorrect == Spec => []ReadyIsPrintable
BY SourceAlways, SourcePrintable, PTL

-----------------------------------------------------------------------------
(* Frozen terms                                                            *)

\* Whatever is changed after the terms are frozen, the signature finds them
\* whole: for the contract's type, with rows, and with the rows that their own
\* amounts give (prepare_signature_payment_terms, signaturePaymentTerms).
TermsHold == terms # NoTerms => Intact(terms) /\ terms.type = source.type

\* A plan is calculated wherever the terms may be frozen.
LEMMA PreparedIsIntact ==
  ASSUME SourceInvariant, Payable(source), NEW symbol \in Numeric
  PROVE  /\ Intact(PaymentTerms(source, symbol))
         /\ PaymentTerms(source, symbol).type = source.type
<1> DEFINE t == PaymentTerms(source, symbol)
<1>1. /\ t.type = source.type /\ t.price = source.price /\ t.symbol = symbol
      /\ t.fee = Fee(source) /\ t.rows = CurrentPlan(source)
      /\ t.paid = IF Sbk(source) THEN Paid(source) ELSE 0
  BY DEF PaymentTerms
<1>2. t.type # "none" /\ NoTerms.type = "none"
  BY <1>1 DEF SourceInvariant, NoTerms
<1> HIDE DEF t
<1>3. CASE source.type = "rs"
  <2>1. /\ t.paid = 0 /\ Fee(source) > 0
        /\ t.rows = PaymentPlan("rs", source.price, Fee(source), t.paid)
    BY <1>1, <1>3, PlanOfReservation DEF Sbk, Payable, CurrentPlan
  <2>2. Fee(source) \in Int
    BY DEF SourceInvariant, Fee, Null
  <2>3. t.rows = <<Fee(source)>>
    BY <2>1, <2>2 DEF PaymentPlan
  <2>4. t.rows # <<>>
    BY <2>3
  <2>5. Intact(t)
    BY <1>1, <1>2, <1>3, <2>1, <2>4 DEF Intact
  <2> QED BY <1>1, <2>5 DEF t
<1>4. CASE source.type = "sbk"
  <2>1. t.paid = Paid(source) /\ CurrentPlan(source) # <<>>
    BY <1>1, <1>4 DEF Sbk, Payable
  <2>2. t.rows = PaymentPlan("sbk", source.price, Fee(source), t.paid)
    BY <1>1, <1>4, <2>1 DEF CurrentPlan
  <2>3. Intact(t)
    BY <1>1, <1>2, <1>4, <2>1, <2>2 DEF Intact
  <2> QED BY <1>1, <2>3 DEF t
<1> QED BY <1>3, <1>4 DEF SourceInvariant

\* No step writes terms but the preparation; a new version inherits or drops them.
LEMMA TermsMove ==
  ASSUME [Next]_vars
  PROVE  \/ terms' = terms \/ terms' = NoTerms
         \/ /\ Payable(source) /\ source.code \in Numeric
            /\ terms' = PaymentTerms(source, source.code)
<1>1. ASSUME NEW stage, NewVersion(stage) PROVE terms' = terms \/ terms' = NoTerms
  BY <1>1 DEF NewVersion, Inherited
<1>2. CASE PreparePaymentTerms
  BY <1>2 DEF PreparePaymentTerms, MayPrepare
<1>3. CASE CreateVersion \/ BindDocument
  BY <1>1, <1>3 DEF CreateVersion, BindDocument
<1>4. CASE Correct
  <2>1. ASSUME NEW i, Reopen(i) PROVE NewVersion("draft")
    BY <2>1 DEF Reopen
  <2> QED BY <1>1, <1>2, <1>4, <2>1 DEF Correct, PrepareLegacyRs, Repair
<1> QED BY <1>3, <1>4 DEF Next, Edit, Advance, vars

LEMMA TermsHeld ==
  ASSUME SourceInvariant, TermsHold, [Next]_vars PROVE TermsHold'
<1>1. source'.type = source.type
  BY SourceKept
<1>2. CASE terms' = terms \/ terms' = NoTerms
  BY <1>1, <1>2 DEF TermsHold
<1>3. CASE /\ Payable(source) /\ source.code \in Numeric
           /\ terms' = PaymentTerms(source, source.code)
  BY <1>1, <1>3, PreparedIsIntact DEF TermsHold
<1> QED BY <1>2, <1>3, TermsMove

\* A contract of the time before may start with terms of its own.
LEMMA InitTerms == Init => TermsHold
<1> SUFFICES ASSUME Init PROVE TermsHold
  OBVIOUS
<1>1. \/ terms = NoTerms
      \/ Payable(source) /\ terms = PaymentTerms(source, OldSymbol)
  BY DEF Init
<1>2. OldSymbol \in Numeric
  BY DEF Numeric
<1> QED BY <1>1, <1>2, InitSource, PreparedIsIntact DEF TermsHold

THEOREM FrozenTermsHold == Spec => []TermsHold
<1>1. Init => TermsHold
  BY InitTerms
<1>2. SourceInvariant /\ TermsHold /\ [Next]_vars => TermsHold'
  BY TermsHeld
<1> QED BY SourceAlways, <1>1, <1>2, PTL DEF Spec
=============================================================================
