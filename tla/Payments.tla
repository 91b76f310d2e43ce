------------------------------ MODULE Payments ------------------------------
(***************************************************************************)
(* The money of a sale: obligations, received payments, their reversals,   *)
(* the terms an RS and an SBK create at their signature, and the refund    *)
(* decisions taken when a contract ends.                                   *)
(*                                                                         *)
(* Two units: the sold one, whose contracts are modelled, and a second one *)
(* with an obligation of its own, because the lock that serializes the     *)
(* commands is the lock of one unit.  record_payment runs in steps, and a  *)
(* reversal, which takes no unit lock, may come between them.  The other   *)
(* commands of the sold unit hold its lock from their first read to the    *)
(* end of their transaction and are one step.                              *)
(*                                                                         *)
(* An amount is a number of halere; 0 stands for an obligation that does   *)
(* not exist.  No command cancels an obligation.                           *)
(***************************************************************************)
EXTENDS Integers, Sequences, FiniteSets, FiniteSetsExt

CONSTANTS
    Sessions,    \* connections of the API that record payments
    Requests,    \* payments that clients ask to record, each any number of times
    Ask,         \* the contents of a request: obligation, amount, key, bank id
    NoId,        \* no idempotency key, no bank transaction id
    NoRequest,   \* the request of an idle session
    Price,       \* total_price_snapshot
    Fee,         \* reservation_fee_amount
    MaxTx        \* bound: received payments

Obligations == {"rs_fee", "sbk_first", "sbk_final", "extra", "other"}
Contracts   == {"rs", "sbk"}

\* "extra" is an obligation that a user adds to the SBK by hand.
ContractOf(o) == CASE o = "rs_fee" -> "rs"
                   [] o = "other"  -> "elsewhere"
                   [] OTHER        -> "sbk"
UnitOf(o) == IF o = "other" THEN "second" ELSE "sold"

ASSUME PaymentsAssumption ==
    /\ Price \in Nat /\ Fee \in 1 .. Price /\ MaxTx \in Nat
    /\ NoRequest \notin Requests
    /\ \A r \in Requests : /\ Ask[r].ob \in Obligations
                           /\ Ask[r].amount \in Nat \ {0}

VARIABLES
    amount,      \* payment_obligations.amount
    ledger,      \* payment_transactions with their one allocation, in order
    reversed,    \* payment_reversals
    answered,    \* requests answered with the number of a transaction
    session,     \* the sessions inside record_payment
    contract,    \* status of the RS and the SBK
    plan,        \* payment_terms_snapshot of the SBK
    caseActive,  \* the sales case is active
    decision     \* payment_refund_decisions.decided_amount

payVars == <<amount, ledger, reversed, answered, session, contract, plan,
             caseActive, decision>>

-----------------------------------------------------------------------------

NoDecision == -1          \* 0 is the decision "none"
NoPlan     == [paid |-> 0, first |-> 0, final |-> 0]
Idle       == [at |-> "idle", ask |-> NoRequest]

Tx == [ob : Obligations, amount : Nat, key : {Ask[r].key : r \in Requests},
       bank : {Ask[r].bank : r \in Requests}, late : BOOLEAN]

\* One type invariant.
TypeOK ==
    /\ amount \in [Obligations -> Nat]
    /\ ledger \in Seq(Tx)
    /\ reversed \subseteq DOMAIN ledger
    /\ answered \subseteq Requests \X DOMAIN ledger
    /\ session \in [Sessions -> [at : {"idle", "check", "insert"},
                                 ask : Requests \cup {NoRequest}]]
    /\ \A s \in Sessions : session[s].at # "idle" => session[s].ask \in Requests
    /\ contract \in [Contracts -> {"absent", "draft", "signed", "ended"}]
    /\ plan \in [paid : Nat, first : Nat, final : Nat]
    /\ caseActive \in BOOLEAN
    /\ decision \in [Obligations -> Int]

Init ==
    /\ amount = [o \in Obligations |-> IF o = "other" THEN Fee ELSE 0]
    /\ ledger = <<>>
    /\ reversed = {}
    /\ answered = {}
    /\ session = [s \in Sessions |-> Idle]
    /\ contract = [c \in Contracts |-> "absent"]
    /\ plan = NoPlan
    /\ caseActive = TRUE
    /\ decision = [o \in Obligations |-> NoDecision]

\* payment_obligation_paid: allocations whose transaction is not reversed.
Paid(o) ==
    MapThenSumSet(LAMBDA i : ledger[i].amount,
                  {i \in DOMAIN ledger \ reversed : ledger[i].ob = o})

Ended(o) == ContractOf(o) \in Contracts /\ contract[ContractOf(o)] = "ended"

-----------------------------------------------------------------------------
(* record_payment.  From Begin to its end the session holds the unit.      *)

\* Mutant: record_payment without the lock of the unit.
NeverHeld(u) == FALSE

Held(u) ==
    \E s \in Sessions : session[s].at # "idle" /\ UnitOf(Ask[session[s].ask].ob) = u

Begin(s, r) ==
    /\ session[s] = Idle
    /\ amount[Ask[r].ob] > 0
    /\ ~Held(UnitOf(Ask[r].ob))
    /\ session' = [session EXCEPT ![s] = [at |-> "check", ask |-> r]]
    /\ UNCHANGED <<amount, ledger, reversed, answered, contract, plan, caseActive,
                   decision>>

\* The transaction that already carries the key or else the bank id.
WithKey(a)  == {i \in DOMAIN ledger : a.key # NoId /\ ledger[i].key = a.key}
WithBank(a) == {i \in DOMAIN ledger : a.bank # NoId /\ ledger[i].bank = a.bank}
Recorded(a) == IF WithKey(a) # {} THEN WithKey(a) ELSE WithBank(a)

\* Mutant: the answer to a repeated request does not look at the obligation.
ReplayAnyObligation(a) == Recorded(a)

\* Reversed transactions are found too.
Replay(a) == {i \in Recorded(a) : ledger[i].ob = a.ob}

CheckRequest(s) ==
    LET r == session[s].ask
        a == Ask[r]
        proceeds == Recorded(a) = {} /\ a.amount <= amount[a.ob] - Paid(a.ob)
    IN
    /\ session[s].at = "check"
    /\ session' = [session EXCEPT ![s] =
                     IF proceeds THEN [at |-> "insert", ask |-> r] ELSE Idle]
    /\ answered' = answered \cup {<<r, i>> : i \in Replay(a)}
    /\ UNCHANGED <<amount, ledger, reversed, contract, plan, caseActive, decision>>

\* Mutant: no unique indexes on the key and the bank id.
NothingTaken(a) == FALSE

\* payment_transaction_idempotency_uq, payment_transaction_bank_uq: another unit
\* may have used the id since it was looked up.
IdTaken(a) == Recorded(a) # {}

InsertPayment(s) ==
    LET r == session[s].ask
        a == Ask[r]
    IN
    /\ session[s].at = "insert"
    /\ Len(ledger) < MaxTx
    /\ session' = [session EXCEPT ![s] = Idle]
    /\ IF IdTaken(a)
       THEN UNCHANGED <<ledger, answered>>
       ELSE /\ ledger' = Append(ledger, [ob |-> a.ob, amount |-> a.amount,
                                         key |-> a.key, bank |-> a.bank,
                                         late |-> Ended(a.ob)])
            /\ answered' = answered \cup {<<r, Len(ledger) + 1>>}
    /\ UNCHANGED <<amount, reversed, contract, plan, caseActive, decision>>

\* The transaction is rolled back; the client may ask again.
AbortRequest(s) ==
    /\ session[s].at # "idle"
    /\ session' = [session EXCEPT ![s] = Idle]
    /\ UNCHANGED <<amount, ledger, reversed, answered, contract, plan, caseActive,
                   decision>>

\* reverse_payment locks the transaction only.
ReversePayment(i) ==
    /\ i \notin reversed
    /\ reversed' = reversed \cup {i}
    /\ UNCHANGED <<amount, ledger, answered, session, contract, plan, caseActive,
                   decision>>

-----------------------------------------------------------------------------
(* Contracts and their terms. *)

\* A fixed-date RS has its fee from the beginning, one with signature terms not.
CreateRs ==
    /\ contract["rs"] = "absent" /\ caseActive /\ ~Held("sold")
    /\ contract' = [contract EXCEPT !["rs"] = "draft"]
    /\ amount' \in {amount, [amount EXCEPT !["rs_fee"] = Fee]}
    /\ UNCHANGED <<ledger, reversed, answered, session, plan, caseActive, decision>>

SignRs ==
    /\ contract["rs"] = "draft" /\ caseActive /\ ~Held("sold")
    /\ contract' = [contract EXCEPT !["rs"] = "signed"]
    /\ amount' = [amount EXCEPT !["rs_fee"] = Fee]
    /\ UNCHANGED <<ledger, reversed, answered, session, plan, caseActive, decision>>

\* round(price * 0.2, 2) in halere.
FirstInstallment == (Price + 2) \div 5

\* Mutant: the plan is made of whatever has been paid of the fee.
PlanFromPaidSoFar ==
    /\ contract["sbk"] = "absent" /\ caseActive /\ ~Held("sold")
    /\ contract["rs"] = "signed"
    /\ Price - FirstInstallment - Paid("rs_fee") >= 0
    /\ contract' = [contract EXCEPT !["sbk"] = "draft"]
    /\ plan' = [paid |-> Paid("rs_fee"), first |-> FirstInstallment,
                final |-> Price - FirstInstallment - Paid("rs_fee")]
    /\ UNCHANGED <<amount, ledger, reversed, answered, session, caseActive, decision>>

\* create_contract_with_signature_payments of an SBK.
PrepareSbk ==
    /\ contract["sbk"] = "absent" /\ caseActive /\ ~Held("sold")
    /\ contract["rs"] = "signed"
    /\ Paid("rs_fee") = Fee
    /\ FirstInstallment > 0 /\ Price - FirstInstallment - Fee >= 0
    /\ contract' = [contract EXCEPT !["sbk"] = "draft"]
    /\ plan' = [paid |-> Fee, first |-> FirstInstallment,
                final |-> Price - FirstInstallment - Fee]
    /\ UNCHANGED <<amount, ledger, reversed, answered, session, caseActive, decision>>

\* materialize_signature_payment: an obligation added by hand is in its way.
MayMaterialize ==
    /\ caseActive /\ ~Held("sold")
    /\ amount["extra"] = 0
    /\ contract["rs"] = "signed" /\ Paid("rs_fee") = plan.paid

SignSbk ==
    /\ contract["sbk"] = "draft"
    /\ MayMaterialize
    /\ contract' = [contract EXCEPT !["sbk"] = "signed"]
    /\ amount' = [amount EXCEPT !["sbk_first"] = plan.first]
    /\ UNCHANGED <<ledger, reversed, answered, session, plan, caseActive, decision>>

\* The evidence of the notice and the obligation are one transaction; a repeated
\* notice returns the obligation.
RecordSbkFinalNotice ==
    /\ contract["sbk"] = "signed"
    /\ amount["sbk_final"] = 0
    /\ MayMaterialize
    /\ amount' = [amount EXCEPT !["sbk_final"] = plan.final]
    /\ UNCHANGED <<ledger, reversed, answered, session, contract, plan, caseActive,
                   decision>>

\* create_payment_obligation takes no lock and accepts a contract in any status.
CreatePaymentObligation ==
    /\ contract["sbk"] # "absent"
    /\ amount["extra"] = 0
    /\ amount' = [amount EXCEPT !["extra"] = 1]
    /\ UNCHANGED <<ledger, reversed, answered, session, contract, plan, caseActive,
                   decision>>

-----------------------------------------------------------------------------
(* The end of a contract and refunds. *)

ObligationsOf(c) == {o \in Obligations : ContractOf(o) = c}

\* Mutant: only fully paid obligations need a decision.
DecidedIfFullyPaid(D, c) ==
    \A o \in ObligationsOf(c) : Paid(o) > 0 /\ Paid(o) = amount[o] => D[o] # NoDecision

\* "explicit refund decision is required for every received payment"
EveryReceiptDecided(D, c) ==
    \A o \in ObligationsOf(c) : Paid(o) > 0 => D[o] # NoDecision

\* none, a part, or all of what has been received.
Decisions(c) ==
    {D \in [ObligationsOf(c) -> {NoDecision} \cup 0 .. Price] :
        \A o \in ObligationsOf(c) :
            D[o] # NoDecision => amount[o] > 0 /\ D[o] \in 0 .. Paid(o)}

\* Mutant: a retry under a new key decides again.
Endable(c)   == contract[c] # "absent"
\* A retry on an ended contract returns the recorded event.
Unfinished(c) == contract[c] \in {"draft", "signed"}

\* transition_contract_status_with_refund_decisions to cancelled or terminated.
\* Whether the case closes is decided by the release, see UnitSales.
EndContract(c) ==
    /\ Unfinished(c) /\ ~Held("sold")
    /\ \E D \in Decisions(c) :
         /\ EveryReceiptDecided(D, c)
         /\ decision' = [o \in Obligations |->
                           IF o \in ObligationsOf(c) THEN D[o] ELSE decision[o]]
    /\ contract' = [contract EXCEPT ![c] = "ended"]
    /\ caseActive' \in {caseActive, FALSE}
    /\ UNCHANGED <<amount, ledger, reversed, answered, session, plan>>

Next ==
    \/ \E s \in Sessions : \/ \E r \in Requests : Begin(s, r)
                           \/ CheckRequest(s) \/ InsertPayment(s) \/ AbortRequest(s)
    \/ \E i \in DOMAIN ledger : ReversePayment(i)
    \/ CreateRs \/ SignRs \/ PrepareSbk \/ SignSbk
    \/ RecordSbkFinalNotice \/ CreatePaymentObligation
    \/ \E c \in Contracts : EndContract(c)

Spec == Init /\ [][Next]_payVars

-----------------------------------------------------------------------------

\* Concurrent and repeated requests, and reversals between their steps, never
\* count more on an obligation than it asks for.
NeverOverpaid == \A o \in Obligations : Paid(o) <= amount[o]

\* One bank transaction, or one request, is one payment, also when it is recorded
\* for two units at the same time.
CountedOnce ==
    \A i, j \in DOMAIN ledger :
        i # j => /\ ledger[i].key # NoId => ledger[i].key # ledger[j].key
                 /\ ledger[i].bank # NoId => ledger[i].bank # ledger[j].bank

\* A request that was answered with a transaction has that transaction on the
\* obligation it named: a payment is never confirmed on account of another.
AnswerIsOwnPayment ==
    \A p \in answered : ledger[p[2]].ob = Ask[p[1]].ob

\* What was received before a contract ended, and not reversed, has a refund
\* decision: no payment slips in between the decisions and the end.
ReceiptsDecided ==
    \A i \in DOMAIN ledger \ reversed :
        Ended(ledger[i].ob) /\ ~ledger[i].late => decision[ledger[i].ob] # NoDecision

\* A refund decision is taken once, however often the end is repeated.
DecisionIsFinal ==
    [][\A o \in Obligations :
         decision[o] # NoDecision => decision'[o] = decision[o]]_payVars

\* Fee and installments never ask for more than the price, and for exactly the
\* price once the last one is there, whatever was reversed in between.
SaleAddsUp ==
    LET total == amount["rs_fee"] + amount["sbk_first"] + amount["sbk_final"] IN
    total <= Price /\ (amount["sbk_final"] > 0 => total = Price)

=============================================================================
