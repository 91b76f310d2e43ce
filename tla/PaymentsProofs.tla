--------------------------- MODULE PaymentsProofs ---------------------------
(***************************************************************************)
(* Theorems about Payments for any number of sessions, any set of requests *)
(* and any prices: the ledger and its answers, and the money: what has     *)
(* been received never exceeds what was asked for, is decided about when   *)
(* its contract ends, and the terms of a sale add up to its price.         *)
(***************************************************************************)
EXTENDS Payments, FiniteSetTheorems, WellFoundedInduction, TLAPS

\* A decision exists only for a contract that has ended, and an ended contract
\* is not ended again: this is what makes a decision final.
DecidedHasEnded == \A o \in Obligations : decision[o] # NoDecision => Ended(o)

LedgerInvariant ==
    /\ TypeOK
    /\ CountedOnce
    /\ AnswerIsOwnPayment
    /\ DecidedHasEnded

-----------------------------------------------------------------------------

LEMMA InitLedger == Init => LedgerInvariant
BY PaymentsAssumption
   DEF Init, LedgerInvariant, TypeOK, CountedOnce, AnswerIsOwnPayment,
       DecidedHasEnded, Obligations, Contracts, Idle, NoPlan, NoDecision, Tx

\* The steps of record_payment before the insert touch the session and the
\* answers only; an answer is a transaction of the requested obligation.
LEMMA CheckLedger ==
    ASSUME LedgerInvariant, NEW s \in Sessions,
           NEW r \in Requests, Begin(s, r) \/ CheckRequest(s) \/ AbortRequest(s)
    PROVE  LedgerInvariant'
<1> USE DEF LedgerInvariant, DecidedHasEnded, CountedOnce, Ended
<1>1. CASE Begin(s, r)
  BY <1>1 DEF Begin, TypeOK, AnswerIsOwnPayment, Idle
<1>2. CASE AbortRequest(s)
  BY <1>2 DEF AbortRequest, TypeOK, AnswerIsOwnPayment, Idle
<1>3. CASE CheckRequest(s)
  <2> DEFINE q == session[s].ask
  <2>1. q \in Requests
    BY <1>3 DEF CheckRequest, TypeOK
  <2>2. Replay(Ask[q]) \subseteq DOMAIN ledger
    BY DEF Replay, Recorded, WithKey, WithBank
  <2>3. \A i \in Replay(Ask[q]) : ledger[i].ob = Ask[q].ob
    BY DEF Replay
  <2>4. answered' = answered \cup {<<q, i>> : i \in Replay(Ask[q])}
    BY <1>3 DEF CheckRequest
  <2>5. AnswerIsOwnPayment'
    BY <1>3, <2>3, <2>4 DEF CheckRequest, AnswerIsOwnPayment
  <2>6. session' \in [Sessions -> [at : {"idle", "check", "insert"},
                                   ask : Requests \cup {NoRequest}]]
    BY <1>3, <2>1 DEF CheckRequest, TypeOK, Idle
  <2>7. \A t \in Sessions : session'[t].at # "idle" => session'[t].ask \in Requests
    BY <1>3, <2>1 DEF CheckRequest, TypeOK, Idle
  <2>8. answered' \subseteq Requests \X DOMAIN ledger
    BY <2>1, <2>2, <2>4 DEF TypeOK
  <2> HIDE DEF q
  <2> QED BY <1>3, <2>5, <2>6, <2>7, <2>8 DEF CheckRequest, TypeOK
<1> QED BY <1>1, <1>2, <1>3

\* Only a payment whose key and bank id nobody has used is appended.
LEMMA InsertLedger ==
    ASSUME LedgerInvariant, NEW s \in Sessions, InsertPayment(s)
    PROVE  LedgerInvariant'
<1> DEFINE r == session[s].ask
           a == Ask[r]
           tx == [ob |-> a.ob, amount |-> a.amount, key |-> a.key,
                  bank |-> a.bank, late |-> Ended(a.ob)]
           n == Len(ledger) + 1
<1>1. r \in Requests
  BY DEF LedgerInvariant, TypeOK, InsertPayment
<1>2. session' \in [Sessions -> [at : {"idle", "check", "insert"},
                                 ask : Requests \cup {NoRequest}]]
      /\ \A t \in Sessions : session'[t].at # "idle" => session'[t].ask \in Requests
  BY DEF LedgerInvariant, TypeOK, InsertPayment, Idle
<1>3. DecidedHasEnded'
  BY DEF LedgerInvariant, DecidedHasEnded, Ended, InsertPayment
<1>4. CASE IdTaken(a)
  <2>1. UNCHANGED <<ledger, answered>>
    BY <1>4 DEF InsertPayment
  <2> QED BY <1>2, <1>3, <2>1
          DEF LedgerInvariant, TypeOK, CountedOnce, AnswerIsOwnPayment, InsertPayment
<1>5. CASE ~IdTaken(a)
  <2>1. ledger' = Append(ledger, tx) /\ answered' = answered \cup {<<r, n>>}
    BY <1>5 DEF InsertPayment
  <2>2. tx \in Tx
    BY <1>1, PaymentsAssumption DEF Tx, Ended
  <2>3. ledger \in Seq(Tx)
    BY DEF LedgerInvariant, TypeOK
  <2>4. /\ ledger' \in Seq(Tx)
        /\ DOMAIN ledger' = DOMAIN ledger \cup {n}
        /\ \A i \in DOMAIN ledger : ledger'[i] = ledger[i]
        /\ ledger'[n] = tx
        /\ n \notin DOMAIN ledger
    <3> HIDE DEF tx
    <3> QED BY <2>1, <2>2, <2>3
  <2>5. \A i \in DOMAIN ledger : /\ a.key # NoId => ledger[i].key # a.key
                                 /\ a.bank # NoId => ledger[i].bank # a.bank
    BY <1>5 DEF IdTaken, Recorded, WithKey, WithBank
  <2>6. CountedOnce'
    BY <2>4, <2>5 DEF LedgerInvariant, CountedOnce
  <2>7. AnswerIsOwnPayment'
    BY <2>1, <2>4 DEF LedgerInvariant, TypeOK, AnswerIsOwnPayment
  <2>8. TypeOK'
    <3>1. answered' \subseteq Requests \X DOMAIN ledger'
      BY <1>1, <2>1, <2>4 DEF LedgerInvariant, TypeOK
    <3>2. reversed' \subseteq DOMAIN ledger'
      BY <2>4 DEF LedgerInvariant, TypeOK, InsertPayment
    <3> HIDE DEF n, tx, a, r
    <3> QED BY <1>2, <2>4, <3>1, <3>2 DEF LedgerInvariant, TypeOK, InsertPayment
  <2> QED BY <1>3, <2>6, <2>7, <2>8 DEF LedgerInvariant
<1> QED BY <1>4, <1>5

\* What a contract command does to the terms: amounts stay numbers.
LEMMA TermsLedger ==
    ASSUME LedgerInvariant,
           \/ CreateRs \/ SignRs \/ PrepareSbk \/ SignSbk
           \/ RecordSbkFinalNotice \/ CreatePaymentObligation
    PROVE  LedgerInvariant'
<1> USE PaymentsAssumption DEF LedgerInvariant
<1>1. UNCHANGED <<ledger, reversed, answered, session, decision>>
  BY DEF CreateRs, SignRs, PrepareSbk, SignSbk, RecordSbkFinalNotice,
         CreatePaymentObligation
<1>2. CountedOnce' /\ AnswerIsOwnPayment'
  BY <1>1 DEF CountedOnce, AnswerIsOwnPayment
<1>3. \A c \in Contracts : contract[c] = "ended" => contract'[c] = "ended"
  BY DEF CreateRs, SignRs, PrepareSbk, SignSbk, RecordSbkFinalNotice,
         CreatePaymentObligation, TypeOK, Contracts
<1>4. DecidedHasEnded'
  BY <1>1, <1>3 DEF DecidedHasEnded, Ended
<1>5. amount' \in [Obligations -> Nat]
  <2>1. Fee \in Nat /\ plan.first \in Nat /\ plan.final \in Nat
    BY DEF TypeOK
  <2>2. \A o \in Obligations : \A v \in Nat :
          [amount EXCEPT ![o] = v] \in [Obligations -> Nat]
    BY DEF TypeOK
  <2>3. CASE CreateRs \/ SignRs
    BY <2>1, <2>2, <2>3 DEF CreateRs, SignRs, TypeOK, Obligations
  <2>4. CASE SignSbk \/ RecordSbkFinalNotice
    BY <2>1, <2>2, <2>4 DEF SignSbk, RecordSbkFinalNotice, Obligations
  <2>5. CASE PrepareSbk \/ CreatePaymentObligation
    BY <2>2, <2>5 DEF PrepareSbk, CreatePaymentObligation, TypeOK, Obligations
  <2> QED BY <2>3, <2>4, <2>5
<1>6. plan' \in [paid : Nat, first : Nat, final : Nat]
  BY DEF CreateRs, SignRs, PrepareSbk, SignSbk, RecordSbkFinalNotice,
         CreatePaymentObligation, TypeOK, FirstInstallment
<1>7. contract' \in [Contracts -> {"absent", "draft", "signed", "ended"}]
  BY DEF CreateRs, SignRs, PrepareSbk, SignSbk, RecordSbkFinalNotice,
         CreatePaymentObligation, TypeOK
<1>8. caseActive' \in BOOLEAN
  BY DEF CreateRs, SignRs, PrepareSbk, SignSbk, RecordSbkFinalNotice,
         CreatePaymentObligation, TypeOK
<1> QED BY <1>1, <1>2, <1>4, <1>5, <1>6, <1>7, <1>8 DEF TypeOK

\* The end of a contract decides for the obligations of that contract, which
\* ends with the same step.
LEMMA EndLedger ==
    ASSUME LedgerInvariant, NEW c \in Contracts, EndContract(c)
    PROVE  LedgerInvariant'
<1> USE PaymentsAssumption DEF LedgerInvariant
<1>1. PICK D \in Decisions(c) :
        decision' = [o \in Obligations |->
                       IF o \in ObligationsOf(c) THEN D[o] ELSE decision[o]]
  BY DEF EndContract
<1>2. contract' = [contract EXCEPT ![c] = "ended"]
  BY DEF EndContract
<1>3. contract'[c] = "ended" /\ \A b \in Contracts : b # c => contract'[b] = contract[b]
  BY <1>2 DEF TypeOK
<1>4. decision' \in [Obligations -> Int]
  BY <1>1 DEF Decisions, NoDecision, TypeOK
<1>5. DecidedHasEnded'
  <2> SUFFICES ASSUME NEW o \in Obligations, decision'[o] # NoDecision
               PROVE  Ended(o)'
    BY DEF DecidedHasEnded
  <2>1. CASE o \in ObligationsOf(c)
    BY <1>3, <2>1 DEF ObligationsOf, Ended
  <2>2. CASE o \notin ObligationsOf(c)
    BY <1>1, <1>3, <2>2 DEF ObligationsOf, Ended, DecidedHasEnded
  <2> QED BY <2>1, <2>2
<1>6. contract' \in [Contracts -> {"absent", "draft", "signed", "ended"}]
      /\ caseActive' \in BOOLEAN
  BY <1>2 DEF TypeOK, EndContract
<1> QED BY <1>4, <1>5, <1>6
        DEF EndContract, TypeOK, CountedOnce, AnswerIsOwnPayment

\* A reversal leaves the ledger and the decisions alone.
LEMMA ReverseLedger ==
    ASSUME LedgerInvariant, NEW i \in DOMAIN ledger, ReversePayment(i)
    PROVE  LedgerInvariant'
BY DEF LedgerInvariant, CountedOnce, AnswerIsOwnPayment, DecidedHasEnded, Ended,
       ReversePayment, TypeOK

LEMMA NextLedger == LedgerInvariant /\ [Next]_payVars => LedgerInvariant'
<1> SUFFICES ASSUME LedgerInvariant, [Next]_payVars PROVE LedgerInvariant'
  OBVIOUS
<1>1. ASSUME NEW s \in Sessions, NEW r \in Requests, Begin(s, r)
      PROVE  LedgerInvariant'
  BY <1>1, CheckLedger
<1>2. ASSUME NEW s \in Sessions, CheckRequest(s) \/ AbortRequest(s)
      PROVE  LedgerInvariant'
  <2>1. PICK r \in Requests : r = session[s].ask
    BY <1>2 DEF CheckRequest, AbortRequest, LedgerInvariant, TypeOK
  <2> QED BY <1>2, <2>1, CheckLedger
<1>3. ASSUME NEW s \in Sessions, InsertPayment(s) PROVE LedgerInvariant'
  BY <1>3, InsertLedger
<1>4. ASSUME NEW i \in DOMAIN ledger, ReversePayment(i) PROVE LedgerInvariant'
  BY <1>4, ReverseLedger
<1>5. ASSUME NEW c \in Contracts, EndContract(c) PROVE LedgerInvariant'
  BY <1>5, EndLedger
<1>6. CASE UNCHANGED payVars
  BY <1>6 DEF payVars, LedgerInvariant, TypeOK, CountedOnce, AnswerIsOwnPayment,
              DecidedHasEnded, Ended
<1> QED BY <1>1, <1>2, <1>3, <1>4, <1>5, <1>6, TermsLedger DEF Next

LEMMA InvariantCorrect == Spec => []LedgerInvariant
BY InitLedger, NextLedger, PTL DEF Spec

-----------------------------------------------------------------------------

\* The tables of the payments keep their shape, and every session has a request.
THEOREM TypeCorrect == Spec => []TypeOK
BY InvariantCorrect, PTL DEF LedgerInvariant

\* However many sessions record at the same time, on whatever units, one key and
\* one bank transaction are one payment.
THEOREM CountedOnceCorrect == Spec => []CountedOnce
BY InvariantCorrect, PTL DEF LedgerInvariant

\* A request is only ever confirmed by a payment of the obligation it named.
THEOREM AnswerCorrect == Spec => []AnswerIsOwnPayment
BY InvariantCorrect, PTL DEF LedgerInvariant

\* A refund decision never changes.
THEOREM DecisionIsFinalCorrect == Spec => DecisionIsFinal
<1>1. LedgerInvariant /\ [Next]_payVars
        => [\A o \in Obligations :
              decision[o] # NoDecision => decision'[o] = decision[o]]_payVars
  <2> SUFFICES ASSUME LedgerInvariant, Next,
                      NEW o \in Obligations, decision[o] # NoDecision
               PROVE  decision'[o] = decision[o]
    OBVIOUS
  <2>1. ASSUME NEW c \in Contracts, EndContract(c)
        PROVE  decision'[o] = decision[o]
    <3>1. o \notin ObligationsOf(c)
      BY <2>1 DEF LedgerInvariant, DecidedHasEnded, Ended, ObligationsOf,
                  EndContract, Unfinished
    <3> QED BY <2>1, <3>1 DEF EndContract
  <2>2. CASE UNCHANGED decision
    BY <2>2
  <2> QED BY <2>1, <2>2
          DEF Next, Begin, CheckRequest, InsertPayment, AbortRequest, ReversePayment,
              CreateRs, SignRs, PrepareSbk, SignSbk, RecordSbkFinalNotice,
              CreatePaymentObligation
<1> QED BY <1>1, InvariantCorrect, PTL DEF Spec, DecisionIsFinal

-----------------------------------------------------------------------------
(* Sums.  Paid is a fold: a recursive function over the subsets of a set   *)
(* of transactions.  The induction is over these subsets.                  *)

Received(l, S) == MapThenSumSet(LAMBDA i : l[i].amount, S)

Sums(l, S, f) ==
    f = [s \in SUBSET S |->
           IF s = {} THEN 0
           ELSE LET x == CHOOSE x \in s : TRUE IN l[x].amount + f[s \ {x}]]

LEMMA ReceivedIs ==
  ASSUME NEW l, NEW S
  PROVE  Received(l, S) = (CHOOSE f : Sums(l, S, f))[S]
BY DEF Received, MapThenSumSet, MapThenFoldSet, Sums

\* Among subsets of a finite set there are smallest ones.
LEMMA SmallestSubset ==
  ASSUME NEW U, IsFiniteSet(U), NEW B \in SUBSET (SUBSET U), B # {}
  PROVE  \E S \in B : \A T \in B : T \subseteq S => T = S
<1> DEFINE R == {p \in Nat \X Nat : p[1] < p[2]}
           N == {Cardinality(S) : S \in B}
<1>1. IsWellFoundedOn(R, Nat)
  <2>1. OpToRel(<, Nat) = R
    BY DEF OpToRel
  <2> QED BY <2>1, NatLessThanWellFounded
<1>2. \A S \in B : IsFiniteSet(S) /\ Cardinality(S) \in Nat
  BY FS_Subset, FS_CardinalityType
<1>3. N \subseteq Nat /\ N # {}
  BY <1>2
<1>4. PICK n \in N : \A m \in N : <<m, n>> \notin R
  <2> HIDE DEF R, N
  <2> QED BY <1>1, <1>3, WFMin
<1>5. PICK S \in B : n = Cardinality(S)
  OBVIOUS
<1>6. ASSUME NEW T \in B, T \subseteq S PROVE T = S
  <2>1. Cardinality(T) \in N /\ ~(Cardinality(T) < Cardinality(S))
    BY <1>2, <1>4, <1>5
  <2>2. Cardinality(T) <= Cardinality(S) /\ (Cardinality(S) = Cardinality(T) => S = T)
    BY <1>2, <1>6, FS_Subset
  <2> QED BY <1>2, <2>1, <2>2
<1> QED BY <1>6

Chosen(s) == CHOOSE x \in s : TRUE

LEMMA SumsStep ==
  ASSUME NEW l, NEW S, NEW f, Sums(l, S, f), NEW s \in SUBSET S
  PROVE  f[s] = IF s = {} THEN 0 ELSE l[Chosen(s)].amount + f[s \ {Chosen(s)}]
<1> DEFINE F == [t \in SUBSET S |->
                   IF t = {} THEN 0 ELSE l[Chosen(t)].amount + f[t \ {Chosen(t)}]]
<1>1. f = F
  BY DEF Sums, Chosen
<1>2. F[s] = IF s = {} THEN 0 ELSE l[Chosen(s)].amount + f[s \ {Chosen(s)}]
  OBVIOUS
<1> HIDE DEF F
<1> QED BY <1>1, <1>2

LEMMA ChosenIn == ASSUME NEW s, s # {} PROVE Chosen(s) \in s
BY DEF Chosen

\* Where two sums are defined they agree.
LEMMA SumsAgree ==
  ASSUME NEW l, NEW S, NEW T, IsFiniteSet(S), NEW f, NEW g, Sums(l, S, f), Sums(l, T, g),
         NEW s \in SUBSET S, s \in SUBSET T
  PROVE  f[s] = g[s]
<1> DEFINE B == {u \in SUBSET S : u \in SUBSET T /\ f[u] # g[u]}
<1> SUFFICES ASSUME B # {} PROVE FALSE
  OBVIOUS
<1>1. PICK u \in B : \A v \in B : v \subseteq u => v = u
  <2>1. B \in SUBSET (SUBSET S)
    OBVIOUS
  <2> HIDE DEF B
  <2> QED BY <2>1, SmallestSubset
<1>2. u # {} /\ f[u \ {Chosen(u)}] # g[u \ {Chosen(u)}]
  BY SumsStep
<1>3. Chosen(u) \in u /\ u \ {Chosen(u)} \in B
  BY <1>2, ChosenIn
<1> QED BY <1>1, <1>3

\* A finite set has a sum.
LEMMA SumsExist ==
  ASSUME NEW l, NEW S, IsFiniteSet(S)
  PROVE  \E f : Sums(l, S, f)
<1> DEFINE B == {T \in SUBSET S : ~ \E f : Sums(l, T, f)}
<1> SUFFICES ASSUME B # {} PROVE FALSE
  OBVIOUS
<1>1. PICK T \in B : \A U \in B : U \subseteq T => U = T
  <2>1. B \in SUBSET (SUBSET S)
    OBVIOUS
  <2> HIDE DEF B
  <2> QED BY <2>1, SmallestSubset
<1>2. ASSUME NEW U \in SUBSET T, U # T
      PROVE  \E f : Sums(l, U, f) /\ Received(l, U) = f[U] /\ IsFiniteSet(U)
  <2>1. \E f : Sums(l, U, f)
    BY <1>1, <1>2
  <2>2. Sums(l, U, CHOOSE f : Sums(l, U, f))
    BY <2>1
  <2> QED BY <2>2, ReceivedIs, FS_Subset
<1> DEFINE f == [s \in SUBSET T |->
                   IF s = {} THEN 0 ELSE l[Chosen(s)].amount + Received(l, s \ {Chosen(s)})]
<1>3. ASSUME NEW U \in SUBSET T, U # T PROVE f[U] = Received(l, U)
  <2>1. PICK g : Sums(l, U, g) /\ Received(l, U) = g[U] /\ IsFiniteSet(U)
    BY <1>2, <1>3
  <2>2. U \in SUBSET U
    OBVIOUS
  <2>3. g[U] = IF U = {} THEN 0 ELSE l[Chosen(U)].amount + g[U \ {Chosen(U)}]
    BY <2>1, <2>2, SumsStep
  <2>4. CASE U = {}
    BY <2>1, <2>3, <2>4
  <2>5. CASE U # {}
    <3> DEFINE V == U \ {Chosen(U)}
    <3>1. V \in SUBSET T /\ V # T /\ V \in SUBSET U
      BY <1>3
    <3>2. PICK h : Sums(l, V, h) /\ Received(l, V) = h[V]
      BY <1>2, <3>1
    <3>3. g[V] = h[V]
      BY <2>1, <3>1, <3>2, SumsAgree
    <3> QED BY <2>1, <2>3, <2>5, <3>2, <3>3
  <2> QED BY <2>4, <2>5
<1>4. ASSUME NEW s \in SUBSET T, s # {} PROVE f[s \ {Chosen(s)}] = Received(l, s \ {Chosen(s)})
  <2>1. Chosen(s) \in s
    BY <1>4, ChosenIn
  <2> HIDE DEF f
  <2> QED BY <1>3, <2>1
<1>5. f = [s \in SUBSET T |-> IF s = {} THEN 0 ELSE l[Chosen(s)].amount + f[s \ {Chosen(s)}]]
  <2> DEFINE g == [s \in SUBSET T |->
                     IF s = {} THEN 0 ELSE l[Chosen(s)].amount + f[s \ {Chosen(s)}]]
  <2>1. \A s \in SUBSET T : f[s] = g[s]
    BY <1>4
  <2> QED BY <2>1
<1>6. Sums(l, T, f)
  <2> HIDE DEF f
  <2> QED BY <1>5 DEF Sums, Chosen
<1> QED BY <1>1, <1>6

\* The sum is that of any order: the chosen element, and the rest.
LEMMA ReceivedStep ==
  ASSUME NEW l, NEW S, IsFiniteSet(S)
  PROVE  Received(l, S) = IF S = {} THEN 0
                          ELSE l[Chosen(S)].amount + Received(l, S \ {Chosen(S)})
<1>1. ASSUME NEW T \in SUBSET S
      PROVE  Sums(l, T, CHOOSE f : Sums(l, T, f)) /\ IsFiniteSet(T)
  <2>1. IsFiniteSet(T)
    BY FS_Subset
  <2> QED BY <2>1, SumsExist
<1> DEFINE Sum(T) == CHOOSE f : Sums(l, T, f)
           R == S \ {Chosen(S)}
<1>2. Sums(l, S, Sum(S)) /\ Sums(l, R, Sum(R)) /\ R \in SUBSET S
  BY <1>1
<1>3. Received(l, S) = Sum(S)[S] /\ Received(l, R) = Sum(R)[R]
  BY ReceivedIs
<1> HIDE DEF Sum
<1>4. Sum(S)[S] = IF S = {} THEN 0 ELSE l[Chosen(S)].amount + Sum(S)[R]
  BY <1>2, SumsStep
<1>5. Sum(S)[R] = Sum(R)[R]
  BY <1>2, SumsAgree
<1> QED BY <1>3, <1>4, <1>5

Amounts(l, S) == \A i \in S : l[i].amount \in Nat

LEMMA ReceivedTyped ==
  ASSUME NEW l, NEW S, IsFiniteSet(S), Amounts(l, S)
  PROVE  Received(l, S) \in Nat
<1> DEFINE B == {T \in SUBSET S : Received(l, T) \notin Nat}
<1> SUFFICES ASSUME B # {} PROVE FALSE
  OBVIOUS
<1>1. PICK T \in B : \A U \in B : U \subseteq T => U = T
  <2>1. B \in SUBSET (SUBSET S)
    OBVIOUS
  <2> HIDE DEF B
  <2> QED BY <2>1, SmallestSubset
<1>2. IsFiniteSet(T)
  BY FS_Subset
<1>3. T # {} /\ l[Chosen(T)].amount + Received(l, T \ {Chosen(T)}) \notin Nat
  BY <1>2, ReceivedStep
<1>4. Chosen(T) \in T /\ T \ {Chosen(T)} \notin B
  BY <1>1, <1>3, ChosenIn
<1> QED BY <1>3, <1>4 DEF Amounts

\* Payments are added in any order.
LEMMA ReceivedWithout ==
  ASSUME NEW l, NEW S, IsFiniteSet(S), Amounts(l, S), NEW y \in S
  PROVE  Received(l, S) = l[y].amount + Received(l, S \ {y})
<1> DEFINE Adds(T) == \A z \in T : Received(l, T) = l[z].amount + Received(l, T \ {z})
           B == {T \in SUBSET S : ~Adds(T)}
<1> SUFFICES ASSUME B # {} PROVE FALSE
  OBVIOUS
<1>1. PICK T \in B : \A U \in B : U \subseteq T => U = T
  <2>1. B \in SUBSET (SUBSET S)
    OBVIOUS
  <2> HIDE DEF B
  <2> QED BY <2>1, SmallestSubset
<1>2. PICK z \in T : Received(l, T) # l[z].amount + Received(l, T \ {z})
  OBVIOUS
<1> DEFINE x == Chosen(T)
           R == T \ {x}
           Q == T \ {z}
<1>3. x \in T /\ x # z /\ Received(l, T) = l[x].amount + Received(l, R)
  <2>1. T # {} /\ IsFiniteSet(T)
    BY FS_Subset
  <2> QED BY <1>2, <2>1, ChosenIn, ReceivedStep
<1>4. Adds(R) /\ Adds(Q)
  <2>1. R \notin B /\ Q \notin B
    BY <1>1, <1>3
  <2> QED BY <2>1
<1>5. z \in R /\ x \in Q /\ R \ {z} = Q \ {x}
  BY <1>3
<1>6. Received(l, R) = l[z].amount + Received(l, Q \ {x})
      /\ Received(l, Q) = l[x].amount + Received(l, Q \ {x})
  BY <1>4, <1>5
<1>7. l[x].amount \in Nat /\ l[z].amount \in Nat /\ Received(l, Q \ {x}) \in Nat
  <2>1. IsFiniteSet(Q \ {x}) /\ Amounts(l, Q \ {x})
    BY FS_Subset DEF Amounts
  <2> QED BY <1>3, <2>1, ReceivedTyped DEF Amounts
<1>8. Received(l, T) # l[z].amount + Received(l, Q)
  BY <1>2
<1> HIDE DEF x, R, Q
<1> QED BY <1>3, <1>6, <1>7, <1>8

\* A larger set of payments is worth at least as much, and any payment counts.
LEMMA ReceivedGrows ==
  ASSUME NEW l, NEW S, IsFiniteSet(S), Amounts(l, S), NEW y \in S
  PROVE  /\ Received(l, S \ {y}) <= Received(l, S)
         /\ l[y].amount <= Received(l, S)
<1>1. l[y].amount \in Nat /\ IsFiniteSet(S \ {y}) /\ Amounts(l, S \ {y})
  BY FS_Subset DEF Amounts
<1> QED BY <1>1, ReceivedWithout, ReceivedTyped

\* It depends on the payments in the set only.
LEMMA ReceivedKept ==
  ASSUME NEW l, NEW m, NEW S, IsFiniteSet(S), \A i \in S : m[i] = l[i]
  PROVE  Received(m, S) = Received(l, S)
<1> DEFINE B == {T \in SUBSET S : Received(m, T) # Received(l, T)}
<1> SUFFICES ASSUME B # {} PROVE FALSE
  OBVIOUS
<1>1. PICK T \in B : \A U \in B : U \subseteq T => U = T
  <2>1. B \in SUBSET (SUBSET S)
    OBVIOUS
  <2> HIDE DEF B
  <2> QED BY <2>1, SmallestSubset
<1>2. IsFiniteSet(T)
  BY FS_Subset
<1>3. T # {} /\ ~(m[Chosen(T)] = l[Chosen(T)] /\ T \ {Chosen(T)} \notin B)
  BY <1>2, ReceivedStep
<1>4. Chosen(T) \in T /\ T \ {Chosen(T)} \notin B
  <2>1. Chosen(T) \in T
    BY <1>3, ChosenIn
  <2> QED BY <1>1, <2>1
<1> QED BY <1>3, <1>4

-----------------------------------------------------------------------------
(* The terms of a sale                                                     *)

\* What the amounts of the terms can be: none yet, or what the fee and the plan
\* frozen in the SBK say; the installments stay those of the plan.
Terms ==
    /\ amount["rs_fee"] \in {0, Fee}
    /\ contract["rs"] = "signed" \/ contract["sbk"] # "absent" => amount["rs_fee"] = Fee
    /\ contract["sbk"] \in {"absent", "draft"} => amount["sbk_first"] = 0
    /\ contract["sbk"] = "signed" => amount["sbk_first"] = plan.first
    /\ amount["sbk_first"] \in {0, plan.first}
    /\ amount["sbk_final"] \in {0, plan.final}
    /\ amount["sbk_final"] # 0 => amount["sbk_first"] = plan.first
    /\ IF contract["sbk"] = "absent" THEN plan = NoPlan
       ELSE plan.paid = Fee /\ Fee + plan.first + plan.final = Price

LEMMA TermsTyped ==
  ASSUME LedgerInvariant
  PROVE  /\ amount \in [Obligations -> Nat]
         /\ contract \in [Contracts -> {"absent", "draft", "signed", "ended"}]
         /\ plan \in [paid : Nat, first : Nat, final : Nat]
         /\ Price \in Nat /\ Fee \in Nat /\ 0 < Fee /\ Fee <= Price
BY PaymentsAssumption DEF LedgerInvariant, TypeOK

LEMMA TermsKept ==
  ASSUME LedgerInvariant, Terms, [Next]_payVars
  PROVE  Terms' /\ \A o \in Obligations : amount[o] <= amount'[o]
<1> USE TermsTyped DEF Obligations, Contracts
<1>1. CASE UNCHANGED <<amount, contract, plan>>
  BY <1>1 DEF Terms
<1>2. CASE CreateRs \/ SignRs
  BY <1>2 DEF Terms, CreateRs, SignRs
<1>3. CASE PrepareSbk
  <2>1. FirstInstallment \in Nat
    BY DEF FirstInstallment
  <2> QED BY <1>3, <2>1 DEF Terms, PrepareSbk, NoPlan
<1>4. CASE SignSbk
  BY <1>4 DEF Terms, SignSbk, MayMaterialize
<1>5. CASE RecordSbkFinalNotice
  BY <1>5 DEF Terms, RecordSbkFinalNotice, MayMaterialize
<1>6. CASE CreatePaymentObligation
  BY <1>6 DEF Terms, CreatePaymentObligation
<1>7. ASSUME NEW c \in Contracts, EndContract(c)
      PROVE  Terms' /\ \A o \in Obligations : amount[o] <= amount'[o]
  BY <1>7 DEF Terms, EndContract, Unfinished
<1> QED BY <1>1, <1>2, <1>3, <1>4, <1>5, <1>6, <1>7
        DEF Next, Begin, CheckRequest, InsertPayment, AbortRequest, ReversePayment, payVars

\* The fee and the installments never ask for more than the price, and for
\* exactly the price once the last one is there.
THEOREM SaleAddsUpCorrect == Spec => []SaleAddsUp
<1>1. Init => Terms
  BY DEF Init, Terms, Obligations, Contracts, NoPlan
<1>2. LedgerInvariant /\ Terms /\ [Next]_payVars => Terms'
  BY TermsKept
<1>3. LedgerInvariant /\ Terms => SaleAddsUp
  BY TermsTyped DEF Terms, SaleAddsUp, Obligations, Contracts, NoPlan
<1> QED BY <1>1, <1>2, <1>3, InvariantCorrect, PTL DEF Spec

-----------------------------------------------------------------------------
(* What has been received                                                  *)

\* The payments that count on an obligation.
Counted(o) == {i \in DOMAIN ledger \ reversed : ledger[i].ob = o}

\* At most one session holds a unit, ...
OneHolder ==
    \A s, t \in Sessions :
        /\ session[s].at # "idle" /\ session[t].at # "idle"
        /\ UnitOf(Ask[session[s].ask].ob) = UnitOf(Ask[session[t].ask].ob)
        => s = t

\* ... so that what it has checked is still true when it inserts.
Room ==
    \A s \in Sessions : session[s].at = "insert" =>
        LET a == Ask[session[s].ask] IN a.amount <= amount[a.ob] - Paid(a.ob)

Positive == \A i \in DOMAIN ledger : ledger[i].amount > 0

MoneyInvariant == OneHolder /\ Room /\ Positive /\ NeverOverpaid /\ ReceiptsDecided

\* A payment is a row of the ledger.
LEMMA RowTyped ==
  ASSUME LedgerInvariant, NEW i \in DOMAIN ledger
  PROVE  ledger[i] \in Tx /\ ledger[i].ob \in Obligations /\ ledger[i].amount \in Nat
<1>1. ledger \in Seq(Tx)
  BY DEF LedgerInvariant, TypeOK
<1>2. ledger[i] \in Tx
  BY <1>1
<1> QED BY <1>2 DEF Tx

LEMMA PaidIs ==
  ASSUME NEW o
  PROVE  /\ Paid(o) = Received(ledger, Counted(o))
         /\ (Paid(o))' = Received(ledger', (Counted(o))')
<1>1. Paid(o) = Received(ledger, Counted(o))
  BY DEF Paid, Received, Counted
<1>2. (Paid(o))' = Received(ledger', (Counted(o))')
  BY DEF Paid, Received, Counted, MapThenSumSet, MapThenFoldSet
<1> QED BY <1>1, <1>2

LEMMA PaidTyped ==
  ASSUME LedgerInvariant, NEW o \in Obligations
  PROVE  /\ Paid(o) = Received(ledger, Counted(o)) /\ Paid(o) \in Nat
         /\ IsFiniteSet(Counted(o)) /\ Amounts(ledger, Counted(o))
<1>1. ledger \in Seq(Tx)
  BY DEF LedgerInvariant, TypeOK
<1>2. DOMAIN ledger = 1 .. Len(ledger) /\ Len(ledger) \in Nat
  BY <1>1
<1>3. IsFiniteSet(Counted(o))
  <2>1. IsFiniteSet(1 .. Len(ledger))
    BY <1>2, FS_Interval
  <2>2. Counted(o) \in SUBSET (1 .. Len(ledger))
    BY <1>2 DEF Counted
  <2> QED BY <2>1, <2>2, FS_Subset
<1>4. Amounts(ledger, Counted(o))
  BY RowTyped DEF Amounts, Counted
<1>5. Paid(o) = Received(ledger, Counted(o))
  BY PaidIs
<1> QED BY <1>3, <1>4, <1>5, ReceivedTyped

\* A payment that is not reversed counts.
LEMMA PaidCounts ==
  ASSUME LedgerInvariant, NEW i \in DOMAIN ledger, i \notin reversed
  PROVE  ledger[i].amount <= Paid(ledger[i].ob)
<1>1. ledger[i].ob \in Obligations
  BY RowTyped
<1>2. i \in Counted(ledger[i].ob)
  BY DEF Counted
<1> QED BY <1>1, <1>2, PaidTyped, ReceivedGrows

LEMMA PaidSame ==
  ASSUME UNCHANGED <<ledger, reversed>>, NEW o
  PROVE  (Paid(o))' = Paid(o)
<1>1. (Counted(o))' = Counted(o)
  BY DEF Counted
<1> QED BY <1>1, PaidIs

LEMMA PaidReversed ==
  ASSUME LedgerInvariant, NEW i \in DOMAIN ledger, ReversePayment(i), NEW o \in Obligations
  PROVE  (Paid(o))' <= Paid(o) /\ (Paid(o))' \in Nat
<1>1. reversed' = reversed \cup {i} /\ ledger' = ledger
  BY DEF ReversePayment
<1>2. Paid(o) \in Nat
  BY PaidTyped
<1>3. (Paid(o))' = Received(ledger, (Counted(o))')
  BY <1>1, PaidIs
<1>4. CASE i \in Counted(o)
  <2>1. (Counted(o))' = Counted(o) \ {i}
    BY <1>1 DEF Counted
  <2>2. Received(ledger, Counted(o) \ {i}) <= Paid(o)
    BY <1>4, PaidTyped, ReceivedGrows
  <2>3. Received(ledger, Counted(o) \ {i}) \in Nat
    <3>1. IsFiniteSet(Counted(o) \ {i}) /\ Amounts(ledger, Counted(o) \ {i})
      BY PaidTyped, FS_Subset DEF Amounts
    <3> QED BY <3>1, ReceivedTyped
  <2> QED BY <1>3, <2>1, <2>2, <2>3
<1>5. CASE i \notin Counted(o)
  <2>1. (Counted(o))' = Counted(o)
    BY <1>1, <1>5 DEF Counted
  <2> QED BY <1>2, <1>3, <2>1, PaidTyped
<1> QED BY <1>4, <1>5

\* A payment that is recorded: the row, and what it adds.
Recording(s) ==
    LET a == Ask[session[s].ask] IN
    ledger' = Append(ledger, [ob |-> a.ob, amount |-> a.amount, key |-> a.key,
                              bank |-> a.bank, late |-> Ended(a.ob)])

LEMMA RowAppended ==
  ASSUME LedgerInvariant, NEW s \in Sessions, InsertPayment(s), Recording(s)
  PROVE  LET n == Len(ledger) + 1  a == Ask[session[s].ask] IN
         /\ session[s].ask \in Requests /\ a.ob \in Obligations /\ a.amount \in Nat \ {0}
         /\ DOMAIN ledger' = DOMAIN ledger \cup {n} /\ n \notin DOMAIN ledger
         /\ \A i \in DOMAIN ledger : ledger'[i] = ledger[i]
         /\ ledger'[n].ob = a.ob /\ ledger'[n].amount = a.amount
         /\ ledger'[n].late = Ended(a.ob)
         /\ reversed' = reversed /\ reversed \subseteq DOMAIN ledger
<1> DEFINE n == Len(ledger) + 1
           a == Ask[session[s].ask]
           tx == [ob |-> a.ob, amount |-> a.amount, key |-> a.key,
                  bank |-> a.bank, late |-> Ended(a.ob)]
<1>1. session[s].ask \in Requests /\ a.ob \in Obligations /\ a.amount \in Nat \ {0}
  BY PaymentsAssumption DEF LedgerInvariant, TypeOK, InsertPayment
<1>2. tx \in Tx /\ tx.ob = a.ob /\ tx.amount = a.amount /\ tx.late = Ended(a.ob)
  BY <1>1 DEF Tx, Ended
<1>3. ledger' = Append(ledger, tx)
  BY DEF Recording
<1>4. ledger \in Seq(Tx) /\ reversed \subseteq DOMAIN ledger /\ reversed' = reversed
  BY DEF LedgerInvariant, TypeOK, InsertPayment
<1> HIDE DEF tx
<1>5. /\ DOMAIN ledger' = DOMAIN ledger \cup {n} /\ n \notin DOMAIN ledger
      /\ \A i \in DOMAIN ledger : ledger'[i] = ledger[i]
      /\ ledger'[n] = tx
  BY <1>2, <1>3, <1>4
<1> QED BY <1>1, <1>2, <1>4, <1>5

LEMMA PaidInserted ==
  ASSUME LedgerInvariant, NEW s \in Sessions, InsertPayment(s), Recording(s),
         NEW o \in Obligations
  PROVE  LET a == Ask[session[s].ask] IN
         (Paid(o))' = IF o = a.ob THEN Paid(o) + a.amount ELSE Paid(o)
<1> DEFINE n == Len(ledger) + 1
           a == Ask[session[s].ask]
           S == Counted(o)
<1>1. /\ a.ob \in Obligations /\ a.amount \in Nat
      /\ DOMAIN ledger' = DOMAIN ledger \cup {n} /\ n \notin DOMAIN ledger
      /\ \A i \in DOMAIN ledger : ledger'[i] = ledger[i]
      /\ ledger'[n].ob = a.ob /\ ledger'[n].amount = a.amount
      /\ reversed' = reversed /\ reversed \subseteq DOMAIN ledger
  BY RowAppended
<1>2. (Paid(o))' = Received(ledger', (Counted(o))')
  BY PaidIs
<1>3. /\ Paid(o) = Received(ledger, S) /\ Paid(o) \in Nat /\ IsFiniteSet(S)
      /\ Amounts(ledger, S) /\ S \subseteq DOMAIN ledger
  BY PaidTyped DEF Counted
<1>4. Received(ledger', S) = Received(ledger, S)
  BY <1>1, <1>3, ReceivedKept
<1>5. CASE o = a.ob
  <2>1. (Counted(o))' = S \cup {n}
    BY <1>1, <1>5 DEF Counted
  <2>2. IsFiniteSet(S \cup {n}) /\ Amounts(ledger', S \cup {n}) /\ (S \cup {n}) \ {n} = S
    BY <1>1, <1>3, FS_AddElement DEF Amounts
  <2>3. Received(ledger', S \cup {n}) = a.amount + Received(ledger', S)
    BY <1>1, <2>2, ReceivedWithout
  <2> QED BY <1>1, <1>2, <1>3, <1>4, <1>5, <2>1, <2>3
<1>6. CASE o # a.ob
  <2>1. (Counted(o))' = S
    BY <1>1, <1>6 DEF Counted
  <2> QED BY <1>2, <1>3, <1>4, <1>6, <2>1
<1> QED BY <1>5, <1>6

\* What a step may do to the payments: nothing, record one, or reverse one.
LEMMA PaymentStep ==
  ASSUME [Next]_payVars
  PROVE  \/ UNCHANGED <<ledger, reversed>>
         \/ \E s \in Sessions : InsertPayment(s) /\ Recording(s)
         \/ \E i \in DOMAIN ledger : ReversePayment(i)
<1>1. ASSUME NEW s \in Sessions, InsertPayment(s)
      PROVE  UNCHANGED <<ledger, reversed>> \/ Recording(s)
  BY <1>1 DEF InsertPayment, Recording
<1> QED BY <1>1
        DEF Next, payVars, Begin, CheckRequest, AbortRequest, CreateRs, SignRs, PrepareSbk,
            SignSbk, RecordSbkFinalNotice, CreatePaymentObligation, EndContract

\* What it may do to the sessions: begin, check, end.
LEMMA SessionStep ==
  ASSUME LedgerInvariant, [Next]_payVars
  PROVE  \/ UNCHANGED session
         \/ \E s \in Sessions :
              /\ \A t \in Sessions : t # s => session'[t] = session[t]
              /\ \/ session'[s] = Idle
                 \/ /\ session'[s].at = "check" /\ session'[s].ask \in Requests
                    /\ ~Held(UnitOf(Ask[session'[s].ask].ob))
                 \/ /\ session'[s].at = "insert" /\ session'[s].ask = session[s].ask
                    /\ session[s].at = "check"
                    /\ UNCHANGED <<amount, ledger, reversed>>
                    /\ LET a == Ask[session[s].ask] IN a.amount <= amount[a.ob] - Paid(a.ob)
<1>1. ASSUME NEW s \in Sessions
      PROVE  session[s].at \in {"idle", "check", "insert"}
             /\ session \in [Sessions -> [at : {"idle", "check", "insert"},
                                          ask : Requests \cup {NoRequest}]]
  BY DEF LedgerInvariant, TypeOK
<1>2. ASSUME NEW s \in Sessions, NEW r \in Requests, Begin(s, r)
      PROVE  /\ \A t \in Sessions : t # s => session'[t] = session[t]
             /\ session'[s].at = "check" /\ session'[s].ask \in Requests
             /\ ~Held(UnitOf(Ask[session'[s].ask].ob))
  BY <1>1, <1>2 DEF Begin
<1>3. ASSUME NEW s \in Sessions, InsertPayment(s) \/ AbortRequest(s)
      PROVE  /\ \A t \in Sessions : t # s => session'[t] = session[t]
             /\ session'[s] = Idle
  BY <1>1, <1>3 DEF InsertPayment, AbortRequest
<1>4. ASSUME NEW s \in Sessions, CheckRequest(s)
      PROVE  /\ \A t \in Sessions : t # s => session'[t] = session[t]
             /\ \/ session'[s] = Idle
                \/ /\ session'[s].at = "insert" /\ session'[s].ask = session[s].ask
                   /\ session[s].at = "check"
                   /\ UNCHANGED <<amount, ledger, reversed>>
                   /\ LET a == Ask[session[s].ask] IN a.amount <= amount[a.ob] - Paid(a.ob)
  <2> DEFINE a == Ask[session[s].ask]
             proceeds == Recorded(a) = {} /\ a.amount <= amount[a.ob] - Paid(a.ob)
  <2>1. /\ session[s].at = "check" /\ UNCHANGED <<amount, ledger, reversed>>
        /\ session' = [session EXCEPT ![s] =
                         IF proceeds THEN [at |-> "insert", ask |-> session[s].ask] ELSE Idle]
    BY <1>4 DEF CheckRequest
  <2>2. CASE proceeds
    <3>1. session' = [session EXCEPT ![s] = [at |-> "insert", ask |-> session[s].ask]]
          /\ a.amount <= amount[a.ob] - Paid(a.ob)
      BY <2>1, <2>2
    <3> HIDE DEF a, proceeds
    <3>2. session'[s] = [at |-> "insert", ask |-> session[s].ask]
      BY <1>1, <3>1
    <3>3. \A t \in Sessions : t # s => session'[t] = session[t]
      BY <1>1, <3>1
    <3> QED BY <2>1, <3>1, <3>2, <3>3 DEF a
  <2>3. CASE ~proceeds
    <3>1. session' = [session EXCEPT ![s] = Idle]
      BY <2>1, <2>3
    <3> HIDE DEF proceeds
    <3> QED BY <1>1, <3>1
  <2> QED BY <2>2, <2>3
<1>5. CASE UNCHANGED session
  BY <1>5
<1> QED BY <1>2, <1>3, <1>4, <1>5
        DEF Next, payVars, ReversePayment, CreateRs, SignRs, PrepareSbk, SignSbk,
            RecordSbkFinalNotice, CreatePaymentObligation, EndContract

LEMMA OneHolderKept ==
  ASSUME LedgerInvariant, OneHolder, [Next]_payVars
  PROVE  OneHolder'
<1>1. CASE UNCHANGED session
  BY <1>1 DEF OneHolder
<1>2. CASE ~UNCHANGED session
  <2>1. PICK s \in Sessions :
            /\ \A t \in Sessions : t # s => session'[t] = session[t]
            /\ \/ session'[s] = Idle
               \/ /\ session'[s].at = "check"
                  /\ ~Held(UnitOf(Ask[session'[s].ask].ob))
               \/ session'[s].ask = session[s].ask /\ session[s].at = "check"
    BY <1>2, SessionStep
  <2> QED BY <2>1 DEF OneHolder, Held, Idle
<1> QED BY <1>1, <1>2

LEMMA RoomKept ==
  ASSUME LedgerInvariant, MoneyInvariant, Terms, [Next]_payVars
  PROVE  Room'
<1> SUFFICES ASSUME NEW s \in Sessions, session'[s].at = "insert"
             PROVE  (LET a == Ask[session[s].ask] IN a.amount <= amount[a.ob] - Paid(a.ob))'
  BY DEF Room
<1> DEFINE Fits(r) == Ask[r].amount <= amount[Ask[r].ob] - Paid(Ask[r].ob)
<1>1. \/ session'[s] = session[s]
      \/ /\ session'[s].ask = session[s].ask /\ session[s].at = "check"
         /\ UNCHANGED <<amount, ledger, reversed>> /\ Fits(session[s].ask)
  BY SessionStep DEF Idle
<1>2. session[s].ask \in Requests
  BY <1>1 DEF LedgerInvariant, TypeOK
<1>3. ASSUME NEW r \in Requests, session'[s].ask = r, Fits(r)' PROVE
             (LET a == Ask[session[s].ask] IN a.amount <= amount[a.ob] - Paid(a.ob))'
  BY <1>3 DEF Paid
<1>4. CASE session'[s] # session[s]
  <2>1. Fits(session[s].ask) /\ UNCHANGED <<amount, ledger, reversed>>
        /\ session'[s].ask = session[s].ask
    BY <1>1, <1>4
  <2>2. \A r \in {session[s].ask} : Fits(r)'
    BY <2>1, PaidSame
  <2> QED BY <1>2, <1>3, <2>1, <2>2
<1>5. CASE session'[s] = session[s]
  <2> SUFFICES ASSUME NEW r \in Requests, session[s].ask = r PROVE Fits(r)'
    BY <1>2, <1>3, <1>5
  <2> DEFINE o == Ask[r].ob
  <2>1. Fits(r) /\ o \in Obligations /\ Ask[r].amount \in Nat /\ session[s].at = "insert"
    BY <1>5, PaymentsAssumption DEF MoneyInvariant, Room
  <2>2. amount[o] <= amount'[o] /\ amount[o] \in Nat /\ amount'[o] \in Nat
    <3>1. LedgerInvariant'
      BY NextLedger
    <3>2. amount \in [Obligations -> Nat] /\ amount' \in [Obligations -> Nat]
      BY <3>1 DEF LedgerInvariant, TypeOK
    <3> QED BY <2>1, <3>2, TermsKept
  <2>3. (Paid(o))' <= Paid(o) /\ Paid(o) \in Nat /\ (Paid(o))' \in Nat
    <3>1. Paid(o) \in Nat
      BY <2>1, PaidTyped
    <3>2. CASE UNCHANGED <<ledger, reversed>>
      BY <3>1, <3>2, PaidSame
    <3>3. ASSUME NEW i \in DOMAIN ledger, ReversePayment(i)
          PROVE  (Paid(o))' <= Paid(o) /\ (Paid(o))' \in Nat
      BY <2>1, <3>3, PaidReversed
    <3>4. ASSUME NEW t \in Sessions, InsertPayment(t), Recording(t)
          PROVE  (Paid(o))' <= Paid(o) /\ (Paid(o))' \in Nat
      <4>1. session'[t] = Idle /\ session[t].at = "insert"
        BY <3>4 DEF InsertPayment, LedgerInvariant, TypeOK
      <4>2. t # s
        BY <2>1, <4>1, <1>5 DEF Idle
      <4>3. Ask[session[t].ask].ob # o
        BY <2>1, <4>1, <4>2 DEF MoneyInvariant, OneHolder
      <4> QED BY <2>1, <3>1, <3>4, <4>3, PaidInserted
    <3> QED BY <3>1, <3>2, <3>3, <3>4, PaymentStep
  <2> QED BY <2>1, <2>2, <2>3
<1> QED BY <1>4, <1>5

LEMMA PositiveKept ==
  ASSUME LedgerInvariant, Positive, [Next]_payVars
  PROVE  Positive'
<1>1. CASE UNCHANGED <<ledger, reversed>>
  BY <1>1 DEF Positive
<1>2. ASSUME NEW i \in DOMAIN ledger, ReversePayment(i) PROVE Positive'
  BY <1>2 DEF ReversePayment, Positive
<1>3. ASSUME NEW s \in Sessions, InsertPayment(s), Recording(s) PROVE Positive'
  BY <1>3, RowAppended DEF Positive
<1> QED BY <1>1, <1>2, <1>3, PaymentStep

\* Nothing is counted beyond what is asked for: a session inserts what still fits.
LEMMA NeverOverpaidKept ==
  ASSUME LedgerInvariant, MoneyInvariant, Terms, [Next]_payVars
  PROVE  NeverOverpaid'
<1> SUFFICES ASSUME NEW o \in Obligations PROVE (Paid(o) <= amount[o])'
  BY DEF NeverOverpaid
<1>1. amount[o] <= amount'[o] /\ amount[o] \in Nat /\ amount'[o] \in Nat
  <2>1. LedgerInvariant'
    BY NextLedger
  <2>2. amount \in [Obligations -> Nat] /\ amount' \in [Obligations -> Nat]
    BY <2>1 DEF LedgerInvariant, TypeOK
  <2> QED BY <2>2, TermsKept
<1>2. Paid(o) <= amount[o] /\ Paid(o) \in Nat
  BY PaidTyped DEF MoneyInvariant, NeverOverpaid
<1>3. CASE UNCHANGED <<ledger, reversed>>
  BY <1>1, <1>2, <1>3, PaidSame
<1>4. ASSUME NEW i \in DOMAIN ledger, ReversePayment(i) PROVE (Paid(o) <= amount[o])'
  BY <1>1, <1>2, <1>4, PaidReversed
<1>5. ASSUME NEW s \in Sessions, InsertPayment(s), Recording(s) PROVE (Paid(o) <= amount[o])'
  <2> DEFINE a == Ask[session[s].ask]
  <2>1. a.ob \in Obligations /\ a.amount \in Nat
    BY <1>5, RowAppended
  <2>2. a.amount <= amount[a.ob] - Paid(a.ob)
    BY <1>5 DEF InsertPayment, MoneyInvariant, Room
  <2>3. (Paid(o))' = IF o = a.ob THEN Paid(o) + a.amount ELSE Paid(o)
    BY <1>5, PaidInserted
  <2> QED BY <1>1, <1>2, <2>1, <2>2, <2>3
<1> QED BY <1>3, <1>4, <1>5, PaymentStep

\* The end of a contract finds every payment that counts, and decides about it;
\* what comes later is marked late.
LEMMA ReceiptsDecidedKept ==
  ASSUME LedgerInvariant, MoneyInvariant, [Next]_payVars
  PROVE  ReceiptsDecided'
<1>1. LedgerInvariant' /\ reversed \subseteq DOMAIN ledger
  BY NextLedger DEF LedgerInvariant, TypeOK
<1>2. ASSUME NEW o \in Obligations, decision[o] # NoDecision PROVE decision'[o] # NoDecision
  <2>1. CASE UNCHANGED decision
    BY <1>2, <2>1
  <2>2. ASSUME NEW c \in Contracts, EndContract(c) PROVE decision'[o] # NoDecision
    <3>1. o \notin ObligationsOf(c)
      BY <1>2, <2>2 DEF LedgerInvariant, DecidedHasEnded, Ended, ObligationsOf,
                        EndContract, Unfinished
    <3> QED BY <1>2, <2>2, <3>1 DEF EndContract
  <2> QED BY <2>1, <2>2
          DEF Next, payVars, Begin, CheckRequest, InsertPayment, AbortRequest, ReversePayment,
              CreateRs, SignRs, PrepareSbk, SignSbk, RecordSbkFinalNotice,
              CreatePaymentObligation
<1>3. ASSUME NEW i \in DOMAIN ledger, i \notin reversed, ~ledger[i].late,
             ContractOf(ledger[i].ob) \in Contracts,
             contract'[ContractOf(ledger[i].ob)] = "ended"
      PROVE  decision'[ledger[i].ob] # NoDecision
  <2> DEFINE o == ledger[i].ob
  <2>1. o \in Obligations /\ ledger[i].amount \in Nat
    BY RowTyped
  <2>2. CASE Ended(o)
    BY <1>2, <1>3, <2>1, <2>2 DEF MoneyInvariant, ReceiptsDecided
  <2>3. ContractOf(o) \in Contracts /\ contract'[ContractOf(o)] = "ended"
    BY <1>3
  <2>4. CASE ~Ended(o)
    <3>1. PICK c \in Contracts : EndContract(c) /\ ContractOf(o) = c
      <4> SUFFICES ASSUME \A c \in Contracts : EndContract(c) => ContractOf(o) # c
                   PROVE  FALSE
        OBVIOUS
      <4>1. ContractOf(o) \in Contracts /\ contract'[ContractOf(o)] = "ended"
            /\ contract[ContractOf(o)] # "ended"
        BY <2>4, <2>3 DEF Ended
      <4>2. contract \in [Contracts -> {"absent", "draft", "signed", "ended"}]
        BY DEF LedgerInvariant, TypeOK
      <4>3. \A c \in Contracts : ~EndContract(c)
        BY <4>1, <4>2 DEF EndContract
      <4> QED BY <4>1, <4>2, <4>3
              DEF Next, payVars, Begin, CheckRequest, InsertPayment, AbortRequest,
                  ReversePayment, CreateRs, SignRs, PrepareSbk, SignSbk,
                  RecordSbkFinalNotice, CreatePaymentObligation
    <3>2. Paid(o) > 0
      <4>1. ledger[i].amount <= Paid(o)
        BY <1>3, PaidCounts
      <4>2. ledger[i].amount > 0 /\ ledger[i].amount \in Nat /\ Paid(o) \in Nat
        BY <2>1, PaidTyped DEF MoneyInvariant, Positive
      <4> QED BY <4>1, <4>2
    <3>3. o \in ObligationsOf(c)
      BY <2>1, <3>1 DEF ObligationsOf
    <3>4. PICK D \in Decisions(c) :
              /\ EveryReceiptDecided(D, c)
              /\ decision' = [x \in Obligations |->
                                IF x \in ObligationsOf(c) THEN D[x] ELSE decision[x]]
      BY <3>1 DEF EndContract
    <3>5. D[o] # NoDecision
      BY <3>2, <3>3, <3>4 DEF EveryReceiptDecided
    <3> QED BY <2>1, <3>3, <3>4, <3>5
  <2> QED BY <2>2, <2>4
<1>4. CASE UNCHANGED <<ledger, reversed>>
  BY <1>3, <1>4 DEF ReceiptsDecided, Ended
<1>5. ASSUME NEW i \in DOMAIN ledger, ReversePayment(i) PROVE ReceiptsDecided'
  <2>1. ledger' = ledger /\ reversed' = reversed \cup {i}
    BY <1>5 DEF ReversePayment
  <2> QED BY <1>3, <2>1 DEF ReceiptsDecided, Ended
<1>6. ASSUME NEW s \in Sessions, InsertPayment(s), Recording(s) PROVE ReceiptsDecided'
  <2> DEFINE n == Len(ledger) + 1
             o == Ask[session[s].ask].ob
  <2>1. /\ DOMAIN ledger' = DOMAIN ledger \cup {n} /\ n \notin DOMAIN ledger
        /\ \A i \in DOMAIN ledger : ledger'[i] = ledger[i]
        /\ ledger'[n].ob = o /\ ledger'[n].late = Ended(o) /\ reversed' = reversed
    BY <1>6, RowAppended
  <2>2. UNCHANGED contract
    BY <1>6 DEF InsertPayment
  <2>3. ASSUME NEW j \in DOMAIN ledger', j \notin reversed',
               Ended(ledger'[j].ob), ~ledger'[j].late
        PROVE  decision'[ledger'[j].ob] # NoDecision
    <3>1. CASE j = n
      BY <2>1, <2>3, <3>1
    <3>2. CASE j # n
      <4>1. j \in DOMAIN ledger /\ ledger'[j] = ledger[j]
        BY <2>1, <3>2
      <4> QED BY <1>3, <2>1, <2>2, <2>3, <4>1 DEF Ended
    <3> QED BY <3>1, <3>2
  <2> QED BY <2>2, <2>3 DEF ReceiptsDecided, Ended
<1> QED BY <1>4, <1>5, <1>6, PaymentStep

LEMMA InitMoney == Init => MoneyInvariant
<1> SUFFICES ASSUME Init PROVE MoneyInvariant
  OBVIOUS
<1>1. LedgerInvariant
  BY InitLedger
<1>2. ASSUME NEW o \in Obligations PROVE Paid(o) <= amount[o]
  <2>1. Counted(o) = {} /\ amount[o] \in Nat
    BY PaymentsAssumption DEF Init, Counted
  <2>2. Paid(o) = 0
    BY <1>1, <2>1, PaidTyped, ReceivedStep
  <2> QED BY <2>1, <2>2
<1> QED BY <1>2 DEF Init, Idle, MoneyInvariant, OneHolder, Room, Positive, NeverOverpaid,
                    ReceiptsDecided

LEMMA MoneyCorrect == Spec => [](LedgerInvariant /\ Terms /\ MoneyInvariant)
<1>1. Init => LedgerInvariant /\ Terms /\ MoneyInvariant
  BY InitLedger, InitMoney DEF Init, Terms, Obligations, Contracts, NoPlan
<1>2. LedgerInvariant /\ Terms /\ MoneyInvariant /\ [Next]_payVars
        => (LedgerInvariant /\ Terms /\ MoneyInvariant)'
  <2> SUFFICES ASSUME LedgerInvariant, Terms, MoneyInvariant, [Next]_payVars
               PROVE  (LedgerInvariant /\ Terms /\ MoneyInvariant)'
    OBVIOUS
  <2>1. LedgerInvariant' /\ Terms'
    BY NextLedger, TermsKept
  <2>2. OneHolder' /\ Positive'
    BY OneHolderKept, PositiveKept DEF MoneyInvariant
  <2>3. Room' /\ NeverOverpaid' /\ ReceiptsDecided'
    BY RoomKept, NeverOverpaidKept, ReceiptsDecidedKept
  <2> QED BY <2>1, <2>2, <2>3 DEF MoneyInvariant
<1> QED BY <1>1, <1>2, PTL DEF Spec

\* Concurrent and repeated requests, and reversals between their steps, never count
\* more on an obligation than it asks for, for any number of sessions and amounts.
THEOREM NeverOverpaidCorrect == Spec => []NeverOverpaid
BY MoneyCorrect, PTL DEF MoneyInvariant

\* What was received before a contract ended, and not reversed, has a refund
\* decision: no payment slips in between the decisions and the end.
THEOREM ReceiptsDecidedCorrect == Spec => []ReceiptsDecided
BY MoneyCorrect, PTL DEF MoneyInvariant
=============================================================================
