------------------------- MODULE HoldExpiryJobProofs -------------------------
(* Theorems about HoldExpiryJob for any number of runs, tenants and holds. *)
EXTENDS HoldExpiryJob, TLAPS

\* The audit log says as much as the holds do.
AuditInvariant == TypeOK /\ AuditedOnce

-----------------------------------------------------------------------------

LEMMA InitAudit == Init => AuditInvariant
BY HoldExpiryJobAssumption
   DEF Init, AuditInvariant, TypeOK, AuditedOnce, HoldStatus, RunState,
       NotRunning, Tenants, Holds

\* Whatever the batch holds, and however stale it is, one transaction of the
\* job expires a hold and writes its row, or does neither.
LEMMA ExpireNextAudit ==
    ASSUME AuditInvariant, NEW r \in Runs, ExpireNext(r)
    PROVE  AuditInvariant'
<1> DEFINE h == Min(run[r].batch)
<1>1. run' \in [Runs -> RunState]
  <2>1. [run EXCEPT ![r] = NotRunning] \in [Runs -> RunState]
    BY HoldExpiryJobAssumption DEF AuditInvariant, TypeOK, RunState, NotRunning, Tenants
  <2>2. [run EXCEPT ![r].batch = @ \ {h}] \in [Runs -> RunState]
    BY DEF AuditInvariant, TypeOK, RunState
  <2> QED BY <2>1, <2>2 DEF ExpireNext, Fail
<1>2. CASE UNCHANGED <<hold, audits>>
  BY <1>1, <1>2 DEF ExpireNext, AuditInvariant, TypeOK, AuditedOnce
<1>3. CASE /\ Expirable(h)
           /\ hold' = [hold EXCEPT ![h] = "expired"]
           /\ audits' = [audits EXCEPT ![h] = @ + 1]
  <2>1. hold' \in [Holds -> HoldStatus] /\ audits' \in [Holds -> Nat]
    <3> HIDE DEF h
    <3>1. "expired" \in HoldStatus
      BY DEF HoldStatus
    <3>2. hold' \in [Holds -> HoldStatus]
      BY <1>3, <3>1 DEF AuditInvariant, TypeOK
    <3>3. audits' \in [Holds -> Nat]
      <4>1. audits' = [g \in Holds |-> IF g = h THEN audits[g] + 1 ELSE audits[g]]
        BY <1>3, Zenon DEF AuditInvariant, TypeOK
      <4>2. \A g \in Holds : audits[g] \in Nat /\ audits[g] + 1 \in Nat
        BY DEF AuditInvariant, TypeOK
      <4> QED BY <4>1, <4>2
    <3> QED BY <3>2, <3>3
  <2>2. ASSUME NEW g \in Holds
        PROVE  audits'[g] = IF hold'[g] = "expired" THEN 1 ELSE 0
    BY <1>3 DEF AuditInvariant, TypeOK, AuditedOnce, Expirable
  <2> QED BY <1>1, <2>1, <2>2 DEF ExpireNext, AuditInvariant, TypeOK, AuditedOnce
<1> QED BY <1>2, <1>3 DEF ExpireNext

\* The other steps of a run change the run only.
LEMMA RunAudit ==
    ASSUME AuditInvariant, NEW r \in Runs,
           StartRun(r) \/ Scan(r) \/ NextContext(r) \/ AbortRun(r)
    PROVE  AuditInvariant'
<1> USE HoldExpiryJobAssumption DEF AuditInvariant, TypeOK, AuditedOnce, Tenants
<1>1. CASE StartRun(r)
  BY <1>1 DEF StartRun, RunState
<1>2. CASE Scan(r)
  <2>1. FirstOf(Candidates(run[r].tenant), Limit) \subseteq Holds
    BY DEF FirstOf, Candidates
  <2> QED BY <1>2, <2>1 DEF Scan, Fail, RunState, NotRunning
<1>3. CASE NextContext(r)
  BY <1>3 DEF NextContext, RunState, NotRunning
<1>4. CASE AbortRun(r)
  BY <1>4 DEF AbortRun, Fail, RunState, NotRunning
<1> QED BY <1>1, <1>2, <1>3, <1>4

\* Users end holds but never expire them, and never reopen one.
LEMMA UserAudit == AuditInvariant /\ UserStep => AuditInvariant'
<1> SUFFICES ASSUME AuditInvariant, UserStep PROVE AuditInvariant'
  OBVIOUS
<1> USE HoldExpiryJobAssumption DEF AuditInvariant, TypeOK, AuditedOnce, HoldStatus
<1>1. ASSUME NEW h \in Holds, Lapse(h) \/ CancelHold(h) PROVE AuditInvariant'
  BY <1>1 DEF Lapse, CancelHold
<1>2. ASSUME NEW h \in Holds, Sign(h) PROVE AuditInvariant'
  BY <1>2 DEF Sign
<1>3. ASSUME NEW h \in Holds,
             EndSignedContract(h) \/ BlockOrUnblock(h)
               \/ RevokePermission(h) \/ GrantPermission(h)
      PROVE  AuditInvariant'
  BY <1>3 DEF EndSignedContract, BlockOrUnblock, RevokePermission, GrantPermission
<1>4. ASSUME NEW t \in Tenants, DeactivateMember(t) PROVE AuditInvariant'
  BY <1>4 DEF DeactivateMember
<1> QED BY <1>1, <1>2, <1>3, <1>4 DEF UserStep

LEMMA NextAudit == AuditInvariant /\ [Next]_jobVars => AuditInvariant'
<1> SUFFICES ASSUME AuditInvariant, [Next]_jobVars PROVE AuditInvariant'
  OBVIOUS
<1>1. CASE UNCHANGED jobVars
  BY <1>1 DEF jobVars, AuditInvariant, TypeOK, AuditedOnce
<1> QED
  BY <1>1, ExpireNextAudit, RunAudit, UserAudit DEF Next, JobStep

\* Runs, holds and audit rows keep their shape, for any interleaving of runs and
\* users.
THEOREM TypeCorrect == Spec => []TypeOK
<1>1. Init => AuditInvariant
  BY InitAudit
<1>2. AuditInvariant /\ [Next]_jobVars => AuditInvariant'
  BY NextAudit
<1>3. AuditInvariant => TypeOK
  BY DEF AuditInvariant
<1> QED BY <1>1, <1>2, <1>3, PTL DEF Spec

\* However many runs overlap, and whatever users do between a scan and the
\* transactions of its batch, each expired hold has exactly one audit row.
THEOREM AuditedOnceCorrect == Spec => []AuditedOnce
<1>1. Init => AuditInvariant
  BY InitAudit
<1>2. AuditInvariant /\ [Next]_jobVars => AuditInvariant'
  BY NextAudit
<1>3. AuditInvariant => AuditedOnce
  BY DEF AuditInvariant
<1> QED BY <1>1, <1>2, <1>3, PTL DEF Spec

\* A signature, a block or a cancellation recorded after the scan protects its
\* hold from every run that has it in a batch.
THEOREM LaterCommandWinsCorrect == Spec => LaterCommandWins
<1> DEFINE Wins == \A h \in Holds :
      hold[h] = "ended" \/ fact[h] # "free" => hold'[h] # "expired" \/ hold[h] = "expired"
<1>1. AuditInvariant /\ [Next]_jobVars => [Wins]_jobVars
  <2> SUFFICES ASSUME AuditInvariant, Next PROVE Wins
    OBVIOUS
  <2> USE DEF AuditInvariant, TypeOK
  <2>1. ASSUME NEW r \in Runs, JobStep(r) \/ AbortRun(r) PROVE Wins
    BY <2>1 DEF JobStep, AbortRun, StartRun, Scan, ExpireNext, NextContext, Expirable
  <2>2. CASE UserStep
    BY <2>2 DEF UserStep, Lapse, CancelHold, Sign, EndSignedContract, BlockOrUnblock,
                RevokePermission, GrantPermission, DeactivateMember
  <2> QED BY <2>1, <2>2 DEF Next
<1>2. Init => AuditInvariant
  BY InitAudit
<1>3. AuditInvariant /\ [Next]_jobVars => AuditInvariant'
  BY NextAudit
<1> QED BY <1>1, <1>2, <1>3, PTL DEF Spec, LaterCommandWins
=============================================================================
