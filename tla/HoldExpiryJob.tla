---------------------------- MODULE HoldExpiryJob ----------------------------
(***************************************************************************)
(* The scheduled job that expires lapsed pre-reservations.  A run goes     *)
(* through the configured tenants in order.  For each it reads, in one     *)
(* transaction, the first Limit candidates by unit, and then expires them  *)
(* one transaction each.  Between any two of these transactions users      *)
(* sign, block, cancel and revoke, and another run may be under way (the   *)
(* job starts every minute and may last ten).                              *)
(*                                                                         *)
(* Holds are numbered in the order of the scan, each on a unit of its own. *)
(* What a hold's unit looks like is a fact: "free", "signed" (an effective *)
(* signed contract), or "blocked" (any other refusal of                    *)
(* pre_reservation_release_blocker: a planned handover, a blocked unit, a  *)
(* contract signed by some of its parties).                                *)
(***************************************************************************)
EXTENDS Integers, FiniteSets, FiniteSetsExt

CONSTANTS
    Runs,             \* executions of the job that may overlap
    NTenants,         \* the contexts are 1 .. NTenants, in configured order
    NHolds,           \* the holds are 1 .. NHolds, ordered by unit and id
    TenantOf,         \* the tenant of each hold
    Limit,            \* holds taken by one scan (100 in the code)
    Troubled,         \* holds whose unit users may block and unblock at will
    Leaving,          \* tenants whose job membership may be deactivated
    MaxDisturbances   \* bound: aborted runs, revocations, ended contracts

Tenants == 1 .. NTenants
Holds   == 1 .. NHolds

ASSUME HoldExpiryJobAssumption ==
    /\ NTenants \in Nat \ {0} /\ NHolds \in Nat
    /\ TenantOf \in [Holds -> Tenants]
    /\ Limit \in Nat \ {0}
    /\ Troubled \subseteq Holds /\ Leaving \subseteq Tenants
    /\ MaxDisturbances \in Nat

VARIABLES
    hold,       \* the status of each hold; "lapsed" is active with a past date
    fact,       \* what its unit looks like
    granted,    \* holds in whose project the job's member has holds.manage
    members,    \* tenants where the job's membership is active
    audits,     \* number of hold.expired rows of each hold
    run,        \* the executions of the job
    disturbed   \* disturbances so far

jobVars == <<hold, fact, granted, members, audits, run, disturbed>>

-----------------------------------------------------------------------------

HoldStatus == {"waiting", "lapsed", "expired", "ended"}

RunState == [at : {"idle", "scan", "expire"},
             tenant : Tenants,
             batch : SUBSET Holds]

NotRunning == [at |-> "idle", tenant |-> 1, batch |-> {}]

\* One type invariant.
TypeOK ==
    /\ hold \in [Holds -> HoldStatus]
    /\ fact \in [Holds -> {"free", "blocked", "signed"}]
    /\ granted \subseteq Holds
    /\ members \subseteq Tenants
    /\ audits \in [Holds -> Nat]
    /\ run \in [Runs -> RunState]
    /\ disturbed \in 0 .. MaxDisturbances

Init ==
    /\ hold = [h \in Holds |-> "waiting"]
    /\ fact = [h \in Holds |-> "free"]
    /\ granted = Holds
    /\ members = Tenants
    /\ audits = [h \in Holds |-> 0]
    /\ run = [r \in Runs |-> NotRunning]
    /\ disturbed = 0

-----------------------------------------------------------------------------
(* The job. *)

\* Mutant: the scan does not leave out units under a signed contract.
CandidatesUnderSignature(t) ==
    {h \in Holds : TenantOf[h] = t /\ hold[h] = "lapsed" /\ h \in granted}

\* The rows of the scan: blocked units are among them.
Candidates(t) ==
    {h \in Holds : /\ TenantOf[h] = t
                   /\ hold[h] = "lapsed"
                   /\ h \in granted
                   /\ fact[h] # "signed"}

\* ORDER BY unit_id, id LIMIT n.
FirstOf(S, n) == {h \in S : Cardinality({g \in S : g < h}) < n}

\* A raised exception ends the whole run.
Fail(r) == run' = [run EXCEPT ![r] = NotRunning]

StartRun(r) ==
    /\ run[r].at = "idle"
    /\ run' = [run EXCEPT ![r] = [at |-> "scan", tenant |-> 1, batch |-> {}]]
    /\ UNCHANGED <<hold, fact, granted, members, audits, disturbed>>

\* "Expiry job membership is not active" is an exception.
Scan(r) ==
    /\ run[r].at = "scan"
    /\ IF run[r].tenant \in members
       THEN run' = [run EXCEPT ![r] =
                      [at |-> "expire", tenant |-> run[r].tenant,
                       batch |-> FirstOf(Candidates(run[r].tenant), Limit)]]
       ELSE Fail(r)
    /\ UNCHANGED <<hold, fact, granted, members, audits, disturbed>>

\* Mutants: the status, or the unit, is not read again under the lock.
StillActive(h)      == fact[h] = "free"
StillUnprotected(h) == hold[h] = "lapsed"

\* The conditions of expire_unit_hold, read again under the unit's lock.
Expirable(h) == hold[h] = "lapsed" /\ fact[h] = "free"

ExpireNext(r) ==
    LET h == Min(run[r].batch) IN
    /\ run[r].at = "expire"
    /\ run[r].batch # {}
    /\ IF h \in granted /\ TenantOf[h] \in members
       THEN /\ run' = [run EXCEPT ![r].batch = @ \ {h}]
            /\ IF Expirable(h)
               THEN /\ hold' = [hold EXCEPT ![h] = "expired"]
                    /\ audits' = [audits EXCEPT ![h] = @ + 1]
               ELSE UNCHANGED <<hold, audits>>
       ELSE Fail(r) /\ UNCHANGED <<hold, audits>>
    /\ UNCHANGED <<fact, granted, members, disturbed>>

NextContext(r) ==
    /\ run[r].at = "expire"
    /\ run[r].batch = {}
    /\ run' = [run EXCEPT ![r] =
                 IF @.tenant < NTenants
                 THEN [at |-> "scan", tenant |-> @.tenant + 1, batch |-> {}]
                 ELSE NotRunning]
    /\ UNCHANGED <<hold, fact, granted, members, audits, disturbed>>

\* lock_timeout, statement_timeout, the timeout of the job, or a crash: the
\* transaction in progress is rolled back and the run is over.
AbortRun(r) ==
    /\ run[r].at # "idle"
    /\ Fail(r)
    /\ disturbed < MaxDisturbances
    /\ disturbed' = disturbed + 1
    /\ UNCHANGED <<hold, fact, granted, members, audits>>

JobStep(r) == StartRun(r) \/ Scan(r) \/ ExpireNext(r) \/ NextContext(r)

-----------------------------------------------------------------------------
(* The users, whose commands are actions of UnitSales, and time. *)

Lapse(h) ==
    /\ hold[h] = "waiting"
    /\ hold' = [hold EXCEPT ![h] = "lapsed"]
    /\ UNCHANGED <<fact, granted, members, audits, run, disturbed>>

CancelHold(h) ==
    /\ hold[h] \in {"waiting", "lapsed"}
    /\ fact[h] = "free"
    /\ hold' = [hold EXCEPT ![h] = "ended"]
    /\ UNCHANGED <<fact, granted, members, audits, run, disturbed>>

\* An RS converts the hold; an SBK or KS leaves it active.
Sign(h) ==
    /\ fact[h] # "signed"
    /\ hold[h] \in {"waiting", "lapsed"}
    /\ fact' = [fact EXCEPT ![h] = "signed"]
    /\ hold' \in {hold, [hold EXCEPT ![h] = "ended"]}
    /\ UNCHANGED <<granted, members, audits, run, disturbed>>

\* An ended contract no longer protects the unit, and frees no pre-reservation.
EndSignedContract(h) ==
    /\ fact[h] = "signed"
    /\ fact' = [fact EXCEPT ![h] = "free"]
    /\ disturbed < MaxDisturbances
    /\ disturbed' = disturbed + 1
    /\ UNCHANGED <<hold, granted, members, audits, run>>

BlockOrUnblock(h) ==
    /\ h \in Troubled
    /\ fact[h] # "signed"
    /\ fact' = [fact EXCEPT ![h] = IF @ = "free" THEN "blocked" ELSE "free"]
    /\ UNCHANGED <<hold, granted, members, audits, run, disturbed>>

RevokePermission(h) ==
    /\ h \in granted
    /\ granted' = granted \ {h}
    /\ disturbed < MaxDisturbances
    /\ disturbed' = disturbed + 1
    /\ UNCHANGED <<hold, fact, members, audits, run>>

GrantPermission(h) ==
    /\ h \notin granted
    /\ granted' = granted \cup {h}
    /\ UNCHANGED <<hold, fact, members, audits, run, disturbed>>

DeactivateMember(t) ==
    /\ t \in Leaving \cap members
    /\ members' = members \ {t}
    /\ UNCHANGED <<hold, fact, granted, audits, run, disturbed>>

UserStep ==
    \/ \E h \in Holds : \/ Lapse(h) \/ CancelHold(h)
                        \/ Sign(h) \/ EndSignedContract(h) \/ BlockOrUnblock(h)
                        \/ RevokePermission(h) \/ GrantPermission(h)
    \/ \E t \in Tenants : DeactivateMember(t)

Next ==
    \/ \E r \in Runs : JobStep(r) \/ AbortRun(r)
    \/ UserStep

\* The platform starts the job every minute and a transaction that may proceed
\* does.  Nothing is assumed of users, clock and failures.
Spec == Init /\ [][Next]_jobVars /\ \A r \in Runs : WF_jobVars(JobStep(r))

-----------------------------------------------------------------------------

\* A hold the job has to expire: lapsed, and nothing refuses it.
Due(h) ==
    /\ Expirable(h)
    /\ h \in granted
    /\ TenantOf[h] \in members

\* Runs that overlap, and batches read before a user's command, expire a hold
\* at most once: one row of the audit log for each expired hold.
AuditedOnce ==
    \A h \in Holds : audits[h] = IF hold[h] = "expired" THEN 1 ELSE 0

\* A signature, a block or a cancellation after the scan wins over the batch.
LaterCommandWins ==
    [][\A h \in Holds :
         hold[h] = "ended" \/ fact[h] # "free" => hold'[h] # "expired" \/ hold[h] = "expired"
      ]_jobVars

\* No hold stays due for ever, although runs fail and refused holds take places
\* in every batch, as long as fewer than Limit holds are refused.
EveryDueHoldExpires == \A h \in Holds : []<>~Due(h)
=============================================================================
