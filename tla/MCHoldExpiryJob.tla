-------------------------- MODULE MCHoldExpiryJob --------------------------
(* HoldExpiryJob with a named assignment of holds to tenants. *)
EXTENDS HoldExpiryJob

SecondTenant == <<2, 2, 2>>
=============================================================================
