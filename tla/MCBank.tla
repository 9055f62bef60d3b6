------------------------------- MODULE MCBank -------------------------------
(* Small instances of VmBank for TLC; int64 ends at 2, the caller's native *)
(* balance of 3 does not fit it.                                           *)
EXTENDS VmBank

CONSTANTS alice, realm, pool, module

MCAccounts == {alice, realm, pool, module}
MCGenesisNative == [a \in MCAccounts |-> IF a = alice THEN 3 ELSE 0]
=============================================================================
