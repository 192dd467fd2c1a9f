------------------------------ MODULE MCAccounts ------------------------------
(* Instances of MerchantAccounts small enough for TLC. *)
EXTENDS MerchantAccounts

CONSTANT alice

\* An older release's flat plan.
OldFlat == {FlatAt(0)}
==============================================================================
