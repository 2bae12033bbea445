------------------------------ MODULE MCWallet ------------------------------
(* Instance of Wallet for TLC. *)
EXTENDS Wallet

=============================================================================
