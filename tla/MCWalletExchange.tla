-------------------------- MODULE MCWalletExchange --------------------------
(* WalletExchange with two offers, one of a credential that is passed over, and *)
(* two sessions.                                                              *)
EXTENDS WalletExchange

CONSTANTS o1, o2
=============================================================================
