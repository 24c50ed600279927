------------------------------ MODULE MCAccounts ------------------------------
(***************************************************************************)
(* A small instance of Accounts: two requests at once on either side, one  *)
(* subscription of the account and one of a stranger.                      *)
(***************************************************************************)
EXTENDS Accounts, TLC
=============================================================================
