------------------------------ MODULE MCAccounts ------------------------------
(***************************************************************************)
(* A small instance of Accounts for TLC.  The requests are interchangeable.*)
(***************************************************************************)
EXTENDS Accounts, TLC

ClientSymmetry == Permutations(Client)
===============================================================================
