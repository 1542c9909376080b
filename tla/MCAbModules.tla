----------------------------- MODULE MCAbModules ------------------------------
(***************************************************************************)
(* A small instance of AbModules: one seeded module with one item.         *)
(***************************************************************************)
EXTENDS AbModules, TLC

CONSTANTS spacestation, topBanner

OneModule == <<spacestation>>
OneItem == <<[module |-> 1, key |-> topBanner]>>

ClientSymmetry == Permutations(Client)
===============================================================================
