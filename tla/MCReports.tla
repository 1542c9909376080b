------------------------------- MODULE MCReports ------------------------------
(***************************************************************************)
(* A small instance of Reports for TLC.  The pages are interchangeable.    *)
(***************************************************************************)
EXTENDS Reports, TLC

PageSymmetry == Permutations(Page)
===============================================================================
