------------------------------ MODULE MCLoadTest ------------------------------
(***************************************************************************)
(* A small instance of LoadTest for TLC: two requests of the test, with a  *)
(* crash of the consumer at any moment.                                    *)
(***************************************************************************)
EXTENDS LoadTest, TLC

JobSymmetry == Permutations(Order)

OneCrash == [d \in Disturbance |-> IF d = "crash" THEN 1 ELSE 0]
===============================================================================
