--------------------------- MODULE MCOrderPipeline ----------------------------
(***************************************************************************)
(* Small instances of OrderPipeline for TLC.                               *)
(***************************************************************************)
EXTENDS OrderPipeline, TLC

\* How often each disturbance may happen: crashes and database failures of
\* the consumer, shutdowns, republished events and administrator's writes.
Disturbances(crash, db, stop, dup, edit) ==
    ("crash" :> crash) @@ ("db" :> db) @@ ("stop" :> stop) @@ ("dup" :> dup)
        @@ ("edit" :> edit)

BudgetFaults == Disturbances(1, 1, 0, 1, 0)
BudgetLive   == Disturbances(1, 1, 1, 0, 2)

OrderSymmetry == Permutations(Order)
===============================================================================
