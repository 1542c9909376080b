------------------------------ MODULE MCMonAlerts -----------------------------
(***************************************************************************)
(* A small instance of MonAlerts for TLC: an urgent rule and one that is   *)
(* not, both at threshold 0, the smallest at which a rule can fire.        *)
(***************************************************************************)
EXTENDS MonAlerts

CONSTANTS chunk,   \* the rule CHUNK_LOAD_SURGE, P0
          jserr    \* the rule ERROR_SURGE, P1

RulesInOrder == <<chunk, jserr>>
NoTolerance == [r \in Class |-> 0]
===============================================================================
