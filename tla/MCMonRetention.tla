---------------------------- MODULE MCMonRetention ----------------------------
(***************************************************************************)
(* A small instance of MonRetention for TLC: days of two units, one day of *)
(* retention, and DELETEs of two rows, so that two loops leave one of five.*)
(***************************************************************************)
EXTENDS MonRetention
===============================================================================
