---------------------------- MODULE MCTeacherServer ---------------------------
(***************************************************************************)
(* A small instance of TeacherServer for TLC.  The sessions are            *)
(* interchangeable.                                                        *)
(***************************************************************************)
EXTENDS TeacherServer, TLC

ClientSymmetry == Permutations(Client)
===============================================================================
