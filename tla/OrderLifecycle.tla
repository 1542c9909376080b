---------------------------- MODULE OrderLifecycle ----------------------------
(***************************************************************************)
(* What the order pipeline promises to the person who placed an order,     *)
(* with the queues, the consumers and the database left out.               *)
(*                                                                         *)
(* An order is placed, collects its rewards (a points record and a         *)
(* notification) one by one while it is being processed, and ends in one   *)
(* of two ways: completed, with every reward, or cancelled, with none.     *)
(* Cancelling takes the rewards back in the same step that shows the       *)
(* cancellation, and both ends are final.                                  *)
(***************************************************************************)
CONSTANTS Order,     \* the orders
          Reward     \* the kinds of reward an order earns

VARIABLES phase,     \* phase[o]: where order o is in its life
          rewards    \* rewards[o]: the rewards order o holds

lifecycleVars == <<phase, rewards>>

Phase == {"absent", "processing", "completed", "cancelled"}

LifecycleTypeOK == /\ phase \in [Order -> Phase]
                   /\ rewards \in [Order -> SUBSET Reward]

LifecycleInit == /\ phase = [o \in Order |-> "absent"]
                 /\ rewards = [o \in Order |-> {}]

Place(o) == /\ phase[o] = "absent"
            /\ phase' = [phase EXCEPT ![o] = "processing"]
            /\ UNCHANGED rewards

Grant(o, r) == /\ phase[o] = "processing"
               /\ rewards' = [rewards EXCEPT ![o] = @ \cup {r}]
               /\ UNCHANGED phase

Complete(o) == /\ phase[o] = "processing"
               /\ rewards[o] = Reward
               /\ phase' = [phase EXCEPT ![o] = "completed"]
               /\ UNCHANGED rewards

Cancel(o) == /\ phase[o] = "processing"
             /\ phase' = [phase EXCEPT ![o] = "cancelled"]
             /\ rewards' = [rewards EXCEPT ![o] = {}]

LifecycleNext == \E o \in Order : \/ Place(o)
                                  \/ Complete(o)
                                  \/ Cancel(o)
                                  \/ \E r \in Reward : Grant(o, r)

LifecycleSpec == LifecycleInit /\ [][LifecycleNext]_lifecycleVars
===============================================================================
