------------------------------ MODULE AlertLives ------------------------------
(***************************************************************************)
(* What an alert promises to those who watch the site, with the scans, the *)
(* events they count, the failures and the table's keys left out: it is    *)
(* raised when its fault has none open, the robot hears of it at most once *)
(* and only if it is loud, and it is closed for good.                      *)
(***************************************************************************)
EXTENDS Naturals, Sequences

CONSTANTS Fault,   \* what may be wrong with the site
          Loud     \* the faults that the robot is told of

VARIABLE alert     \* the alerts of each fault, in the order they were raised

Raised == [status |-> "pending", pushed |-> 0]

LivesInit == alert = [f \in Fault |-> <<>>]

Raise(f) ==
    /\ \A n \in DOMAIN alert[f] : alert[f][n].status = "acked"
    /\ alert' = [alert EXCEPT ![f] = Append(@, Raised)]

Tell(f, n) ==
    /\ f \in Loud
    /\ alert[f][n].pushed = 0
    /\ alert' = [alert EXCEPT ![f][n].pushed = 1]

Close(f, n) ==
    /\ alert[f][n].status = "pending"
    /\ alert' = [alert EXCEPT ![f][n].status = "acked"]

LivesNext ==
    \E f \in Fault :
        \/ Raise(f)
        \/ \E n \in DOMAIN alert[f] : Tell(f, n) \/ Close(f, n)

LivesSpec == LivesInit /\ [][LivesNext]_alert
===============================================================================
