------------------------------ MODULE Handovers -------------------------------
(***************************************************************************)
(* What the transfer of a leaving teacher's salesmen promises, with the    *)
(* sessions, the statements and the locks left out: the salesmen that are  *)
(* taken from one teacher are another one's in the same step, nobody else  *)
(* is touched, and the transfer is on record.  If nobody bound or          *)
(* transferred anything meanwhile, all of the teacher's salesmen are taken.*)
(***************************************************************************)
EXTENDS Sequences

CONSTANTS Teacher, Salesman

VARIABLES bound,   \* who is whose: pairs of a teacher and a salesman
          log      \* the transfers, in their order

handoverVars == <<bound, log>>

Handover == [from : Teacher, to : Teacher, taken : SUBSET Salesman, alone : BOOLEAN]

HandoverInit ==
    /\ bound \in SUBSET (Teacher \X Salesman)
    /\ log \in Seq(Handover)

Bind(t, users) ==
    /\ bound' = bound \cup {t} \X users
    /\ UNCHANGED log

HandOver(h) ==
    LET own == {u \in Salesman : <<h.from, u>> \in bound}
    IN  /\ h.from # h.to
        /\ h.taken \subseteq own
        /\ h.alone => h.taken = own
        /\ bound' = (bound \ {h.from} \X h.taken) \cup {h.to} \X h.taken
        /\ log' = Append(log, h)

HandoverNext ==
    \/ \E t \in Teacher, users \in SUBSET Salesman : Bind(t, users)
    \/ \E h \in Handover : HandOver(h)

HandoverSpec == HandoverInit /\ [][HandoverNext]_handoverVars
===============================================================================
