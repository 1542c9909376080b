------------------------------ MODULE Transfers -------------------------------
(***************************************************************************)
(* The bindings of salesmen to teachers, and the transfer of all of a      *)
(* leaving teacher's bindings to another one: a read of what will be       *)
(* transferred, then one transaction of three statements.                  *)
(*                                                                         *)
(* The table teacher_sales is the set of its (teacher, salesman) pairs,    *)
(* which uk_teacher_user makes unique.  Every request runs in a session of *)
(* its own.  Of InnoDB's locks the model keeps those any plan of the       *)
(* statements takes: the rows that are written (exclusive) and the rows of *)
(* the replacing teacher that made a row superfluous (shared).  The gaps   *)
(* it locks as well would only leave fewer interleavings.                  *)
(***************************************************************************)
EXTENDS Integers, Sequences, FiniteSets

CONSTANTS Teacher, Salesman,
          Synced,      \* the salesmen that have a row in sales_user
          Client,      \* sessions that transfer
          MaxRecords   \* rows of teacher_resign (bounds TLC)

ASSUME TransfersAssumption ==
    Teacher # {} /\ Synced \subseteq Salesman /\ MaxRecords \in Nat

VARIABLES
    bound,   \* teacher_sales
    record,  \* teacher_resign in id order; `taken` and `alone` are history
    op       \* where each session is in AddResign

transferVars == <<bound, record, op>>

Pair == Teacher \X Salesman
Record == [from : Teacher, to : Teacher, salesmen : SUBSET Salesman,
           taken : SUBSET Salesman, alone : BOOLEAN]
Op == [pc : {"idle", "delete", "move", "record"}, from : Teacher, to : Teacher,
       salesmen : SUBSET Salesman,   \* the snapshot read before the transaction
       overlap : SUBSET Salesman,    \* bindings the transaction has deleted
       moved : SUBSET Salesman,      \* bindings it has moved
       alone : BOOLEAN]              \* history: no one else wrote meanwhile

TransferTypeOK ==
    /\ bound \in SUBSET Pair
    /\ record \in Seq(Record)
    /\ op \in [Client -> Op]

Idle(t) == [pc |-> "idle", from |-> t, to |-> t, salesmen |-> {},
            overlap |-> {}, moved |-> {}, alone |-> TRUE]
NoOps == [c \in Client |-> Idle(CHOOSE t \in Teacher : TRUE)]

TransferInit ==
    /\ bound \in SUBSET Pair
    /\ record = <<>>
    /\ op = NoOps

At(c, pc) == op[c].pc = pc
BoundTo(t) == {u \in Salesman : <<t, u>> \in bound}

\* The rows a session has written and not yet committed.
Exclusive(c) ==
    {op[c].from} \X (op[c].overlap \cup op[c].moved) \cup {op[c].to} \X op[c].moved

NotShared(c) == {}   \* faulty: the joined rows are read without a lock
Shared(c) == {op[c].to} \X op[c].overlap

Others(c) == Client \ {c}
CanWrite(c, rows) == \A d \in Others(c) : rows \cap (Exclusive(d) \cup Shared(d)) = {}
CanShare(c, rows) == \A d \in Others(c) : rows \cap Exclusive(d) = {}

\* The other sessions in the middle of AddResign are no longer alone.
Disturb(c) ==
    [d \in Client |-> IF d # c /\ op[d].pc # "idle"
                      THEN [op[d] EXCEPT !.alone = FALSE] ELSE op[d]]

-------------------------------------------------------------------------------
\* INSERT IGNORE: pairs that are there already stay as they are.
BindTeacherSales(t, users) ==
    /\ users # {}
    /\ \A c \in Client : {t} \X users \cap Exclusive(c) = {}
    /\ bound' = bound \cup {t} \X users
    /\ op' = [c \in Client |-> IF op[c].pc # "idle"
                               THEN [op[c] EXCEPT !.alone = FALSE] ELSE op[c]]
    /\ UNCHANGED record

AnyTwo(from, to) == TRUE   \* faulty: a teacher may be replaced by himself
TwoTeachers(from, to) == from # to

\* The join with sales_user leaves out the salesmen that were never synced.
ListTeacherSalesmen(t) == BoundTo(t) \cap Synced

\* The request is checked and the snapshot is read; without a salesman in it
\* the request is refused.
AddResign(c, from, to) ==
    /\ At(c, "idle")
    /\ TwoTeachers(from, to)
    /\ ListTeacherSalesmen(from) # {}
    /\ Len(record) + Cardinality({d \in Client : ~At(d, "idle")}) < MaxRecords
    /\ op' = [op EXCEPT ![c] = [Idle(from) EXCEPT !.pc = "delete", !.to = to,
                                    !.salesmen = ListTeacherSalesmen(from)]]
    /\ UNCHANGED <<bound, record>>

\* DELETE of the bindings the replacing teacher has as well.
DeleteOverlap(c) ==
    LET from == op[c].from
        to   == op[c].to
        both == BoundTo(from) \cap BoundTo(to)
    IN  /\ At(c, "delete")
        /\ CanWrite(c, {from} \X both)
        /\ CanShare(c, {to} \X both)
        /\ op' = [op EXCEPT ![c].pc = "move", ![c].overlap = both]
        /\ UNCHANGED <<bound, record>>

\* UPDATE of the rest.  A binding the replacing teacher got in between violates
\* the unique key: then only Rollback is left.
MoveRest(c) ==
    LET from == op[c].from
        to   == op[c].to
        rest == BoundTo(from) \ op[c].overlap
    IN  /\ At(c, "move")
        /\ CanWrite(c, {from} \X rest)
        /\ CanWrite(c, {to} \X rest)
        /\ rest \cap BoundTo(to) = {}
        /\ op' = [op EXCEPT ![c].pc = "record", ![c].moved = rest]
        /\ UNCHANGED <<bound, record>>

Moved(c) ==
    (bound \ {op[c].from} \X (op[c].overlap \cup op[c].moved))
        \cup {op[c].to} \X op[c].moved

RereadSnapshot(c) == ListTeacherSalesmen(op[c].to)   \* faulty: read too late
Snapshot(c) == op[c].salesmen

\* INSERT of the record and COMMIT.
InsertResignRecord(c) ==
    /\ At(c, "record")
    /\ bound' = Moved(c)
    /\ record' = Append(record,
          [from |-> op[c].from, to |-> op[c].to, salesmen |-> Snapshot(c),
           taken |-> op[c].overlap \cup op[c].moved, alone |-> op[c].alone])
    /\ op' = [Disturb(c) EXCEPT ![c] = NoOps[c]]

\* A statement fails (a duplicate key, a deadlock, a lock wait that lasts too
\* long, the database), or the client gives up.
Rollback(c) ==
    /\ ~At(c, "idle")
    /\ op' = [op EXCEPT ![c] = NoOps[c]]
    /\ UNCHANGED <<bound, record>>

TransferNext ==
    \/ \E t \in Teacher, users \in SUBSET Salesman : BindTeacherSales(t, users)
    \/ \E c \in Client :
          \/ \E from, to \in Teacher : AddResign(c, from, to)
          \/ DeleteOverlap(c) \/ MoveRest(c) \/ InsertResignRecord(c)
          \/ Rollback(c)

TransferSpec == TransferInit /\ [][TransferNext]_transferVars

-------------------------------------------------------------------------------
(***************************************************************************)
(* Properties.                                                             *)
(***************************************************************************)
\* A salesman bound to some teacher stays bound to one, whatever is transferred
\* at once and in which direction: a deleted overlap always has its other row
\* left (repository.transferTeacherSales).
BoundStaysBound ==
    [][\A u \in Salesman : (\E t \in Teacher : <<t, u>> \in bound)
          => \E t \in Teacher : <<t, u>> \in bound']_transferVars

\* A record names exactly the salesmen that were taken from the leaving teacher
\* (of those the join can see) unless another session wrote between the read
\* and the commit (service.AddResign 80-82, repository.TransferResign).
RecordsNameTheMoved ==
    \A i \in DOMAIN record :
        record[i].alone => record[i].salesmen = record[i].taken \cap Synced

\* A record as the transfer that Handovers knows.
Handed(r) == [from |-> r.from, to |-> r.to, taken |-> r.taken, alone |-> r.alone]

Promise == INSTANCE Handovers WITH log <- [i \in DOMAIN record |-> Handed(record[i])]

\* A transfer is one step, whatever other sessions do between its statements and
\* in whichever direction they transfer: what it takes from the leaving teacher,
\* deleted overlaps and moved rows, is the replacing teacher's at its commit, and
\* he has none left but those bound to him meanwhile (repository.TransferResign).
ImplementsHandovers == Promise!HandoverSpec
===============================================================================
