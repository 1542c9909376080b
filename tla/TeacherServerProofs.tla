-------------------------- MODULE TeacherServerProofs --------------------------
(***************************************************************************)
(* Proofs about TeacherServer and the Transfers it serves, for any number  *)
(* of teachers, salesmen and sessions and any number of restarts.          *)
(*                                                                         *)
(* What a transfer leaves behind depends on rows it read statements ago.   *)
(* The invariant says why they are still as they were:                     *)
(*   - LocksHeld: no session writes a row that another one writes or, as   *)
(*     the other row of an overlap, keeps in place;                        *)
(*   - Sound: hence the rows a transfer deletes or moves are still there,  *)
(*     the replacing teacher has those of the overlap and none of the      *)
(*     moved ones, and nothing was bound in between to a transfer that is  *)
(*     alone;                                                              *)
(*   - UpgradedSoFar: the columns that are gone at each statement of the   *)
(*     migration, whatever form the table had before;                      *)
(*   - TextsWereFound: a text in the column about to be dropped was there  *)
(*     when the server was started.                                        *)
(***************************************************************************)
EXTENDS TeacherServer, SequenceTheorems, TLAPS

\* The rows a session holds exclusively and shared, one by one.
Writes(c, t, u) == \/ t = op[c].from /\ u \in op[c].overlap \cup op[c].moved
                   \/ t = op[c].to /\ u \in op[c].moved
Reads(c, t, u) == t = op[c].to /\ u \in op[c].overlap

LocksHeld ==
    \A c, d \in Client : c # d =>
        \A t \in Teacher, u \in Salesman :
            ~(Writes(c, t, u) /\ (Writes(d, t, u) \/ Reads(d, t, u)))

Sound(c) ==
    /\ op[c].pc # "idle" => op[c].from # op[c].to
    /\ op[c].pc \in {"idle", "delete"} => op[c].overlap = {}
    /\ op[c].pc # "record" => op[c].moved = {}
    /\ \A u \in op[c].overlap : <<op[c].from, u>> \in bound /\ <<op[c].to, u>> \in bound
    /\ \A u \in op[c].moved : <<op[c].from, u>> \in bound /\ <<op[c].to, u>> \notin bound
    /\ op[c].pc # "idle" /\ op[c].alone =>
          /\ op[c].salesmen = ListTeacherSalesmen(op[c].from)
          /\ op[c].pc = "record" => op[c].overlap \cup op[c].moved = BoundTo(op[c].from)

TransferInv ==
    /\ TransferTypeOK
    /\ LocksHeld
    /\ \A c \in Client : Sound(c)
    /\ RecordsNameTheMoved

UpgradedSoFar ==
    /\ "id" \in columns \/ (columns = {} /\ server \in {"down", "create"})
    /\ server = "content" => "friend_count" \notin columns
    /\ server = "rename" => columns \subseteq {"id", "remark"}
    /\ server \in {"others", "up"} => columns = Current

ServerInv == TypeOK /\ TransferInv /\ UpgradedSoFar

-------------------------------------------------------------------------------
(***************************************************************************)
(* Sessions and rows.                                                      *)
(***************************************************************************)
LEMMA NoOpsType ==
    /\ \A t \in Teacher : Idle(t) \in Op
    /\ NoOps \in [Client -> Op]
    /\ \A c \in Client : NoOps[c].pc = "idle" /\ NoOps[c].overlap = {} /\ NoOps[c].moved = {}
BY TransfersAssumption DEF NoOps, Idle, Op

LEMMA OpType ==
    ASSUME TransferTypeOK, NEW c \in Client
    PROVE  /\ op[c] \in Op
           /\ op[c].from \in Teacher /\ op[c].to \in Teacher
           /\ op[c].overlap \subseteq Salesman /\ op[c].moved \subseteq Salesman
BY DEF TransferTypeOK, Op

\* What the locks on a set of one teacher's rows say row by row.
LEMMA Rows ==
    ASSUME NEW c \in Client, NEW t, NEW users
    PROVE  /\ CanWrite(c, {t} \X users) =>
                 \A d \in Client \ {c}, u \in users : ~Writes(d, t, u) /\ ~Reads(d, t, u)
           /\ CanShare(c, {t} \X users) =>
                 \A d \in Client \ {c}, u \in users : ~Writes(d, t, u)
           /\ {t} \X users \cap Exclusive(c) = {} => \A u \in users : ~Writes(c, t, u)
<1>1. \A d \in Client, u \in users :
         /\ Writes(d, t, u) => <<t, u>> \in Exclusive(d) \cap {t} \X users
         /\ Reads(d, t, u) => <<t, u>> \in Shared(d) \cap {t} \X users
    BY DEF Writes, Reads, Exclusive, Shared
<1> QED
    BY <1>1 DEF CanWrite, CanShare, Others

\* A session that goes on while the table stays as it is.
LEMMA OwnStep ==
    ASSUME TransferInv, NEW c \in Client, NEW next \in Op, op' = [op EXCEPT ![c] = next],
           bound' = bound, record' = record, Sound(c)',
           \A d \in Client \ {c}, t \in Teacher, u \in Salesman :
              /\ ~(Writes(c, t, u)' /\ (Writes(d, t, u) \/ Reads(d, t, u)))
              /\ ~(Writes(d, t, u) /\ Reads(c, t, u)')
    PROVE  TransferInv'
<1>1. TransferTypeOK'
    BY DEF TransferInv, TransferTypeOK
<1>2. \A d \in Client \ {c} : op'[d] = op[d]
    BY DEF TransferInv, TransferTypeOK
<1>3. \A d \in Client \ {c} : \A t, u : /\ Writes(d, t, u)' <=> Writes(d, t, u)
                                        /\ Reads(d, t, u)' <=> Reads(d, t, u)
    BY <1>2 DEF Writes, Reads
<1>4. LocksHeld'
  <2> SUFFICES ASSUME NEW a \in Client, NEW b \in Client, a # b,
                      NEW t \in Teacher, NEW u \in Salesman
               PROVE  ~(Writes(a, t, u)' /\ (Writes(b, t, u)' \/ Reads(b, t, u)'))
      BY DEF LocksHeld
  <2>1. CASE a # c /\ b # c
      BY <1>3, <2>1 DEF TransferInv, LocksHeld
  <2>2. CASE a = c
      BY <1>3, <2>2
  <2>3. CASE b = c
      BY <1>3, <2>3
  <2> QED
      BY <2>1, <2>2, <2>3
<1>5. \A d \in Client : Sound(d)'
    BY <1>2 DEF TransferInv, Sound, ListTeacherSalesmen, BoundTo
<1>6. RecordsNameTheMoved'
    BY DEF TransferInv, RecordsNameTheMoved
<1> QED
    BY <1>1, <1>4, <1>5, <1>6 DEF TransferInv

\* A session that keeps its rows while another one writes.
LEMMA StillSound ==
    ASSUME NEW c \in Client, Sound(c), op[c] \in Op,
           \/ op'[c] = [op[c] EXCEPT !.alone = FALSE]
           \/ op[c].pc = "idle" /\ op'[c] = op[c],
           \A u \in op[c].overlap : <<op[c].from, u>> \in bound' /\ <<op[c].to, u>> \in bound',
           \A u \in op[c].moved : <<op[c].from, u>> \in bound' /\ <<op[c].to, u>> \notin bound'
    PROVE  /\ Sound(c)'
           /\ \A t, u : /\ Writes(c, t, u)' <=> Writes(c, t, u)
                        /\ Reads(c, t, u)' <=> Reads(c, t, u)
<1>1. /\ op'[c].pc = op[c].pc /\ op'[c].from = op[c].from /\ op'[c].to = op[c].to
      /\ op'[c].overlap = op[c].overlap /\ op'[c].moved = op[c].moved
      /\ op'[c].alone => op'[c].pc = "idle"
    BY DEF Op
<1> QED
    BY <1>1 DEF Sound, Writes, Reads

-------------------------------------------------------------------------------
(***************************************************************************)
(* The statements of a transfer.                                           *)
(***************************************************************************)
LEMMA Bound ==
    ASSUME TransferInv, NEW t \in Teacher, NEW users \in SUBSET Salesman,
           BindTeacherSales(t, users)
    PROVE  TransferInv'
<1>0. /\ bound' = bound \cup {t} \X users /\ record' = record
      /\ op' = [c \in Client |-> IF op[c].pc # "idle"
                                 THEN [op[c] EXCEPT !.alone = FALSE] ELSE op[c]]
      /\ \A c \in Client : {t} \X users \cap Exclusive(c) = {}
    BY DEF BindTeacherSales
<1>1. TransferTypeOK'
  <2>1. \A c \in Client : op'[c] \in Op
      BY <1>0, OpType DEF TransferInv, Op
  <2>2. op' \in [Client -> Op]
      BY <1>0, <2>1
  <2> QED
      BY <1>0, <2>2 DEF TransferInv, TransferTypeOK, Pair
<1>2. ASSUME NEW c \in Client
      PROVE  /\ Sound(c)'
             /\ \A s, u : /\ Writes(c, s, u)' <=> Writes(c, s, u)
                          /\ Reads(c, s, u)' <=> Reads(c, s, u)
  <2>1. Sound(c) /\ op[c] \in Op
      BY OpType DEF TransferInv
  <2>2. \A u \in users : ~Writes(c, t, u)
      BY <1>0, Rows
  <2>3. \A u \in op[c].moved : <<op[c].to, u>> \notin bound'
      BY <1>0, <2>1, <2>2 DEF Writes, Sound
  <2>4. \A u : /\ u \in op[c].overlap => <<op[c].from, u>> \in bound' /\ <<op[c].to, u>> \in bound'
               /\ u \in op[c].moved => <<op[c].from, u>> \in bound'
      BY <1>0, <2>1 DEF Sound
  <2>5. \/ op'[c] = [op[c] EXCEPT !.alone = FALSE]
        \/ op[c].pc = "idle" /\ op'[c] = op[c]
      BY <1>0
  <2> QED
      BY <2>1, <2>3, <2>4, <2>5, StillSound
<1>3. LocksHeld'
    BY <1>2 DEF TransferInv, LocksHeld
<1>4. RecordsNameTheMoved'
    BY <1>0 DEF TransferInv, RecordsNameTheMoved
<1> QED
    BY <1>1, <1>2, <1>3, <1>4 DEF TransferInv

LEMMA Begun ==
    ASSUME TransferInv, NEW c \in Client, NEW from \in Teacher, NEW to \in Teacher,
           AddResign(c, from, to)
    PROVE  TransferInv'
<1> DEFINE next == [Idle(from) EXCEPT !.pc = "delete", !.to = to,
                                      !.salesmen = ListTeacherSalesmen(from)]
<1>1. /\ next \in Op /\ next.pc = "delete" /\ next.from = from /\ next.to = to
      /\ next.overlap = {} /\ next.moved = {} /\ next.salesmen = ListTeacherSalesmen(from)
    BY TransfersAssumption DEF Idle, Op, ListTeacherSalesmen, BoundTo
<1>2. op' = [op EXCEPT ![c] = next] /\ bound' = bound /\ record' = record /\ from # to
    BY DEF AddResign, TwoTeachers
<1> HIDE DEF next
<1>3. op'[c] = next
    BY <1>2 DEF TransferInv, TransferTypeOK
<1>4. Sound(c)'
    BY <1>1, <1>2, <1>3 DEF Sound, ListTeacherSalesmen, BoundTo
<1>5. \A t, u : ~Writes(c, t, u)' /\ ~Reads(c, t, u)'
    BY <1>1, <1>3 DEF Writes, Reads
<1> QED
    BY <1>1, <1>2, <1>4, <1>5, OwnStep

LEMMA OverlapDeleted ==
    ASSUME TransferInv, NEW c \in Client, DeleteOverlap(c)
    PROVE  TransferInv'
<1> DEFINE from == op[c].from
           to   == op[c].to
           both == BoundTo(from) \cap BoundTo(to)
           next == [op[c] EXCEPT !.pc = "move", !.overlap = both]
<1>1. op[c] \in Op /\ Sound(c) /\ op[c].pc = "delete"
    BY OpType DEF TransferInv, DeleteOverlap, At
<1>2. /\ next \in Op /\ next.pc = "move" /\ next.from = from /\ next.to = to
      /\ next.overlap = both /\ next.moved = {} /\ next.salesmen = op[c].salesmen
      /\ next.alone = op[c].alone
    BY <1>1 DEF Op, BoundTo, Sound
<1>3. /\ op' = [op EXCEPT ![c] = next] /\ bound' = bound /\ record' = record
      /\ CanWrite(c, {from} \X both) /\ CanShare(c, {to} \X both)
    BY DEF DeleteOverlap, TransferInv, TransferTypeOK
<1>4. op'[c] = next
    BY <1>3 DEF TransferInv, TransferTypeOK
<1> HIDE DEF next
<1>5. \A u \in both : <<from, u>> \in bound /\ <<to, u>> \in bound
    BY DEF BoundTo
<1>6. Sound(c)'
    BY <1>1, <1>2, <1>3, <1>4, <1>5 DEF Sound, ListTeacherSalesmen, BoundTo
<1>7. \A t, u : /\ Writes(c, t, u)' => t = from /\ u \in both
                /\ Reads(c, t, u)' => t = to /\ u \in both
    BY <1>2, <1>4 DEF Writes, Reads
<1> HIDE DEF from, to, both
<1>8. \A d \in Client \ {c}, u \in both :
         ~Writes(d, from, u) /\ ~Reads(d, from, u) /\ ~Writes(d, to, u)
    BY <1>3, Rows
<1> QED
    BY <1>2, <1>3, <1>6, <1>7, <1>8, OwnStep

LEMMA RestMoved ==
    ASSUME TransferInv, NEW c \in Client, MoveRest(c)
    PROVE  TransferInv'
<1> DEFINE from == op[c].from
           to   == op[c].to
           rest == BoundTo(from) \ op[c].overlap
           next == [op[c] EXCEPT !.pc = "record", !.moved = rest]
<1>1. op[c] \in Op /\ Sound(c) /\ op[c].pc = "move" /\ op[c].overlap \subseteq Salesman
    BY OpType DEF TransferInv, MoveRest, At
<1>2. /\ next \in Op /\ next.pc = "record" /\ next.from = from /\ next.to = to
      /\ next.overlap = op[c].overlap /\ next.moved = rest
      /\ next.salesmen = op[c].salesmen /\ next.alone = op[c].alone
    BY <1>1 DEF Op, BoundTo
<1>3. /\ op' = [op EXCEPT ![c] = next] /\ bound' = bound /\ record' = record
      /\ CanWrite(c, {from} \X rest) /\ CanWrite(c, {to} \X rest)
      /\ rest \cap BoundTo(to) = {}
    BY DEF MoveRest, TransferInv, TransferTypeOK
<1>4. op'[c] = next
    BY <1>3 DEF TransferInv, TransferTypeOK
<1> HIDE DEF next
<1>5. \A u \in rest : <<from, u>> \in bound /\ <<to, u>> \notin bound
    BY <1>3 DEF BoundTo
<1>6. op[c].overlap \cup rest = BoundTo(from)
    BY <1>1 DEF Sound, BoundTo
<1>7. Sound(c)'
    BY <1>1, <1>2, <1>3, <1>4, <1>5, <1>6 DEF Sound, ListTeacherSalesmen, BoundTo
<1>8. \A t, u : /\ Writes(c, t, u)' => Writes(c, t, u) \/ (t \in {from, to} /\ u \in rest)
                /\ Reads(c, t, u)' => Reads(c, t, u)
    BY <1>2, <1>4 DEF Writes, Reads
<1> HIDE DEF from, to, rest
<1>9. \A d \in Client \ {c}, u \in rest :
         /\ ~Writes(d, from, u) /\ ~Reads(d, from, u)
         /\ ~Writes(d, to, u) /\ ~Reads(d, to, u)
    BY <1>3, Rows
<1>10. \A d \in Client \ {c}, t \in Teacher, u \in Salesman :
          /\ ~(Writes(c, t, u) /\ (Writes(d, t, u) \/ Reads(d, t, u)))
          /\ ~(Writes(d, t, u) /\ Reads(c, t, u))
    BY DEF TransferInv, LocksHeld
<1>11. \A d \in Client \ {c}, t \in Teacher, u \in Salesman :
          /\ ~(Writes(c, t, u)' /\ (Writes(d, t, u) \/ Reads(d, t, u)))
          /\ ~(Writes(d, t, u) /\ Reads(c, t, u)')
    BY <1>8, <1>9, <1>10
<1> QED
    BY <1>2, <1>3, <1>7, <1>11, OwnStep

LEMMA RolledBack ==
    ASSUME TransferInv, NEW c \in Client, Rollback(c)
    PROVE  TransferInv'
<1>1. op' = [op EXCEPT ![c] = NoOps[c]] /\ bound' = bound /\ record' = record
    BY DEF Rollback
<1>2. op'[c] = NoOps[c]
    BY <1>1 DEF TransferInv, TransferTypeOK
<1>3. Sound(c)' /\ \A t, u : ~Writes(c, t, u)' /\ ~Reads(c, t, u)'
    BY <1>2, NoOpsType DEF Sound, Writes, Reads
<1> QED
    BY <1>1, <1>3, NoOpsType, OwnStep

\* What a commit does to a row.
LEMMA MovedRows ==
    ASSUME NEW c \in Client, NEW t, NEW u
    PROVE  /\ <<t, u>> \in Moved(c) <=>
                 \/ /\ <<t, u>> \in bound
                    /\ ~(t = op[c].from /\ u \in op[c].overlap \cup op[c].moved)
                 \/ t = op[c].to /\ u \in op[c].moved
           /\ ~Writes(c, t, u) => (<<t, u>> \in Moved(c) <=> <<t, u>> \in bound)
BY DEF Moved, Writes

LEMMA Committed ==
    ASSUME TransferInv, NEW c \in Client, InsertResignRecord(c)
    PROVE  TransferInv'
<1> DEFINE new == [from |-> op[c].from, to |-> op[c].to, salesmen |-> op[c].salesmen,
                   taken |-> op[c].overlap \cup op[c].moved, alone |-> op[c].alone]
<1>1. /\ op[c] \in Op /\ Sound(c) /\ op[c].pc = "record"
      /\ op[c].from \in Teacher /\ op[c].to \in Teacher
      /\ op[c].overlap \subseteq Salesman /\ op[c].moved \subseteq Salesman
    BY OpType DEF TransferInv, InsertResignRecord, At
<1>2. bound' = Moved(c) /\ record' = Append(record, new)
    BY DEF InsertResignRecord, Snapshot
<1>3. new \in Record /\ record \in Seq(Record) /\ new.alone = op[c].alone
      /\ new.salesmen = op[c].salesmen /\ new.taken = op[c].overlap \cup op[c].moved
    BY <1>1 DEF Record, Op, TransferInv, TransferTypeOK
<1> HIDE DEF new
<1>4. /\ op'[c] = NoOps[c]
      /\ \A d \in Client \ {c} :
            op'[d] = IF op[d].pc # "idle" THEN [op[d] EXCEPT !.alone = FALSE] ELSE op[d]
      /\ op' = [d \in Client |-> op'[d]]
    BY DEF InsertResignRecord, Disturb
<1>5. TransferTypeOK'
  <2>1. bound' \in SUBSET Pair
      BY <1>1, <1>2 DEF Moved, TransferInv, TransferTypeOK, Pair
  <2>2. record' \in Seq(Record)
      BY <1>2, <1>3
  <2>3. \A d \in Client : op'[d] \in Op
    <3>1. \A d \in Client : op[d] \in Op
        BY OpType DEF TransferInv
    <3>2. \A d \in Client : [op[d] EXCEPT !.alone = FALSE] \in Op
        BY <3>1 DEF Op
    <3> QED
        BY <1>4, <3>1, <3>2, NoOpsType
  <2>4. op' \in [Client -> Op]
      BY <1>4, <2>3
  <2> QED
      BY <2>1, <2>2, <2>4 DEF TransferTypeOK
<1>6. ASSUME NEW d \in Client \ {c}
      PROVE  /\ Sound(d)'
             /\ \A t, u : /\ Writes(d, t, u)' <=> Writes(d, t, u)
                          /\ Reads(d, t, u)' <=> Reads(d, t, u)
  <2>1. /\ Sound(d) /\ op[d] \in Op /\ op[d].from \in Teacher /\ op[d].to \in Teacher
        /\ op[d].overlap \subseteq Salesman /\ op[d].moved \subseteq Salesman
      BY OpType DEF TransferInv
  <2>2. \A t \in Teacher, u \in Salesman :
           Writes(d, t, u) \/ Reads(d, t, u) => (<<t, u>> \in bound' <=> <<t, u>> \in bound)
    <3>1. \A t \in Teacher, u \in Salesman :
             Writes(d, t, u) \/ Reads(d, t, u) => ~Writes(c, t, u)
        BY DEF TransferInv, LocksHeld
    <3> QED
        BY <1>2, <3>1, MovedRows
  <2>3. \A u \in op[d].overlap : <<op[d].from, u>> \in bound' /\ <<op[d].to, u>> \in bound'
      BY <2>1, <2>2 DEF Sound, Writes, Reads
  <2>4. \A u \in op[d].moved : <<op[d].from, u>> \in bound' /\ <<op[d].to, u>> \notin bound'
      BY <2>1, <2>2 DEF Sound, Writes
  <2>5. \/ op'[d] = [op[d] EXCEPT !.alone = FALSE]
        \/ op[d].pc = "idle" /\ op'[d] = op[d]
      BY <1>4
  <2> QED
      BY <2>1, <2>3, <2>4, <2>5, StillSound
<1>7. Sound(c)' /\ \A t, u : ~Writes(c, t, u)' /\ ~Reads(c, t, u)'
    BY <1>4, NoOpsType DEF Sound, Writes, Reads
<1>8. LocksHeld'
    BY <1>6, <1>7 DEF TransferInv, LocksHeld
<1>9. RecordsNameTheMoved'
  <2>1. new.alone => new.salesmen = new.taken \cap Synced
    <3>1. op[c].alone => op[c].salesmen = BoundTo(op[c].from) \cap Synced
                         /\ op[c].overlap \cup op[c].moved = BoundTo(op[c].from)
        BY <1>1 DEF Sound, ListTeacherSalesmen
    <3> QED
        BY <1>3, <3>1
  <2>2. \A i \in DOMAIN record' : \/ i \in DOMAIN record /\ record'[i] = record[i]
                                  \/ record'[i] = new
      BY <1>2, <1>3
  <2> QED
      BY <2>1, <2>2 DEF TransferInv, RecordsNameTheMoved
<1> QED
    BY <1>5, <1>6, <1>7, <1>8, <1>9 DEF TransferInv

LEMMA TransferStep ==
    ASSUME TransferInv, TransferNext
    PROVE  TransferInv'
BY Bound, Begun, OverlapDeleted, RestMoved, Committed, RolledBack DEF TransferNext

\* Only a commit appends a record and takes rows away.
LEMMA OnlyCommits ==
    ASSUME TransferNext
    PROVE  \/ \E c \in Client : InsertResignRecord(c)
           \/ record' = record /\ bound \subseteq bound'
BY DEF TransferNext, BindTeacherSales, AddResign, DeleteOverlap, MoveRest, Rollback

-------------------------------------------------------------------------------
(***************************************************************************)
(* The server.                                                             *)
(***************************************************************************)
LEMMA InitInv == Init => ServerInv
<1> SUFFICES ASSUME Init PROVE ServerInv
    OBVIOUS
<1>1. /\ bound \in SUBSET Pair /\ op = NoOps /\ server = "down" /\ found = {}
      /\ columns \in SUBSET Column /\ (columns = {} \/ "id" \in columns)
    BY DEF Init, History, Column, Current
<1>2. /\ record \in Seq(Record) /\ text \in Seq({"none", "lost", "remark", "transfer_content"})
      /\ Len(text) = Len(record)
      /\ \A i \in DOMAIN record : record[i].salesmen = {} /\ record[i].taken = {}
  <2>1. CASE columns = {}
      BY <2>1 DEF Init
  <2>2. CASE columns # {}
    <3>1. PICK from \in Teacher, to \in Teacher :
             record = <<[from |-> from, to |-> to, salesmen |-> {},
                         taken |-> {}, alone |-> TRUE]>>
        BY <2>2 DEF Init
    <3>2. text = <<TextIn(columns)>>
        BY <2>2 DEF Init
    <3> DEFINE old == [from |-> from, to |-> to, salesmen |-> {},
                       taken |-> {}, alone |-> TRUE]
    <3>3. old \in Record /\ old.salesmen = {} /\ old.taken = {}
        BY DEF Record
    <3>4. TextIn(columns) \in {"none", "lost", "remark", "transfer_content"}
        BY DEF TextIn
    <3> HIDE DEF old
    <3>5. record = <<old>>
        BY <3>1 DEF old
    <3> QED
        BY <3>2, <3>3, <3>4, <3>5
  <2> QED
      BY <2>1, <2>2
<1>3. TransferTypeOK /\ TypeOK
    BY <1>1, <1>2, NoOpsType DEF TransferTypeOK, TypeOK
<1>4. \A c \in Client : Sound(c) /\ \A t, u : ~Writes(c, t, u) /\ ~Reads(c, t, u)
    BY <1>1, NoOpsType DEF Sound, Writes, Reads
<1>5. LocksHeld /\ RecordsNameTheMoved
    BY <1>2, <1>4 DEF LocksHeld, RecordsNameTheMoved
<1>6. UpgradedSoFar
    BY <1>1 DEF UpgradedSoFar
<1> QED
    BY <1>3, <1>4, <1>5, <1>6 DEF ServerInv, TransferInv

\* Nothing of a transfer changes: a start and the statements of the migration.
LEMMA TransfersRest ==
    ASSUME TransferInv, UNCHANGED transferVars
    PROVE  TransferInv'
BY DEF transferVars, TransferInv, TransferTypeOK, LocksHeld, Writes, Reads, Sound,
       ListTeacherSalesmen, BoundTo, RecordsNameTheMoved


LEMMA MigrateInv ==
    ASSUME ServerInv, Start \/ Migrate
    PROVE  ServerInv'
<1>0. /\ TransferInv' /\ TransferTypeOK' /\ Len(record') = Len(record) /\ found' \in SUBSET Column
      /\ TypeOK
    BY TransfersRest DEF ServerInv, TypeOK, TransferInv, Start, Migrate, CreateTable,
       DropFriendCount, DropTransferContent, RenameContent, Serve, transferVars
<1> DEFINE Texts == {"none", "lost", "remark", "transfer_content"}
<1>1. text \in Seq(Texts) /\ DOMAIN text = 1..Len(text) /\ Len(text) = Len(record)
      /\ columns \in SUBSET Column
    BY <1>0 DEF TypeOK
<1>2. ASSUME NEW column, DropResignColumn(column)
      PROVE  /\ columns' \in SUBSET Column /\ columns' = columns \ {column}
             /\ text' \in Seq(Texts) /\ Len(text') = Len(text)
    BY <1>1, <1>2 DEF DropResignColumn, Without
<1>3. CASE Start
    BY <1>0, <1>1, <1>3 DEF Start, ServerInv, TypeOK, UpgradedSoFar
<1>4. CASE CreateTable
    BY <1>0, <1>1, <1>4 DEF CreateTable, Current, Column, ServerInv, TypeOK, UpgradedSoFar
<1>5. CASE DropFriendCount
    BY <1>0, <1>1, <1>2, <1>5 DEF DropFriendCount, ServerInv, TypeOK, UpgradedSoFar
<1>6. CASE DropTransferContent
  <2>1. columns' \subseteq {"id", "remark"}
      BY <1>1, <1>2, <1>6 DEF DropTransferContent, ServerInv, UpgradedSoFar, Column
  <2> QED
      BY <1>0, <1>1, <1>2, <1>6, <2>1 DEF DropTransferContent, ServerInv, TypeOK, UpgradedSoFar
<1>7. CASE RenameContent
  <2>1. columns' = Current
      BY <1>7 DEF RenameContent, RenameOrAdd, RenameRemark, AddTransferContent, Current,
                  ServerInv, UpgradedSoFar
  <2>2. text' \in Seq(Texts) /\ Len(text') = Len(text)
      BY <1>1, <1>7 DEF RenameContent, RenameOrAdd, RenameRemark, AddTransferContent
  <2> QED
      BY <1>0, <1>1, <1>7, <2>1, <2>2 DEF RenameContent, Current, Column, ServerInv, TypeOK,
                                          UpgradedSoFar
<1>8. CASE Serve
    BY <1>0, <1>1, <1>8 DEF Serve, ServerInv, TypeOK, UpgradedSoFar
<1> QED
    BY <1>3, <1>4, <1>5, <1>6, <1>7, <1>8 DEF Migrate

LEMMA StopInv ==
    ASSUME ServerInv, Stop
    PROVE  ServerInv'
<1>1. /\ bound' = bound /\ record' = record /\ columns' = columns /\ text' = text
      /\ found' = found /\ server' = "down" /\ op' = NoOps
    BY DEF Stop
<1>2. TransferTypeOK' /\ TypeOK'
    BY <1>1, NoOpsType DEF ServerInv, TypeOK, TransferTypeOK
<1>3. \A c \in Client : Sound(c)' /\ \A t, u : ~Writes(c, t, u)' /\ ~Reads(c, t, u)'
    BY <1>1, NoOpsType DEF Sound, Writes, Reads
<1>4. LocksHeld' /\ RecordsNameTheMoved' /\ UpgradedSoFar'
    BY <1>1, <1>3 DEF LocksHeld, ServerInv, TransferInv, RecordsNameTheMoved, UpgradedSoFar
<1> QED
    BY <1>2, <1>3, <1>4 DEF ServerInv, TransferInv

LEMMA RequestInv ==
    ASSUME ServerInv, Request
    PROVE  ServerInv'
<1>1. /\ TransferNext /\ columns' = columns /\ server' = server /\ found' = found
      /\ text' = IF Len(record') > Len(record) THEN Append(text, "transfer_content") ELSE text
    BY DEF Request
<1>2. TransferInv'
    BY <1>1, TransferStep DEF ServerInv
<1>3. /\ text \in Seq({"none", "lost", "remark", "transfer_content"})
      /\ Len(text) = Len(record) /\ record \in Seq(Record)
    BY DEF ServerInv, TypeOK, TransferTypeOK
<1>4. /\ text' \in Seq({"none", "lost", "remark", "transfer_content"})
      /\ Len(text') = Len(record')
  <2>1. CASE record' = record
      BY <1>1, <1>3, <2>1
  <2>2. CASE \E c \in Client : InsertResignRecord(c)
    <3>1. Len(record') = Len(record) + 1
        BY <1>3, <2>2 DEF InsertResignRecord
    <3> QED
        BY <1>1, <1>3, <3>1
  <2> QED
      BY <1>1, <2>1, <2>2, OnlyCommits
<1> QED
    BY <1>1, <1>2, <1>4 DEF ServerInv, TypeOK, TransferInv, UpgradedSoFar

LEMMA StepInv == ServerInv /\ [Next]_vars => ServerInv'
<1> SUFFICES ASSUME ServerInv, [Next]_vars PROVE ServerInv'
    OBVIOUS
<1>1. CASE UNCHANGED vars
  <2>1. TransferInv'
      BY <1>1, TransfersRest DEF vars, ServerInv
  <2> QED
      BY <1>1, <2>1 DEF vars, serverVars, transferVars, ServerInv, TypeOK, TransferInv,
                        UpgradedSoFar
<1> QED
    BY <1>1, MigrateInv, StopInv, RequestInv DEF Next

-------------------------------------------------------------------------------
(***************************************************************************)
(* What the invariant is for.                                              *)
(***************************************************************************)
\* The whole invariant, and the types in it, hold over every restart.
THEOREM ServerInvariant == Spec => []ServerInv
BY InitInv, StepInv, PTL DEF Spec

\* database.migrateTeacherResign brings teacher_resign to the current columns
\* before a request is served, from every set of old columns and after any
\* number of upgrades that were cut short.
THEOREM CurrentColumnsServed == Spec => []ServesCurrentColumns
<1>1. ServerInv => ServesCurrentColumns
    BY DEF ServerInv, UpgradedSoFar, ServesCurrentColumns
<1> QED
    BY <1>1, ServerInvariant, PTL

\* A record of service.AddResign names exactly the salesmen its transaction took,
\* although it read them before, unless another session wrote in between.
THEOREM RecordsAreRight == Spec => []RecordsNameTheMoved
<1>1. ServerInv => RecordsNameTheMoved
    BY DEF ServerInv, TransferInv
<1> QED
    BY <1>1, ServerInvariant, PTL

\* A salesman with a teacher keeps one through every commit.
LEMMA CommitKeeps ==
    ASSUME TransferInv, NEW c \in Client, InsertResignRecord(c),
           NEW u \in Salesman, NEW t \in Teacher, <<t, u>> \in bound
    PROVE  \E s \in Teacher : <<s, u>> \in bound'
<1>1. Sound(c) /\ op[c].from # op[c].to /\ op[c].to \in Teacher /\ bound' = Moved(c)
    BY OpType DEF TransferInv, InsertResignRecord, At, Sound
<1>2. CASE u \in op[c].moved
    BY <1>1, <1>2, MovedRows
<1>3. CASE u \notin op[c].moved /\ u \in op[c].overlap
  <2>1. <<op[c].to, u>> \in bound
      BY <1>1, <1>3 DEF Sound
  <2>2. <<op[c].to, u>> \in bound'
      BY <1>1, <2>1, MovedRows
  <2> QED
      BY <1>1, <2>2
<1>4. CASE u \notin op[c].overlap \cup op[c].moved
    BY <1>1, <1>4, MovedRows
<1> QED
    BY <1>2, <1>3, <1>4

\* Whatever is transferred at once, in either direction and with overlaps, no
\* salesman loses the last teacher he is bound to (repository.TransferResign).
THEOREM BoundStaysBoundAlways == Spec => BoundStaysBound
<1> DEFINE Kept == \A u \in Salesman : (\E t \in Teacher : <<t, u>> \in bound)
                       => \E t \in Teacher : <<t, u>> \in bound'
<1>1. ServerInv /\ [Next]_vars => [Kept]_transferVars
  <2> SUFFICES ASSUME ServerInv, [Next]_vars, transferVars' # transferVars PROVE Kept
      OBVIOUS
  <2>1. CASE \E c \in Client : InsertResignRecord(c)
      BY <2>1, CommitKeeps DEF ServerInv
  <2>2. CASE bound \subseteq bound'
      BY <2>2
  <2> QED
      BY <2>1, <2>2, OnlyCommits
      DEF Next, Start, Migrate, CreateTable, DropFriendCount, DropTransferContent,
          RenameContent, Serve, Stop, Request, vars
<1> QED
    BY <1>1, ServerInvariant, PTL DEF Spec, BoundStaysBound

\* The table of records as the list of transfers that they are.
LEMMA LogGrows ==
    ASSUME NEW rec \in Seq(Record), NEW new \in Record, NEW next, next = Append(rec, new)
    PROVE  /\ Handed(new) \in Promise!Handover
           /\ [i \in DOMAIN rec |-> Handed(rec[i])] \in Seq(Promise!Handover)
           /\ [i \in DOMAIN next |-> Handed(next[i])]
                = Append([i \in DOMAIN rec |-> Handed(rec[i])], Handed(new))
<1> DEFINE log == [i \in DOMAIN rec |-> Handed(rec[i])]
           then == [i \in DOMAIN next |-> Handed(next[i])]
<1>1. \A r \in Record : Handed(r) \in Promise!Handover
    BY DEF Handed, Record, Promise!Handover
<1>2. PICK n \in Nat : n = Len(rec) /\ DOMAIN rec = 1..n
    OBVIOUS
<1>3. \A i \in 1..n : rec[i] \in Record
    BY <1>2
<1>4. log \in Seq(Promise!Handover) /\ Len(log) = n
  <2>1. log \in [1..n -> Promise!Handover]
      BY <1>1, <1>2, <1>3
  <2> QED
      BY <1>2, <2>1
<1>5. /\ DOMAIN next = 1..(n + 1) /\ next[n + 1] = new
      /\ \A i \in 1..n : next[i] = rec[i]
    BY <1>2
<1>6. PICK h \in Promise!Handover : h = Handed(new)
    BY <1>1
<1>7. then = Append(log, h)
  <2>1. /\ DOMAIN Append(log, h) = 1..(n + 1) /\ Append(log, h)[n + 1] = h
        /\ \A i \in 1..n : Append(log, h)[i] = log[i]
      BY <1>4
  <2>2. \A i \in 1..(n + 1) : then[i] = Append(log, h)[i]
    <3>1. \A i \in 1..n : then[i] = Handed(rec[i]) /\ log[i] = Handed(rec[i])
        BY <1>2, <1>5
    <3>2. then[n + 1] = h
        BY <1>5, <1>6
    <3>3. \A i \in 1..(n + 1) : i \in 1..n \/ i = n + 1
        OBVIOUS
    <3> QED
        BY <2>1, <3>1, <3>2, <3>3
  <2>3. then \in Seq(Promise!Handover) /\ Len(then) = n + 1
    <3>1. DOMAIN next = 1..(n + 1) /\ \A i \in DOMAIN next : next[i] \in Record
        BY <1>2, <1>3, <1>5
    <3>2. then \in [1..(n + 1) -> Promise!Handover]
        BY <1>1, <3>1
    <3> QED
        BY <1>2, <3>2
  <2>4. Append(log, h) \in Seq(Promise!Handover) /\ Len(Append(log, h)) = n + 1
      BY <1>4, <1>6
  <2> HIDE DEF log, then
  <2> QED
      BY <2>2, <2>3, <2>4, SeqEqual
<1> QED
    BY <1>4, <1>6, <1>7

\* A commit hands over what its transaction took.
LEMMA CommitHandsOver ==
    ASSUME TransferInv, NEW c \in Client, InsertResignRecord(c)
    PROVE  Promise!HandoverNext
<1> DEFINE new == [from |-> op[c].from, to |-> op[c].to, salesmen |-> op[c].salesmen,
                   taken |-> op[c].overlap \cup op[c].moved, alone |-> op[c].alone]
           h == Handed(new)
<1>1. /\ op[c] \in Op /\ Sound(c) /\ op[c].pc = "record"
      /\ op[c].overlap \subseteq Salesman /\ op[c].moved \subseteq Salesman
    BY OpType DEF TransferInv, InsertResignRecord, At
<1>2. bound' = Moved(c) /\ record' = Append(record, new)
    BY DEF InsertResignRecord, Snapshot
<1>3. new \in Record /\ record \in Seq(Record)
    BY <1>1 DEF Record, Op, TransferInv, TransferTypeOK
<1>4. /\ h.from = op[c].from /\ h.to = op[c].to /\ h.alone = op[c].alone
      /\ h.taken = op[c].overlap \cup op[c].moved
    BY DEF Handed
<1>5. h.from # h.to
    BY <1>1, <1>4 DEF Sound
<1>6. \A u : u \in h.taken <=> u \in op[c].overlap \/ u \in op[c].moved
    BY <1>4
<1>7. h.taken \subseteq BoundTo(h.from) /\ (h.alone => h.taken = BoundTo(h.from))
    BY <1>1, <1>4 DEF Sound, BoundTo
<1>8. Moved(c) = (bound \ {h.from} \X h.taken) \cup {h.to} \X h.taken
  <2>1. \A u \in op[c].overlap : <<op[c].to, u>> \in bound
      BY <1>1 DEF Sound
  <2>2. {op[c].to} \X h.taken = {op[c].to} \X op[c].overlap \cup {op[c].to} \X op[c].moved
      BY <1>4
  <2>3. {op[c].to} \X op[c].overlap \subseteq bound \ {op[c].from} \X h.taken
      BY <1>4, <1>5, <2>1
  <2> QED
      BY <1>4, <2>2, <2>3 DEF Moved
<1>9. h \in Promise!Handover
    BY <1>2, <1>3, LogGrows
<1>10. [i \in DOMAIN record' |-> Handed(record'[i])]
          = Append([i \in DOMAIN record |-> Handed(record[i])], h)
    BY <1>2, <1>3, LogGrows
<1> HIDE DEF h, new
<1>11. Promise!HandOver(h)
    BY <1>2, <1>5, <1>7, <1>8, <1>10 DEF Promise!HandOver, BoundTo
<1> QED
    BY <1>9, <1>11 DEF Promise!HandoverNext

\* The requests of any number of sessions implement a table in which every
\* transfer is one step (repository.TransferResign, service.AddResign), over every
\* restart of the server.
THEOREM TransfersImplementHandovers == Spec => ImplementsHandovers
<1>1. Init => Promise!HandoverInit
  <2> SUFFICES ASSUME Init PROVE Promise!HandoverInit
      OBVIOUS
  <2>1. record \in Seq(Record) /\ bound \in SUBSET Pair
      BY InitInv DEF ServerInv, TypeOK, TransferTypeOK
  <2>2. [i \in DOMAIN record |-> Handed(record[i])] \in Seq(Promise!Handover)
    <3>1. \A r \in Record : Handed(r) \in Promise!Handover
        BY DEF Handed, Record, Promise!Handover
    <3>2. PICK n \in Nat : DOMAIN record = 1..n /\ \A i \in 1..n : record[i] \in Record
        BY <2>1
    <3>3. [i \in DOMAIN record |-> Handed(record[i])] \in [1..n -> Promise!Handover]
        BY <3>1, <3>2
    <3> QED
        BY <3>3
  <2> QED
      BY <2>1, <2>2 DEF Promise!HandoverInit, Pair
<1>2. ServerInv /\ [Next]_vars => [Promise!HandoverNext]_(Promise!handoverVars)
  <2> SUFFICES ASSUME ServerInv, [Next]_vars
               PROVE  Promise!HandoverNext \/ UNCHANGED Promise!handoverVars
      OBVIOUS
  <2>1. CASE UNCHANGED <<bound, record>>
      BY <2>1 DEF Promise!handoverVars
  <2>2. CASE TransferNext
    <3>1. ASSUME NEW t \in Teacher, NEW users \in SUBSET Salesman, BindTeacherSales(t, users)
          PROVE  Promise!HandoverNext
      <4>1. bound' = bound \cup {t} \X users /\ record' = record
          BY <3>1 DEF BindTeacherSales
      <4>2. Promise!Bind(t, users)
          BY <4>1 DEF Promise!Bind
      <4> QED
          BY <4>2 DEF Promise!HandoverNext
    <3>2. ASSUME NEW c \in Client, InsertResignRecord(c)
          PROVE  Promise!HandoverNext
        BY <3>2, CommitHandsOver DEF ServerInv
    <3>3. \/ \E t \in Teacher, users \in SUBSET Salesman : BindTeacherSales(t, users)
          \/ \E c \in Client : InsertResignRecord(c)
          \/ UNCHANGED <<bound, record>>
        BY <2>2 DEF TransferNext, AddResign, DeleteOverlap, MoveRest, Rollback
    <3> QED
        BY <2>1, <3>1, <3>2, <3>3
  <2> QED
      BY <2>1, <2>2
      DEF Next, Start, Migrate, CreateTable, DropFriendCount, DropTransferContent,
          RenameContent, Serve, Stop, Request, vars, transferVars
<1> QED
    BY <1>1, <1>2, ServerInvariant, PTL DEF Spec, ImplementsHandovers, Promise!HandoverSpec

\* Where the current column holds a text, a start still ahead of dropping it has
\* found it there.
TextsWereFound ==
    \A i \in DOMAIN text : text[i] = "transfer_content" =>
        /\ columns = Current
        /\ server \in {"create", "friend", "content"} => found = Current

LEMMA DropKeepsFound ==
    ASSUME ServerInv, TextsWereFound, NEW column \in {"friend_count", "transfer_content"},
           server = IF column = "friend_count" THEN "friend" ELSE "content",
           DropResignColumn(column), found' = found,
           server' = IF column = "friend_count" THEN "content" ELSE "rename"
    PROVE  /\ TextsWereFound'
           /\ \A i \in DOMAIN text : text[i] # "lost" /\ text'[i] = "lost" => found = Current
<1>1. /\ text' = [i \in DOMAIN text |-> IF text[i] = column THEN "lost" ELSE text[i]]
      /\ columns' = columns \ {column}
    BY DEF DropResignColumn, Without
<1>2. \A i \in DOMAIN text : text[i] \in {"none", "lost", "remark", "transfer_content"}
    BY DEF ServerInv, TypeOK
<1>3. CASE column = "friend_count"
  <2>1. \A i \in DOMAIN text : text'[i] = text[i]
      BY <1>1, <1>2, <1>3
  <2>2. columns = Current => columns' = Current
      BY <1>1, <1>3 DEF Current
  <2> QED
      BY <1>1, <1>3, <2>1, <2>2 DEF TextsWereFound
<1>4. CASE column = "transfer_content"
  <2>1. \A i \in DOMAIN text : /\ text'[i] # "transfer_content"
                              /\ text'[i] = "lost" => text[i] \in {"lost", column}
      BY <1>1, <1>4
  <2> QED
      BY <1>1, <1>4, <2>1 DEF TextsWereFound
<1> QED
    BY <1>3, <1>4

LEMMA RenameKeepsFound ==
    ASSUME ServerInv, TextsWereFound, RenameContent
    PROVE  /\ TextsWereFound'
           /\ \A i \in DOMAIN text : text[i] # "lost" => text'[i] # "lost"
<1>1. server = "rename" /\ server' = "others" /\ columns \subseteq {"id", "remark"}
      /\ "id" \in columns
    BY DEF RenameContent, ServerInv, UpgradedSoFar
<1>2. columns' = Current
    BY <1>1 DEF RenameContent, RenameOrAdd, RenameRemark, AddTransferContent, Current
<1>3. /\ DOMAIN text' = DOMAIN text
      /\ \A i \in DOMAIN text : text[i] # "lost" => text'[i] # "lost"
    BY DEF RenameContent, RenameOrAdd, RenameRemark, AddTransferContent
<1> QED
    BY <1>1, <1>2, <1>3 DEF TextsWereFound

LEMMA TextsStep ==
    ASSUME ServerInv, TextsWereFound, [Next]_vars
    PROVE  /\ TextsWereFound'
           /\ \A i \in DOMAIN text : text[i] # "lost" /\ text'[i] = "lost" => found = Current
<1>1. CASE Start
    BY <1>1 DEF Start, TextsWereFound
<1>2. CASE CreateTable
  <2>1. columns = Current => columns' = Current
      BY <1>2 DEF CreateTable, Current
  <2> QED
      BY <1>2, <2>1 DEF CreateTable, TextsWereFound
<1>3. CASE DropFriendCount
    BY <1>3, DropKeepsFound DEF DropFriendCount
<1>4. CASE DropTransferContent
    BY <1>4, DropKeepsFound DEF DropTransferContent
<1>5. CASE RenameContent
    BY <1>5, RenameKeepsFound
<1>6. CASE Serve \/ Stop
    BY <1>6 DEF Serve, Stop, TextsWereFound
<1>7. CASE Request
  <2>1. columns' = Current /\ server' = "up"
      BY <1>7 DEF Request, ServerInv, UpgradedSoFar
  <2>2. \A i \in DOMAIN text : text'[i] = text[i]
    <3>1. text \in Seq({"none", "lost", "remark", "transfer_content"})
        BY DEF ServerInv, TypeOK
    <3> QED
        BY <1>7, <3>1 DEF Request
  <2> QED
      BY <2>1, <2>2 DEF TextsWereFound
<1>8. CASE UNCHANGED vars
    BY <1>8 DEF vars, serverVars, TextsWereFound
<1> QED
    BY <1>1, <1>2, <1>3, <1>4, <1>5, <1>6, <1>7, <1>8 DEF Next, Migrate

\* In every start, the first or a repeated one, cut short or not, a text is lost
\* only if that start found the table in its current form: an upgrade loses none
\* by itself, its repetition after the renaming and every later start may
\* (migrateTeacherResign).
THEOREM UpgradesLoseNoText == Spec => UpgradeKeepsTexts
<1> DEFINE Kept == \A i \in DOMAIN text :
                      text[i] # "lost" /\ text'[i] = "lost" => found = Current
<1>1. Init => TextsWereFound
  <2> SUFFICES ASSUME Init, NEW i \in DOMAIN text, text[i] = "transfer_content"
               PROVE  columns = Current /\ server = "down"
      BY DEF TextsWereFound
  <2>1. columns # {}
      BY DEF Init
  <2>2. text = <<TextIn(columns)>>
      BY <2>1 DEF Init
  <2>3. TextIn(columns) = "transfer_content"
      BY <2>2
  <2> QED
      BY <2>3 DEF TextIn, Init
<1>2. ServerInv /\ TextsWereFound /\ [Next]_vars => TextsWereFound' /\ [Kept]_vars
    BY TextsStep
<1> QED
    BY <1>1, <1>2, ServerInvariant, PTL DEF Spec, UpgradeKeepsTexts
===============================================================================
