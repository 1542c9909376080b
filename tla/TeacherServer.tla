---------------------------- MODULE TeacherServer -----------------------------
(***************************************************************************)
(* The server of the teacher site over its restarts: every start upgrades  *)
(* the columns of teacher_resign, statement by statement, before the       *)
(* requests of module Transfers are served.  DDL commits at once, so that  *)
(* a start may stop half way and be repeated by the supervisor.            *)
(*                                                                         *)
(* Of a record's free text the model keeps the column it is in.  The other *)
(* tables' columns, which no request of this module uses, are one step.    *)
(***************************************************************************)
EXTENDS Transfers

VARIABLES
    columns,  \* those of teacher_resign that have come and gone, and "id"
    text,     \* for each record: the column that holds its text, "none" if it
              \* never had one, "lost" if it is gone
    server,   \* "down", the migration it is at, or "up"
    found     \* history: the columns the last start found

serverVars == <<columns, text, server, found>>
vars == <<transferVars, serverVars>>

Column == {"id", "friend_count", "remark", "transfer_content"}
Current == {"id", "transfer_content"}

\* The forms the table has had: none yet, the first one, the one without
\* remark, the one after friends were dropped, and the current one.  The old
\* transfer_content held a constant and no text.
History == {{}, Column, Column \ {"remark"}, Column \ {"friend_count"}, Current}
TextIn(cols) == IF cols = Current THEN "transfer_content"
                ELSE IF "remark" \in cols THEN "remark" ELSE "none"

TypeOK ==
    /\ TransferTypeOK
    /\ columns \in SUBSET Column
    /\ text \in Seq({"none", "lost", "remark", "transfer_content"})
    /\ Len(text) = Len(record)
    /\ server \in {"down", "create", "friend", "content", "rename", "others", "up"}
    /\ found \in SUBSET Column

\* A table that exists holds a record, taken over from an older server.
Init ==
    /\ bound \in SUBSET Pair
    /\ op = NoOps
    /\ columns \in History
    /\ IF columns = {} THEN record = <<>> /\ text = <<>>
       ELSE /\ \E from, to \in Teacher : from # to /\
                  record = <<[from |-> from, to |-> to, salesmen |-> {},
                              taken |-> {}, alone |-> TRUE]>>
            /\ text = <<TextIn(columns)>>
    /\ server = "down"
    /\ found = {}

-------------------------------------------------------------------------------
Start ==
    /\ server = "down"
    /\ server' = "create"
    /\ found' = columns
    /\ UNCHANGED <<transferVars, columns, text>>

\* What dropping a column does to the texts.
Without(column) == [i \in DOMAIN text |-> IF text[i] = column THEN "lost" ELSE text[i]]

CreateTable ==
    /\ server = "create"
    /\ columns' = IF columns = {} THEN Current ELSE columns
    /\ server' = "friend"
    /\ UNCHANGED <<transferVars, text, found>>

DropResignColumn(column) ==
    /\ columns' = columns \ {column}
    /\ text' = Without(column)

DropFriendCount ==
    /\ server = "friend"
    /\ DropResignColumn("friend_count")
    /\ server' = "content"
    /\ UNCHANGED <<transferVars, found>>

\* The column goes whatever its form is.
DropTransferContent ==
    /\ server = "content"
    /\ DropResignColumn("transfer_content")
    /\ server' = "rename"
    /\ UNCHANGED <<transferVars, found>>

RenameRemark ==
    /\ "remark" \in columns
    /\ columns' = (columns \ {"remark"}) \cup {"transfer_content"}
    /\ text' = [i \in DOMAIN text |-> IF text[i] = "remark" THEN "transfer_content"
                                                             ELSE text[i]]

AddTransferContent ==
    /\ "remark" \notin columns
    /\ columns' = columns \cup {"transfer_content"}
    /\ UNCHANGED text

DropThenAdd ==   \* faulty: the remark is dropped and the column added anew
    /\ columns' = (columns \ {"remark"}) \cup {"transfer_content"}
    /\ text' = Without("remark")
OnlyRename ==    \* faulty: a table without both columns is overlooked
    \/ RenameRemark
    \/ "remark" \notin columns /\ UNCHANGED <<columns, text>>
RenameOrAdd == RenameRemark \/ AddTransferContent

RenameContent ==
    /\ server = "rename"
    /\ RenameOrAdd
    /\ server' = "others"
    /\ UNCHANGED <<transferVars, found>>

\* The columns of the other tables and the seeds; requests are served.
Serve ==
    /\ server = "others"
    /\ server' = "up"
    /\ UNCHANGED <<transferVars, columns, text, found>>

Migrate == CreateTable \/ DropFriendCount \/ DropTransferContent
           \/ RenameContent \/ Serve

\* The server stops, or a statement of the migration fails and it exits: open
\* transactions are rolled back.
Stop ==
    /\ server # "down"
    /\ server' = "down"
    /\ op' = NoOps
    /\ UNCHANGED <<bound, record, columns, text, found>>

\* A request; a new record has its text in the current column.
Request ==
    /\ server = "up"
    /\ TransferNext
    /\ text' = IF Len(record') > Len(record) THEN Append(text, "transfer_content")
                                             ELSE text
    /\ UNCHANGED <<columns, server, found>>

Next == Start \/ Migrate \/ Stop \/ Request

Spec == Init /\ [][Next]_vars

-------------------------------------------------------------------------------
(***************************************************************************)
(* Properties.                                                             *)
(***************************************************************************)
\* Requests meet the current columns, from whichever form of the table and
\* however often a migration was cut short before
\* (database.migrateTeacherResign).
ServesCurrentColumns == server = "up" => columns = Current

\* A start that finds the table in an older form loses no text, wherever it is
\* stopped, and neither does the next one that finds it so: remarks become the
\* transfer content ("CHANGE 保留数据", database/database.go:189).  Texts go only
\* in a start that finds the current form, an upgrade that was stopped right
\* after the renaming and is repeated among them.
UpgradeKeepsTexts ==
    [][\A i \in DOMAIN text :
          text[i] # "lost" /\ text'[i] = "lost" => found = Current]_vars

\* The text of a record is kept over restarts: the migration is to be repeated
\* without effect ("存量库靠此处幂等升级", database/database.go:185).
TextsAreKept == \A i \in DOMAIN text : text[i] # "lost"
===============================================================================
