------------------------------- MODULE SqlLog --------------------------------
(***************************************************************************)
(* internal/database/sqllog.go: the wrapper around the MySQL driver that   *)
(* logs every statement.  It sits below database/sql, which drives it the  *)
(* way its documentation says: it takes a pooled connection or dials,      *)
(* tries the connection itself first, prepares the statement when it is    *)
(* told to skip, and starts over, a bounded number of times, when the      *)
(* connection turns out to be bad.  One call of database/sql is one record *)
(* call[c]; its steps are the methods of the wrapper it runs through.      *)
(***************************************************************************)
EXTENDS Naturals, FiniteSets

CONSTANTS Callers,    \* goroutines that use the database
          MaxRetries  \* database/sql: tries on pooled connections before a new one

ASSUME SqlLogAssumption == MaxRetries \in Nat

VARIABLES
  inner,  \* the optional interfaces the wrapped driver implements
  debug,  \* LOG_LEVEL=debug
  free,   \* idle connections in the pool
  call,   \* call[c]: the call caller c is in
  tx,     \* tx[c]: "none", "open", or "broken" with its connection gone
  used,   \* used[c]: what database/sql did for c, counted when it happened
  told    \* told[c]: the lines logged for c, counted by what they say

sqlVars == <<inner, debug, free, call, tx, used, told>>

Optional == {"ExecerContext", "QueryerContext", "ConnBeginTx",
             "StmtExecContext", "StmtQueryContext"}
Ops == {"exec", "query", "BEGIN"}

\* The interface with which an op runs on a connection, and on a statement.
OnConn(op) == CASE op = "exec"  -> "ExecerContext"
                [] op = "query" -> "QueryerContext"
                [] op = "BEGIN" -> "ConnBeginTx"
OnStmt(op) == IF op = "exec" THEN "StmtExecContext" ELSE "StmtQueryContext"

NoCall == [at |-> "idle", op |-> "none", args |-> FALSE,
           retries |-> 0, tries |-> 0, got |-> 0]
\* What is counted: lines by what they say, with the rows they report and the
\* transactions they begin; runs of the driver, and the sets of rows and the rows
\* that the caller was given.
LineKinds == Ops \cup {"connect", "rows", "fetched", "begun", "COMMIT", "ROLLBACK"}
UseKinds == Ops \cup {"sets", "seen"}
NoLines == [l \in LineKinds |-> 0]
NoUse == [u \in UseKinds |-> 0]

SqlInit ==
    /\ inner \in SUBSET Optional
    /\ debug \in BOOLEAN
    /\ free = 0
    /\ call = [c \in Callers |-> NoCall]
    /\ tx = [c \in Callers |-> "none"]
    /\ used = [c \in Callers |-> NoUse]
    /\ told = [c \in Callers |-> NoLines]

\* logSQL: the level is checked first.
logSQL(c, line) ==
    told' = IF debug THEN [told EXCEPT ![c] = line] ELSE told
Line(c, op) == [told[c] EXCEPT ![op] = @ + 1]

Move(c, at) == call' = [call EXCEPT ![c].at = at]

-------------------------------------------------------------------------------
(***************************************************************************)
(* Getting a connection.                                                   *)
(***************************************************************************)
Start(c, op, args) ==
    /\ call[c].at = "idle"
    /\ op = "BEGIN" => tx[c] = "none" /\ ~args
    /\ tx[c] # "broken"
    /\ call' = [call EXCEPT ![c] =
          [NoCall EXCEPT !.at = IF tx[c] = "open" THEN "conn" ELSE "pool",
                         !.op = op, !.args = args]]
    /\ UNCHANGED <<inner, debug, free, tx, used, told>>

\* ResetSession and IsValid are passed on, so that a pooled connection can be
\* used again.
Take(c) ==
    /\ call[c].at = "pool" /\ free > 0 /\ call[c].retries < MaxRetries
    /\ free' = free - 1
    /\ Move(c, "conn")
    /\ UNCHANGED <<inner, debug, tx, used, told>>

\* ResetSession says that the connection went bad in the pool.
Discard(c) ==
    /\ call[c].at = "pool" /\ free > 0 /\ call[c].retries < MaxRetries
    /\ free' = free - 1
    /\ call' = [call EXCEPT ![c].retries = @ + 1]
    /\ UNCHANGED <<inner, debug, tx, used, told>>

MustDial(c) == call[c].at = "pool" /\ (free = 0 \/ call[c].retries = MaxRetries)

Connect(c) ==
    /\ MustDial(c)
    /\ Move(c, "conn")
    /\ logSQL(c, Line(c, "connect"))
    /\ UNCHANGED <<inner, debug, free, tx, used>>

ConnectFails(c) ==
    /\ MustDial(c)
    /\ Move(c, "lost")
    /\ UNCHANGED <<inner, debug, free, tx, used, told>>

-------------------------------------------------------------------------------
(***************************************************************************)
(* Running a statement.                                                    *)
(***************************************************************************)
\* The MySQL driver, too, skips what has arguments: interpolateParams is off.
Skips(c) == call[c].op # "BEGIN" /\ (call[c].args \/ OnConn(call[c].op) \notin inner)

\* mutant: the probe is logged
ErrSkipLogged(c) ==
    /\ call[c].at = "conn" /\ Skips(c)
    /\ Move(c, "prepare")
    /\ logSQL(c, Line(c, call[c].op))
    /\ UNCHANGED <<inner, debug, free, tx, used>>
ErrSkip(c) ==
    /\ call[c].at = "conn" /\ Skips(c)
    /\ Move(c, "prepare")
    /\ UNCHANGED <<inner, debug, free, tx, used, told>>

PrepareContext(c) ==
    /\ call[c].at = "prepare"
    /\ Move(c, "stmt")
    /\ UNCHANGED <<inner, debug, free, tx, used, told>>

\* The statement does not prepare: an error, and no line.
PrepareFails(c) ==
    /\ call[c].at = "prepare"
    /\ Move(c, "failed")
    /\ UNCHANGED <<inner, debug, free, tx, used, told>>

\* Without the interface with a context the older method is called, and logs.
FallsBack(c) ==
    \/ call[c].at = "conn" /\ call[c].op = "BEGIN" /\ "ConnBeginTx" \notin inner
    \/ call[c].at = "stmt" /\ OnStmt(call[c].op) \notin inner

Older(c) ==
    /\ FallsBack(c)
    /\ Move(c, "older")
    /\ UNCHANGED <<inner, debug, free, tx, used, told>>

AtDriver(c) ==
    \/ call[c].at = "conn" /\ ~Skips(c) /\ ~FallsBack(c)
    \/ call[c].at = "stmt" /\ ~FallsBack(c)
    \/ call[c].at = "older"

\* The driver answers: a result, a set of rows, or a transaction.
Runs(c) ==
    LET op == call[c].op IN
    /\ AtDriver(c)
    /\ call' = [call EXCEPT ![c].at = IF op = "query" THEN "rows" ELSE "ok",
                            ![c].tries = @ + 1]
    /\ tx' = IF op = "BEGIN" THEN [tx EXCEPT ![c] = "open"] ELSE tx
    /\ used' = IF op = "query" THEN [used EXCEPT ![c]["sets"] = @ + 1] ELSE used
    /\ logSQL(c, IF op = "BEGIN" THEN [Line(c, op) EXCEPT !["begun"] = @ + 1]
                 ELSE Line(c, op))
    /\ UNCHANGED <<inner, debug, free>>

RunFails(c) ==
    /\ AtDriver(c)
    /\ call' = [call EXCEPT ![c].at = "failed", ![c].tries = @ + 1]
    /\ logSQL(c, Line(c, call[c].op))
    /\ UNCHANGED <<inner, debug, free, tx, used>>

\* ErrBadConn: logged as an error; database/sql drops the connection and, out
\* of a transaction, starts over.
BadConn(c) ==
    LET again == tx[c] = "none" /\ call[c].retries < MaxRetries IN
    /\ AtDriver(c)
    /\ call' = [call EXCEPT ![c].at = IF again THEN "pool" ELSE "lost",
                            ![c].tries = @ + 1,
                            ![c].retries = IF again THEN @ + 1 ELSE @]
    /\ tx' = IF tx[c] = "open" THEN [tx EXCEPT ![c] = "broken"] ELSE tx
    /\ logSQL(c, Line(c, call[c].op))
    /\ UNCHANGED <<inner, debug, free, used>>

-------------------------------------------------------------------------------
(***************************************************************************)
(* Reading rows, and giving the answer back.                               *)
(***************************************************************************)
NextRow(c) ==
    /\ call[c].at = "rows"
    /\ call' = [call EXCEPT ![c].got = @ + 1]
    /\ used' = [used EXCEPT ![c]["seen"] = @ + 1]
    /\ UNCHANGED <<inner, debug, free, tx, told>>

\* At the end of the rows, or when they break off, database/sql closes them.
CloseRows(c, broken) ==
    /\ call[c].at = "rows"
    /\ Move(c, IF broken THEN "failed" ELSE "ok")
    /\ logSQL(c, [Line(c, "rows") EXCEPT !["fetched"] = @ + call[c].got])
    /\ UNCHANGED <<inner, debug, free, tx, used>>

\* The connection goes back to the pool, unless it is lost or a transaction's.
Finish(c) ==
    /\ call[c].at \in {"ok", "failed", "lost"}
    /\ free' = IF call[c].at # "lost" /\ tx[c] = "none" THEN free + 1 ELSE free
    /\ used' = [used EXCEPT ![c][call[c].op] = @ + call[c].tries]
    /\ call' = [call EXCEPT ![c] = NoCall]
    /\ UNCHANGED <<inner, debug, tx, told>>

\* A deferred Rollback after a Commit never gets here: database/sql answers
\* ErrTxDone by itself.
EndTx(c, op) ==
    /\ call[c].at = "idle" /\ tx[c] # "none"
    /\ op = "COMMIT" => tx[c] = "open"
    /\ free' = IF tx[c] = "open" THEN free + 1 ELSE free
    /\ tx' = [tx EXCEPT ![c] = "none"]
    /\ logSQL(c, Line(c, op))
    /\ UNCHANGED <<inner, debug, call, used>>

\* The count of what was done and told starts over between two calls.
StartOver(c) ==
    /\ call[c].at = "idle" /\ tx[c] = "none"
    /\ used' = [used EXCEPT ![c] = NoUse]
    /\ told' = [told EXCEPT ![c] = NoLines]
    /\ UNCHANGED <<inner, debug, free, call, tx>>

-------------------------------------------------------------------------------
Faulty(c) == Discard(c) \/ ConnectFails(c) \/ PrepareFails(c) \/ RunFails(c) \/ BadConn(c)
Quiet(c) == Take(c) \/ Connect(c) \/ ErrSkip(c) \/ PrepareContext(c) \/ Older(c)

SqlNext ==
    \E c \in Callers :
        \/ \E op \in Ops, args \in BOOLEAN : Start(c, op, args)
        \/ Quiet(c) \/ Faulty(c) \/ Runs(c) \/ NextRow(c) \/ Finish(c)
        \/ \E broken \in BOOLEAN : CloseRows(c, broken)
        \/ \E op \in {"COMMIT", "ROLLBACK"} : EndTx(c, op)
        \/ StartOver(c)

SqlSpec == SqlInit /\ [][SqlNext]_sqlVars

-------------------------------------------------------------------------------
(***************************************************************************)
(* The log: one line for every time the driver took up a statement or a    *)
(* BEGIN and none for a probe it skipped, whichever way it went; one line  *)
(* for every set of rows, with the number of rows the caller read; one     *)
(* COMMIT or ROLLBACK for every transaction that began.                    *)
(***************************************************************************)
StatementLines(c) ==
    \A op \in Ops :
        told[c][op] = used[c][op] + (IF call[c].op = op THEN call[c].tries ELSE 0)
RowsLines(c) ==
    LET open == IF call[c].at = "rows" THEN 1 ELSE 0
        unread == IF call[c].at = "rows" THEN call[c].got ELSE 0
    IN  /\ told[c]["rows"] + open = used[c]["sets"]
        /\ told[c]["fetched"] + unread = used[c]["seen"]
TxLines(c) ==
    told[c]["begun"] = told[c]["COMMIT"] + told[c]["ROLLBACK"]
                    + (IF tx[c] = "none" THEN 0 ELSE 1)

LogMatchesOutcome ==
    \A c \in Callers :
        IF debug THEN StatementLines(c) /\ RowsLines(c) /\ TxLines(c)
        ELSE told[c] = NoLines
===============================================================================
