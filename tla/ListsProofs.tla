------------------------------ MODULE ListsProofs -----------------------------
(***************************************************************************)
(* What the console's lists answer, and the log their statements leave,    *)
(* for any tables, rows, requests and writers, and any number of faults.   *)
(*                                                                         *)
(* The log: a call keeps its books whatever it does, and the others' books *)
(* are not touched.  Every step of the lists is such a step or none, so    *)
(* that the lists inherit it.                                              *)
(*                                                                         *)
(* The answers, from the inside out.  The arguments of a statement lie in  *)
(* one list, flattened condition by condition; so every placeholder finds  *)
(* the arguments of its own condition (Binding).  Each builder's condition *)
(* says of a row what the kind of its field says, or is left out when the  *)
(* field was (the ...Fits lemmas); so each list's conditions select the    *)
(* rows that the request wants (the ...Asked lemmas), and its plan is a    *)
(* count and a page over them (the ...Plan lemmas).  A statement sorts by  *)
(* a strict order, and a sorted list without repetition is unique; so the  *)
(* page is the due stretch of it (PagesAre).  The inductive invariant says *)
(* of an answer under way that each result so far is its statement's on a  *)
(* table that was there, and a complete one is what was due.               *)
(*                                                                         *)
(* The pages turned to the end: of the rows that stayed, those not shown   *)
(* yet are behind the places shown so far, unless they moved up, and those *)
(* shown are before their end, unless they were pushed down (ScanInv); at  *)
(* the end there is no place behind.                                       *)
(***************************************************************************)
EXTENDS PagedLists, Sums, SequenceTheorems, TLAPS

-------------------------------------------------------------------------------
(***************************************************************************)
(* The log of the driver's wrapper matches what was done, for any number   *)
(* of callers, retries and statements, and for every driver.               *)
(***************************************************************************)
Before1 == {"pool", "conn", "prepare", "stmt", "older"}
Places == Before1 \cup {"idle", "rows", "ok", "failed", "lost"}

CallType == [at : Places, op : Ops \cup {"none"}, args : BOOLEAN,
             retries : Nat, tries : Nat, got : Nat]
SqlTypeOK ==
    /\ inner \subseteq Optional
    /\ debug \in BOOLEAN
    /\ free \in Nat
    /\ call \in [Callers -> CallType]
    /\ tx \in [Callers -> {"none", "open", "broken"}]
    /\ used \in [Callers -> [UseKinds -> Nat]]
    /\ told \in [Callers -> [LineKinds -> Nat]]

\* A call that has not run yet has read no row, and a BEGIN is in no
\* transaction; rows are a query's; who is idle has nothing half done.
CallShape(c) ==
    /\ call[c].at = "idle" => call[c].op = "none" /\ call[c].tries = 0
    /\ call[c].at # "idle" => call[c].op \in Ops
    /\ call[c].at \in Before1 =>
          call[c].got = 0 /\ (call[c].op = "BEGIN" => tx[c] = "none")
    /\ call[c].at = "rows" => call[c].op = "query"

Books(c) ==
    IF debug THEN StatementLines(c) /\ RowsLines(c) /\ TxLines(c)
    ELSE told[c] = NoLines

SqlInv == SqlTypeOK /\ \A c \in Callers : CallShape(c) /\ Books(c)

\* What a step of caller c leaves as it was.
Others(c) ==
    /\ inner' = inner /\ debug' = debug
    /\ \A d \in Callers \ {c} :
          call'[d] = call[d] /\ tx'[d] = tx[d] /\ used'[d] = used[d] /\ told'[d] = told[d]

-------------------------------------------------------------------------------
(* The books of the other callers are not touched by a step of caller c.    *)
LEMMA OneCallerSuffices ==
    ASSUME SqlInv, SqlTypeOK', NEW c \in Callers, Others(c), CallShape(c)', Books(c)'
    PROVE  SqlInv'
<1>1. ASSUME NEW d \in Callers PROVE CallShape(d)' /\ Books(d)'
  <2>1. CASE d = c BY <2>1
  <2>2. CASE d # c
    <3>1. call'[d] = call[d] /\ tx'[d] = tx[d] /\ used'[d] = used[d] /\ told'[d] = told[d]
      BY <2>2 DEF Others
    <3>2. debug' = debug BY DEF Others
    <3>3. CallShape(d) /\ Books(d) BY DEF SqlInv
    <3>4. CallShape(d)' BY <3>1, <3>3 DEF CallShape
    <3>5. Books(d)'
      BY <3>1, <3>2, <3>3 DEF Books, StatementLines, RowsLines, TxLines
    <3>. QED BY <3>4, <3>5
  <2>. QED BY <2>1, <2>2
<1>. QED BY <1>1 DEF SqlInv

(* One more line of a kind in a caller's counts.                            *)
LEMMA LineTyped ==
    ASSUME told \in [Callers -> [LineKinds -> Nat]], NEW c \in Callers,
           NEW kind \in LineKinds
    PROVE  /\ Line(c, kind) \in [LineKinds -> Nat]
           /\ Line(c, kind)[kind] = told[c][kind] + 1
           /\ \A k \in LineKinds \ {kind} : Line(c, kind)[k] = told[c][k]
<1>1. told[c] \in [LineKinds -> Nat] OBVIOUS
<1>. QED BY <1>1 DEF Line

(* A step that keeps the books and only moves a call between the places     *)
(* where it has not run yet, or gives it up, disturbs nothing.              *)
LEMMA MoveKeepsInv ==
    ASSUME SqlInv, NEW c \in Callers, NEW at \in Places \ {"idle", "rows"},
           call[c].at \in Before1, Move(c, at),
           at \in Before1 \cup {"failed", "lost"},
           inner' = inner, debug' = debug, free' \in Nat, tx' = tx, used' = used,
           \/ told' = told
           \/ debug /\ told' = [told EXCEPT ![c] = Line(c, "connect")]
    PROVE  SqlInv'
<1>0. SqlTypeOK BY DEF SqlInv
<1>1. SqlTypeOK'
  <2>1. call' \in [Callers -> CallType]
    BY <1>0 DEF SqlTypeOK, Move, CallType
  <2>2. told' \in [Callers -> [LineKinds -> Nat]]
    <3>1. "connect" \in LineKinds BY DEF LineKinds
    <3>2. Line(c, "connect") \in [LineKinds -> Nat] BY <1>0, <3>1, LineTyped DEF SqlTypeOK
    <3>. QED BY <1>0, <3>2 DEF SqlTypeOK
  <2>. QED BY <1>0, <2>1, <2>2 DEF SqlTypeOK
<1>2. Others(c) BY DEF SqlInv, SqlTypeOK, Others, Move
<1>3. /\ call'[c].at = at /\ call'[c].op = call[c].op /\ call'[c].tries = call[c].tries
      /\ call'[c].got = call[c].got
  BY DEF SqlInv, SqlTypeOK, Move, CallType
<1>4. CallShape(c) /\ Books(c) BY DEF SqlInv
<1>5. CallShape(c)' BY <1>3, <1>4 DEF CallShape, Before1, Places, Ops
<1>6. Books(c)'
  <2>1. \A op \in LineKinds \ {"connect"} :
            told'[c][op] = told[c][op]
    BY DEF SqlInv, SqlTypeOK, Line, LineKinds, Ops
  <2>2. debug => StatementLines(c)' /\ RowsLines(c)' /\ TxLines(c)'
    BY <1>3, <1>4, <2>1 DEF Books, StatementLines, RowsLines, TxLines, LineKinds, Ops, Before1, Places
  <2>3. ~debug => told'[c] = NoLines BY <1>4 DEF Books
  <2>. QED BY <2>2, <2>3 DEF Books
<1>. QED BY <1>1, <1>2, <1>5, <1>6, OneCallerSuffices

-------------------------------------------------------------------------------
(* A caller that starts a call has everything before it.                    *)
LEMMA StartKeepsInv ==
    ASSUME SqlInv, NEW c \in Callers, NEW op \in Ops, NEW args \in BOOLEAN,
           Start(c, op, args)
    PROVE  SqlInv'
<1>0. SqlTypeOK /\ CallShape(c) /\ Books(c) BY DEF SqlInv
<1>1. /\ call'[c].at = (IF tx[c] = "open" THEN "conn" ELSE "pool")
      /\ call'[c].op = op /\ call'[c].tries = 0 /\ call'[c].got = 0
  BY <1>0 DEF SqlTypeOK, Start, NoCall
<1>2. SqlTypeOK'
  <2>1. NoCall \in CallType BY DEF NoCall, CallType, Places, Before1
  <2>2. call' \in [Callers -> CallType]
    BY <1>0, <2>1 DEF SqlTypeOK, Start, CallType, Places, Before1
  <2>. QED BY <1>0, <2>2 DEF SqlTypeOK, Start
<1>3. Others(c) BY <1>0, <1>1 DEF SqlTypeOK, Others, Start
<1>4. CallShape(c)'
  BY <1>0, <1>1 DEF SqlTypeOK, CallShape, Start, Before1
<1>5. Books(c)'
  BY <1>0, <1>1
  DEF SqlTypeOK, CallShape, Start, Books, StatementLines, RowsLines, TxLines, Ops
<1>. QED BY <1>2, <1>3, <1>4, <1>5, OneCallerSuffices

(* Getting a connection, the probe, the statement and the older method.     *)
LEMMA QuietKeepsInv ==
    ASSUME SqlInv, NEW c \in Callers, Quiet(c)
    PROVE  SqlInv'
<1>0. SqlTypeOK /\ CallShape(c) BY DEF SqlInv
<1>1. CASE Take(c)
  BY <1>0, <1>1, MoveKeepsInv DEF SqlTypeOK, Take, Places, Before1
<1>2. CASE Connect(c)
  BY <1>0, <1>2, MoveKeepsInv DEF SqlTypeOK, Connect, MustDial, logSQL, Places, Before1
<1>3. CASE ErrSkip(c)
  BY <1>0, <1>3, MoveKeepsInv DEF SqlTypeOK, ErrSkip, Places, Before1
<1>4. CASE PrepareContext(c)
  BY <1>0, <1>4, MoveKeepsInv DEF SqlTypeOK, PrepareContext, Places, Before1
<1>5. CASE Older(c)
  BY <1>0, <1>5, MoveKeepsInv DEF SqlTypeOK, Older, FallsBack, Places, Before1
<1>. QED BY <1>1, <1>2, <1>3, <1>4, <1>5 DEF Quiet

(* A call that is given up before the driver took it up.                    *)
LEMMA GivenUpKeepsInv ==
    ASSUME SqlInv, NEW c \in Callers, Discard(c) \/ ConnectFails(c) \/ PrepareFails(c)
    PROVE  SqlInv'
<1>0. SqlTypeOK /\ CallShape(c) /\ Books(c) BY DEF SqlInv
<1>1. CASE Discard(c)
  <2>0. call' \in [Callers -> CallType]
    <3>1. call[c] \in CallType BY <1>0 DEF SqlTypeOK
    <3>2. [call[c] EXCEPT !.retries = @ + 1] \in CallType BY <3>1 DEF CallType
    <3>. QED BY <1>0, <1>1, <3>2 DEF SqlTypeOK, Discard
  <2>1. SqlTypeOK' BY <1>0, <1>1, <2>0 DEF SqlTypeOK, Discard
  <2>2. Others(c) BY <1>0, <1>1 DEF SqlTypeOK, Others, Discard
  <2>3. /\ call'[c].at = call[c].at /\ call'[c].op = call[c].op
        /\ call'[c].tries = call[c].tries /\ call'[c].got = call[c].got
    BY <1>0, <1>1 DEF SqlTypeOK, Discard, CallType
  <2>4. CallShape(c)' BY <1>0, <1>1, <2>3 DEF CallShape, Discard
  <2>5. Books(c)'
    BY <1>0, <1>1, <2>3 DEF Discard, Books, StatementLines, RowsLines, TxLines
  <2>. QED BY <2>1, <2>2, <2>4, <2>5, OneCallerSuffices
<1>2. CASE ConnectFails(c)
  BY <1>0, <1>2, MoveKeepsInv DEF SqlTypeOK, ConnectFails, MustDial, Places, Before1
<1>3. CASE PrepareFails(c)
  BY <1>0, <1>3, MoveKeepsInv DEF SqlTypeOK, PrepareFails, Places, Before1
<1>. QED BY <1>1, <1>2, <1>3

-------------------------------------------------------------------------------
(* What a step that logs leaves of the counts: those of one kind, or all.   *)
LEMMA Logged ==
    ASSUME SqlTypeOK, NEW c \in Callers, NEW line \in [LineKinds -> Nat], logSQL(c, line)
    PROVE  /\ told' \in [Callers -> [LineKinds -> Nat]]
           /\ told'[c] = (IF debug THEN line ELSE told[c])
           /\ \A d \in Callers \ {c} : told'[d] = told[d]
BY DEF SqlTypeOK, logSQL

(* Where a call is when the driver gets its statement.                      *)
LEMMA AtDriverFacts ==
    ASSUME SqlInv, NEW c \in Callers, AtDriver(c)
    PROVE  /\ call[c].at \in Before1 /\ call[c].op \in Ops /\ call[c].got = 0
           /\ call[c].op = "BEGIN" => tx[c] = "none"
BY DEF SqlInv, SqlTypeOK, CallShape, AtDriver, FallsBack, Before1

(* The counts of tries stay counts.                                         *)
LEMMA TriedTyped ==
    ASSUME NEW r \in CallType, NEW a \in Places, NEW n \in Nat
    PROVE  /\ [r EXCEPT !.at = a, !.tries = @ + 1] \in CallType
           /\ [r EXCEPT !.at = a, !.tries = @ + 1, !.retries = n] \in CallType
<1> DEFINE t == r.tries + 1
<1>1. t \in Nat BY DEF CallType
<1>2. r.tries + 1 = t OBVIOUS
<1> HIDE DEF t
<1>3. [r EXCEPT !.at = a, !.tries = t] \in CallType BY <1>1 DEF CallType
<1>4. [r EXCEPT !.at = a, !.tries = t, !.retries = n] \in CallType BY <1>1 DEF CallType
<1>. QED BY <1>2, <1>3, <1>4

(* The driver answers, in whichever way: one more try, one more line.       *)
LEMMA RunKeepsInv ==
    ASSUME SqlInv, NEW c \in Callers, Runs(c) \/ RunFails(c) \/ BadConn(c)
    PROVE  SqlInv'
<1>0. SqlTypeOK /\ CallShape(c) /\ Books(c) BY DEF SqlInv
<1>a. AtDriver(c) BY DEF Runs, RunFails, BadConn
<1>b. /\ call[c].at \in Before1 /\ call[c].op \in Ops /\ call[c].got = 0
      /\ call[c].op = "BEGIN" => tx[c] = "none"
  BY <1>a, AtDriverFacts
<1>c. call[c] \in CallType BY <1>0 DEF SqlTypeOK
<1>d. call[c].op \in LineKinds BY <1>b DEF LineKinds
<1>e. /\ Line(c, call[c].op) \in [LineKinds -> Nat]
      /\ Line(c, call[c].op)[call[c].op] = told[c][call[c].op] + 1
      /\ \A k \in LineKinds \ {call[c].op} : Line(c, call[c].op)[k] = told[c][k]
  BY <1>0, <1>d, LineTyped DEF SqlTypeOK
<1>f. told[c] \in [LineKinds -> Nat] /\ used[c] \in [UseKinds -> Nat]
  BY <1>0 DEF SqlTypeOK
<1>1. CASE Runs(c)
  <2> DEFINE at1 == IF call[c].op = "query" THEN "rows" ELSE "ok"
             begun == [Line(c, call[c].op) EXCEPT !["begun"] = @ + 1]
             line == IF call[c].op = "BEGIN" THEN begun ELSE Line(c, call[c].op)
  <2>1. [call[c] EXCEPT !.at = at1, !.tries = @ + 1] \in CallType
    BY <1>c, TriedTyped DEF Places
  <2>2. call' \in [Callers -> CallType]
    BY <1>0, <1>1, <2>1 DEF SqlTypeOK, Runs
  <2>3. /\ call'[c].at = at1 /\ call'[c].op = call[c].op
        /\ call'[c].tries = call[c].tries + 1 /\ call'[c].got = call[c].got
    BY <1>0, <1>1 DEF SqlTypeOK, Runs, CallType
  <2>4. line \in [LineKinds -> Nat] BY <1>e DEF LineKinds
  <2>5. logSQL(c, line) BY <1>1 DEF Runs
  <2> HIDE DEF line
  <2>6. /\ told' \in [Callers -> [LineKinds -> Nat]]
        /\ told'[c] = (IF debug THEN line ELSE told[c])
        /\ \A d \in Callers \ {c} : told'[d] = told[d]
    BY <1>0, <2>4, <2>5, Logged
  <2> USE DEF line
  <2>7. /\ used' \in [Callers -> [UseKinds -> Nat]]
        /\ used'[c]["sets"] = used[c]["sets"] + (IF call[c].op = "query" THEN 1 ELSE 0)
        /\ \A u \in UseKinds \ {"sets"} : used'[c][u] = used[c][u]
        /\ \A d \in Callers \ {c} : used'[d] = used[d]
    <3>1. [used[c] EXCEPT !["sets"] = @ + 1] \in [UseKinds -> Nat]
      BY <1>f DEF UseKinds
    <3>2. used' = (IF call[c].op = "query" THEN [used EXCEPT ![c]["sets"] = @ + 1] ELSE used)
      BY <1>1 DEF Runs
    <3>3. CASE call[c].op = "query" BY <1>0, <1>f, <3>1, <3>2, <3>3 DEF SqlTypeOK, UseKinds
    <3>4. CASE call[c].op # "query" BY <1>0, <1>f, <3>2, <3>4 DEF SqlTypeOK, UseKinds
    <3>. QED BY <3>3, <3>4
  <2>8. /\ tx' \in [Callers -> {"none", "open", "broken"}]
        /\ tx'[c] = (IF call[c].op = "BEGIN" THEN "open" ELSE tx[c])
    BY <1>0, <1>1 DEF SqlTypeOK, Runs
  <2>9. SqlTypeOK' BY <1>0, <1>1, <2>2, <2>6, <2>7, <2>8 DEF SqlTypeOK, Runs
  <2>10. Others(c) BY <1>0, <1>1, <2>6, <2>7 DEF SqlTypeOK, Runs, Others
  <2>11. CallShape(c)' BY <1>b, <2>3 DEF CallShape, Before1
  <2>12. Books(c)'
    <3>0. debug' = debug BY <1>1 DEF Runs
    <3>1. debug => StatementLines(c)'
      BY <1>0, <1>b, <1>c, <1>e, <1>f, <2>3, <2>6, <2>7
      DEF Books, StatementLines, Ops, LineKinds, UseKinds, CallType
    <3>2. debug => RowsLines(c)'
      BY <1>0, <1>b, <1>c, <1>e, <1>f, <2>3, <2>6, <2>7
      DEF Books, RowsLines, Before1, Ops, LineKinds, UseKinds, CallType
    <3>3. debug => TxLines(c)'
      BY <1>0, <1>b, <1>e, <1>f, <2>6, <2>8
      DEF Books, TxLines, Ops, LineKinds
    <3>. QED BY <1>0, <2>6, <3>0, <3>1, <3>2, <3>3 DEF Books
  <2>. QED BY <2>9, <2>10, <2>11, <2>12, OneCallerSuffices
<1>2. CASE RunFails(c) \/ BadConn(c)
  <2>1. PICK at1 \in {"pool", "failed", "lost"}, n \in Nat :
           /\ call' = [call EXCEPT ![c].at = at1, ![c].tries = @ + 1, ![c].retries = n]
           /\ at1 = "pool" => tx[c] = "none"
    <3>1. CASE RunFails(c)
      <4>1. call' = [call EXCEPT ![c].at = "failed", ![c].tries = @ + 1,
                                 ![c].retries = call[c].retries]
        BY <1>0, <1>c, <3>1 DEF SqlTypeOK, RunFails, CallType
      <4>2. call[c].retries \in Nat BY <1>c DEF CallType
      <4>. QED BY <4>1, <4>2
    <3>2. CASE BadConn(c)
      <4> DEFINE again == tx[c] = "none" /\ call[c].retries < MaxRetries
                 at2 == IF again THEN "pool" ELSE "lost"
                 n2 == IF again THEN call[c].retries + 1 ELSE call[c].retries
      <4>1. call[c].retries \in Nat BY <1>c DEF CallType
      <4>2. n2 \in Nat BY <4>1
      <4>3. call' = [call EXCEPT ![c].at = at2, ![c].tries = @ + 1, ![c].retries = n2]
        BY <3>2 DEF BadConn
      <4>4. at2 \in {"pool", "failed", "lost"} /\ (at2 = "pool" => tx[c] = "none")
        OBVIOUS
      <4> HIDE DEF at2, n2
      <4>. QED BY <4>2, <4>3, <4>4
    <3>. QED BY <1>2, <3>1, <3>2
  <2>2. [call[c] EXCEPT !.at = at1, !.tries = @ + 1, !.retries = n] \in CallType
    BY <1>c, <2>1, TriedTyped DEF Places, Before1
  <2>3. call' \in [Callers -> CallType]
    BY <1>0, <2>1, <2>2 DEF SqlTypeOK
  <2>4. /\ call'[c].at = at1 /\ call'[c].op = call[c].op
        /\ call'[c].tries = call[c].tries + 1 /\ call'[c].got = call[c].got
    BY <1>0, <2>1 DEF SqlTypeOK, CallType
  <2>5. logSQL(c, Line(c, call[c].op)) BY <1>2 DEF RunFails, BadConn
  <2>6. /\ told' \in [Callers -> [LineKinds -> Nat]]
        /\ told'[c] = (IF debug THEN Line(c, call[c].op) ELSE told[c])
        /\ \A d \in Callers \ {c} : told'[d] = told[d]
    BY <1>0, <1>e, <2>5, Logged
  <2>7. /\ tx' \in [Callers -> {"none", "open", "broken"}]
        /\ tx'[c] = "none" <=> tx[c] = "none"
        /\ \A d \in Callers \ {c} : tx'[d] = tx[d]
    BY <1>0, <1>2 DEF SqlTypeOK, RunFails, BadConn
  <2>8. used' = used /\ inner' = inner /\ debug' = debug /\ free' = free
    BY <1>2 DEF RunFails, BadConn
  <2>9. SqlTypeOK' BY <1>0, <2>3, <2>6, <2>7, <2>8 DEF SqlTypeOK
  <2>10. Others(c) BY <1>0, <2>1, <2>6, <2>7, <2>8 DEF SqlTypeOK, Others
  <2>11. CallShape(c)' BY <1>b, <2>1, <2>4, <2>7 DEF CallShape, Before1
  <2>12. Books(c)'
    <3>1. debug => StatementLines(c)'
      BY <1>0, <1>b, <1>c, <1>e, <1>f, <2>4, <2>6, <2>8
      DEF Books, StatementLines, Ops, LineKinds, UseKinds, CallType
    <3>2. debug => RowsLines(c)'
      BY <1>0, <1>b, <1>c, <1>e, <1>f, <2>1, <2>4, <2>6, <2>8
      DEF Books, RowsLines, Before1, Ops, LineKinds, UseKinds, CallType
    <3>3. debug => TxLines(c)'
      BY <1>0, <1>b, <1>e, <1>f, <2>6, <2>7
      DEF Books, TxLines, Ops, LineKinds
    <3>. QED BY <1>0, <2>6, <2>8, <3>1, <3>2, <3>3 DEF Books
  <2>. QED BY <2>9, <2>10, <2>11, <2>12, OneCallerSuffices
<1>. QED BY <1>1, <1>2

(* A row that is read, and the line when its set is closed.                 *)
LEMMA NextRowKeepsInv ==
    ASSUME SqlInv, NEW c \in Callers, NextRow(c)
    PROVE  SqlInv'
<1>0. SqlTypeOK /\ CallShape(c) /\ Books(c) BY DEF SqlInv
<1>c. call[c] \in CallType /\ call[c].got \in Nat BY <1>0 DEF SqlTypeOK, CallType
<1>f. told[c] \in [LineKinds -> Nat] /\ used[c] \in [UseKinds -> Nat]
  BY <1>0 DEF SqlTypeOK
<1>1. call' \in [Callers -> CallType]
  <2>1. [call[c] EXCEPT !.got = @ + 1] \in CallType BY <1>c DEF CallType
  <2>. QED BY <1>0, <2>1 DEF SqlTypeOK, NextRow
<1>2. /\ call'[c].at = "rows" /\ call'[c].op = call[c].op
      /\ call'[c].tries = call[c].tries /\ call'[c].got = call[c].got + 1
  BY <1>0, <1>c DEF SqlTypeOK, NextRow, CallType
<1>3. /\ used' \in [Callers -> [UseKinds -> Nat]]
      /\ used'[c]["seen"] = used[c]["seen"] + 1
      /\ \A u \in UseKinds \ {"seen"} : used'[c][u] = used[c][u]
      /\ \A d \in Callers \ {c} : used'[d] = used[d]
  <2>1. [used[c] EXCEPT !["seen"] = @ + 1] \in [UseKinds -> Nat] BY <1>f DEF UseKinds
  <2>. QED BY <1>0, <1>f, <2>1 DEF SqlTypeOK, NextRow, UseKinds
<1>4. SqlTypeOK' BY <1>0, <1>1, <1>3 DEF SqlTypeOK, NextRow
<1>5. Others(c) BY <1>0, <1>3 DEF SqlTypeOK, NextRow, Others
<1>6. CallShape(c)' BY <1>0, <1>2 DEF CallShape, NextRow, Before1
<1>7. Books(c)'
  BY <1>0, <1>c, <1>f, <1>2, <1>3
  DEF NextRow, Books, StatementLines, RowsLines, TxLines, Ops, LineKinds, UseKinds
<1>. QED BY <1>4, <1>5, <1>6, <1>7, OneCallerSuffices

(* The set of rows is closed, at its end or because it broke off.           *)
LEMMA CloseRowsKeepsInv ==
    ASSUME SqlInv, NEW c \in Callers, NEW broken \in BOOLEAN, CloseRows(c, broken)
    PROVE  SqlInv'
<1> DEFINE at1 == IF broken THEN "failed" ELSE "ok"
           line == [Line(c, "rows") EXCEPT !["fetched"] = @ + call[c].got]
<1>0. SqlTypeOK /\ CallShape(c) /\ Books(c) BY DEF SqlInv
<1>c. call[c] \in CallType /\ call[c].got \in Nat /\ call[c].tries \in Nat
  BY <1>0 DEF SqlTypeOK, CallType
<1>d. "rows" \in LineKinds /\ "fetched" \in LineKinds BY DEF LineKinds
<1>e. /\ Line(c, "rows") \in [LineKinds -> Nat]
      /\ Line(c, "rows")["rows"] = told[c]["rows"] + 1
      /\ \A k \in LineKinds \ {"rows"} : Line(c, "rows")[k] = told[c][k]
  BY <1>0, <1>d, LineTyped DEF SqlTypeOK
<1>f. told[c] \in [LineKinds -> Nat] /\ used[c] \in [UseKinds -> Nat]
  BY <1>0 DEF SqlTypeOK
<1>1. /\ line \in [LineKinds -> Nat]
      /\ line["rows"] = told[c]["rows"] + 1
      /\ line["fetched"] = told[c]["fetched"] + call[c].got
      /\ \A k \in LineKinds \ {"rows", "fetched"} : line[k] = told[c][k]
  BY <1>c, <1>d, <1>e
<1>2. logSQL(c, line) BY DEF CloseRows
<1> HIDE DEF line
<1>3. /\ told' \in [Callers -> [LineKinds -> Nat]]
      /\ told'[c] = (IF debug THEN line ELSE told[c])
      /\ \A d \in Callers \ {c} : told'[d] = told[d]
  BY <1>0, <1>1, <1>2, Logged
<1>4. at1 \in {"failed", "ok"} OBVIOUS
<1>5. call' = [call EXCEPT ![c].at = at1] BY DEF CloseRows, Move
<1> HIDE DEF at1
<1>6. call' \in [Callers -> CallType]
  <2>1. [call[c] EXCEPT !.at = at1] \in CallType BY <1>c, <1>4 DEF CallType, Places
  <2>. QED BY <1>0, <1>5, <2>1 DEF SqlTypeOK
<1>7. /\ call'[c].at = at1 /\ call'[c].op = call[c].op /\ call'[c].tries = call[c].tries
  BY <1>0, <1>5 DEF SqlTypeOK, CallType
<1>8. /\ call[c].at = "rows" /\ inner' = inner /\ debug' = debug /\ free' = free
      /\ tx' = tx /\ used' = used
  BY DEF CloseRows
<1>9. SqlTypeOK' BY <1>0, <1>3, <1>6, <1>8 DEF SqlTypeOK
<1>10. Others(c) BY <1>0, <1>3, <1>5, <1>8 DEF SqlTypeOK, Others
<1>11. CallShape(c)' BY <1>0, <1>4, <1>7, <1>8 DEF CallShape, Before1
<1>12. Books(c)'
  <2>1. debug => StatementLines(c)'
    BY <1>0, <1>c, <1>f, <1>1, <1>3, <1>7, <1>8
    DEF Books, StatementLines, Ops, LineKinds, UseKinds
  <2>2. debug => RowsLines(c)'
    BY <1>0, <1>c, <1>f, <1>1, <1>3, <1>4, <1>7, <1>8
    DEF Books, RowsLines, LineKinds, UseKinds
  <2>3. debug => TxLines(c)'
    BY <1>0, <1>f, <1>1, <1>3, <1>8 DEF Books, TxLines, LineKinds
  <2>. QED BY <1>0, <1>3, <1>8, <2>1, <2>2, <2>3 DEF Books
<1>. QED BY <1>9, <1>10, <1>11, <1>12, OneCallerSuffices

(* The answer, with the tries of its call; the end of a transaction; and    *)
(* the counts that start over.                                              *)
LEMMA FinishKeepsInv ==
    ASSUME SqlInv, NEW c \in Callers, Finish(c)
    PROVE  SqlInv'
<1> DEFINE op == call[c].op
<1>0. SqlTypeOK /\ CallShape(c) /\ Books(c) BY DEF SqlInv
<1>c. call[c].tries \in Nat /\ op \in Ops BY <1>0 DEF SqlTypeOK, CallType, CallShape, Finish
<1>f. used[c] \in [UseKinds -> Nat] /\ op \in UseKinds
  BY <1>0, <1>c DEF SqlTypeOK, UseKinds
<1>1. call' = [call EXCEPT ![c] = NoCall] /\ NoCall \in CallType
  BY DEF Finish, NoCall, CallType, Places
<1>2. call'[c].at = "idle" /\ call'[c].op = "none" /\ call'[c].tries = 0
  BY <1>0, <1>1 DEF SqlTypeOK, NoCall
<1>3. /\ used' \in [Callers -> [UseKinds -> Nat]]
      /\ used'[c][op] = used[c][op] + call[c].tries
      /\ \A u \in UseKinds \ {op} : used'[c][u] = used[c][u]
      /\ \A d \in Callers \ {c} : used'[d] = used[d]
  <2>1. [used[c] EXCEPT ![op] = @ + call[c].tries] \in [UseKinds -> Nat] BY <1>c, <1>f
  <2>. QED BY <1>0, <1>f, <2>1 DEF SqlTypeOK, Finish
<1>4. SqlTypeOK' BY <1>0, <1>1, <1>3 DEF SqlTypeOK, Finish
<1>5. Others(c) BY <1>0, <1>1, <1>3 DEF SqlTypeOK, Finish, Others
<1>6. CallShape(c)' BY <1>2 DEF CallShape, Before1
<1>7. Books(c)'
  <2>1. debug => StatementLines(c)'
    BY <1>0, <1>c, <1>2, <1>3 DEF Finish, Books, StatementLines, Ops, UseKinds
  <2>2. debug => RowsLines(c)'
    BY <1>0, <1>c, <1>2, <1>3 DEF Finish, Books, RowsLines, Ops, UseKinds
  <2>3. debug => TxLines(c)' BY <1>0 DEF Finish, Books, TxLines
  <2>. QED BY <1>0, <2>1, <2>2, <2>3 DEF Finish, Books
<1>. QED BY <1>4, <1>5, <1>6, <1>7, OneCallerSuffices

(* A transaction ends with the line of its outcome.                         *)
LEMMA EndTxKeepsInv ==
    ASSUME SqlInv, NEW c \in Callers, NEW op \in {"COMMIT", "ROLLBACK"}, EndTx(c, op)
    PROVE  SqlInv'
<1>0. SqlTypeOK /\ CallShape(c) /\ Books(c) BY DEF SqlInv
<1>d. op \in LineKinds BY DEF LineKinds
<1>e. /\ Line(c, op) \in [LineKinds -> Nat]
      /\ Line(c, op)[op] = told[c][op] + 1
      /\ \A k \in LineKinds \ {op} : Line(c, op)[k] = told[c][k]
  BY <1>0, <1>d, LineTyped DEF SqlTypeOK
<1>f. told[c] \in [LineKinds -> Nat] BY <1>0 DEF SqlTypeOK
<1>1. logSQL(c, Line(c, op)) BY DEF EndTx
<1>2. /\ told' \in [Callers -> [LineKinds -> Nat]]
      /\ told'[c] = (IF debug THEN Line(c, op) ELSE told[c])
      /\ \A d \in Callers \ {c} : told'[d] = told[d]
  BY <1>0, <1>e, <1>1, Logged
<1>3. /\ tx[c] # "none" /\ tx' = [tx EXCEPT ![c] = "none"] /\ free' \in Nat
      /\ call[c].at = "idle" /\ call' = call /\ used' = used /\ inner' = inner
      /\ debug' = debug
  BY <1>0 DEF SqlTypeOK, EndTx
<1>4. SqlTypeOK' BY <1>0, <1>2, <1>3 DEF SqlTypeOK
<1>5. Others(c) BY <1>0, <1>2, <1>3 DEF SqlTypeOK, Others
<1>6. CallShape(c)' BY <1>0, <1>3 DEF CallShape, Before1
<1>7. Books(c)'
  <2>1. debug => StatementLines(c)'
    BY <1>0, <1>e, <1>2, <1>3 DEF Books, StatementLines, Ops, LineKinds
  <2>2. debug => RowsLines(c)'
    BY <1>0, <1>e, <1>2, <1>3 DEF Books, RowsLines, LineKinds
  <2>3. debug => TxLines(c)'
    <3>1. tx'[c] = "none" BY <1>0, <1>3 DEF SqlTypeOK
    <3>2. CASE op = "COMMIT"
      BY <1>0, <1>e, <1>f, <1>2, <1>3, <3>1, <3>2 DEF Books, TxLines, LineKinds
    <3>3. CASE op = "ROLLBACK"
      BY <1>0, <1>e, <1>f, <1>2, <1>3, <3>1, <3>3 DEF Books, TxLines, LineKinds
    <3>. QED BY <3>2, <3>3
  <2>. QED BY <1>0, <1>2, <1>3, <2>1, <2>2, <2>3 DEF Books
<1>. QED BY <1>4, <1>5, <1>6, <1>7, OneCallerSuffices

(* Counting starts over for a caller that is idle.                          *)
LEMMA StartOverKeepsInv ==
    ASSUME SqlInv, NEW c \in Callers, StartOver(c)
    PROVE  SqlInv'
<1>0. SqlTypeOK /\ CallShape(c) /\ Books(c) BY DEF SqlInv
<1>1. NoUse \in [UseKinds -> Nat] /\ NoLines \in [LineKinds -> Nat] BY DEF NoUse, NoLines
<1>2. SqlTypeOK' BY <1>0, <1>1 DEF SqlTypeOK, StartOver
<1>3. Others(c) BY <1>0 DEF SqlTypeOK, StartOver, Others
<1>4. CallShape(c)' BY <1>0 DEF StartOver, CallShape, Before1
<1>5. told'[c] = NoLines /\ used'[c] = NoUse BY <1>0 DEF SqlTypeOK, StartOver
<1>6. Books(c)'
  BY <1>0, <1>5
  DEF StartOver, CallShape, Books, StatementLines, RowsLines, TxLines, NoUse, NoLines,
      Ops, UseKinds, LineKinds
<1>. QED BY <1>2, <1>3, <1>4, <1>6, OneCallerSuffices

-------------------------------------------------------------------------------
(* At the start nothing was done and nothing logged.                        *)
LEMMA SqlInvInit ==
    ASSUME SqlInit PROVE SqlInv
<1>1. NoUse \in [UseKinds -> Nat] /\ NoLines \in [LineKinds -> Nat] BY DEF NoUse, NoLines
<1>2. NoCall \in CallType BY DEF NoCall, CallType, Places
<1>3. SqlTypeOK BY <1>1, <1>2 DEF SqlInit, SqlTypeOK
<1>4. ASSUME NEW c \in Callers PROVE CallShape(c) /\ Books(c)
  BY DEF SqlInit, CallShape, NoCall, Before1, Books, StatementLines, RowsLines, TxLines,
         NoUse, NoLines, Ops, UseKinds, LineKinds
<1>. QED BY <1>3, <1>4 DEF SqlInv

(* Every step of every caller keeps all the books.                          *)
LEMMA SqlInvStep ==
    ASSUME SqlInv, [SqlNext]_sqlVars PROVE SqlInv'
<1>1. CASE UNCHANGED sqlVars
  BY <1>1 DEF sqlVars, SqlInv, SqlTypeOK, CallShape, Books, StatementLines, RowsLines, TxLines
<1>2. ASSUME NEW c \in Callers, Quiet(c) PROVE SqlInv' BY <1>2, QuietKeepsInv
<1>3. ASSUME NEW c \in Callers, Faulty(c) \/ Runs(c) PROVE SqlInv'
  BY <1>3, GivenUpKeepsInv, RunKeepsInv DEF Faulty
<1>4. ASSUME NEW c \in Callers, NEW op \in Ops, NEW args \in BOOLEAN, Start(c, op, args)
      PROVE  SqlInv'
  BY <1>4, StartKeepsInv
<1>5. ASSUME NEW c \in Callers, NextRow(c) \/ Finish(c) \/ StartOver(c) PROVE SqlInv'
  BY <1>5, NextRowKeepsInv, FinishKeepsInv, StartOverKeepsInv
<1>6. ASSUME NEW c \in Callers, NEW broken \in BOOLEAN, CloseRows(c, broken)
      PROVE  SqlInv'
  BY <1>6, CloseRowsKeepsInv
<1>7. ASSUME NEW c \in Callers, NEW op \in {"COMMIT", "ROLLBACK"}, EndTx(c, op)
      PROVE  SqlInv'
  BY <1>7, EndTxKeepsInv
<1>. QED BY <1>1, <1>2, <1>3, <1>4, <1>5, <1>6, <1>7 DEF SqlNext

(* The inductive invariant: types, the shape of a call under way, and the   *)
(* books of every caller (internal/database/sqllog.go).                     *)
THEOREM SqlLogInvariant == SqlSpec => []SqlInv
BY SqlInvInit, SqlInvStep, PTL DEF SqlSpec

(* With LOG_LEVEL=debug the log has one line for each statement the driver  *)
(* took up, one for each set of rows with the number of rows read, and one  *)
(* end for each transaction begun; without it, none.                        *)
THEOREM LogAlwaysMatches == SqlSpec => []LogMatchesOutcome
<1>1. SqlInv => LogMatchesOutcome BY DEF SqlInv, Books, LogMatchesOutcome
<1>. QED BY <1>1, SqlLogInvariant, PTL

-------------------------------------------------------------------------------
(***************************************************************************)
(* Sequences: the elements of a set one by one, a flattened list and where *)
(* its parts lie in it.                                                    *)
(***************************************************************************)
\* SetToSeq lists the elements of a finite set, each of them once.
LEMMA SetToSeqLists ==
    ASSUME NEW S, IsFiniteSet(S)
    PROVE  /\ Cardinality(S) \in Nat
           /\ SetToSeq(S) \in [1..Cardinality(S) -> S]
           /\ IsInjective(SetToSeq(S))
           /\ \A x \in S : \E i \in 1..Cardinality(S) : SetToSeq(S)[i] = x
<1> DEFINE n == Cardinality(S)
<1>1. n \in Nat /\ ExistsBijection(1..n, S)
    BY FS_CardinalityType
<1>2. PICK f \in [1..n -> S] : IsInjective(f)
    BY <1>1 DEF ExistsBijection, Bijection, Injection
<1>3. SetToSeq(S) \in [1..n -> S] /\ IsInjective(SetToSeq(S))
    BY <1>2 DEF SetToSeq
<1>4. IsFiniteSet(1..n) /\ Cardinality(1..n) = n
    BY <1>1, FS_Interval
<1>5. \A x \in S : \E i \in 1..n : SetToSeq(S)[i] = x
  <2> DEFINE q == SetToSeq(S)
             D == 1..n
  <2>1. q \in [D -> S] /\ IsFiniteSet(D) /\ Cardinality(D) = Cardinality(S)
      BY <1>3, <1>4
  <2>2. \A i, j \in D : q[i] = q[j] => i = j
      BY <1>3 DEF IsInjective
  <2>3. \A x \in S : \E i \in D : q[i] = x
    <3> HIDE DEF q, D
    <3> QED
      BY <2>1, <2>2, InjectiveIsOnto
  <2> QED
      BY <2>3
<1> QED
    BY <1>1, <1>3, <1>5

\* What the fold behind FlattenSeq has after each of the sequences.
Flattens(h, s, n) ==
    h = [i \in 1..n |-> IF i = 1 THEN s[i] ELSE h[i - 1] \o s[i]]

\* There is such a function, whatever is flattened.
LEMMA FlattenEnds ==
    ASSUME NEW n \in Nat, NEW s
    PROVE  \E h : Flattens(h, s, n)
<1> DEFINE Bad == {m \in 0..n : ~\E h : Flattens(h, s, m)}
<1>1. ASSUME Bad # {} PROVE FALSE
  <2>1. PICK m \in Bad : \A k \in Bad : m <= k
    <3>1. Bad \subseteq 0..n
        OBVIOUS
    <3> HIDE DEF Bad
    <3> QED
        BY <1>1, <3>1, SmallestNumber
  <2>2. m # 0
    <3>1. Flattens(<<>>, s, 0)
        BY DEF Flattens
    <3> QED
        BY <3>1
  <2>3. m - 1 \in 0..n /\ m - 1 \notin Bad
      BY <2>1, <2>2
  <2>4. PICK h : Flattens(h, s, m - 1)
      BY <2>3
  <2> DEFINE g == [i \in 1..m |-> IF i < m THEN h[i]
                                  ELSE IF i = 1 THEN s[i] ELSE h[i - 1] \o s[i]]
  <2>5. \A i \in 1..m : g[i] = IF i = 1 THEN s[i] ELSE g[i - 1] \o s[i]
    <3> SUFFICES ASSUME NEW i \in 1..m
                 PROVE  g[i] = IF i = 1 THEN s[i] ELSE g[i - 1] \o s[i]
        OBVIOUS
    <3>1. CASE i = m
      <4>1. i # 1 => g[i - 1] = h[i - 1]
          BY <3>1
      <4> QED
          BY <3>1, <4>1
    <3>2. CASE i < m
      <4>1. i \in 1..(m - 1)
          BY <3>2
      <4>2. h[i] = IF i = 1 THEN s[i] ELSE h[i - 1] \o s[i]
          BY <2>4, <4>1 DEF Flattens
      <4>3. i # 1 => g[i - 1] = h[i - 1]
          BY <3>2
      <4> QED
          BY <3>2, <4>2, <4>3
    <3> QED
        BY <3>1, <3>2
  <2>6. g = [i \in 1..m |-> g[i]]
      OBVIOUS
  <2> HIDE DEF g
  <2>7. Flattens(g, s, m)
      BY <2>5, <2>6 DEF Flattens
  <2> QED
      BY <2>1, <2>7
<1> QED
    BY <1>1

\* FlattenSeq is the last value of such a function.
LEMMA FlattenSeqUnfolds ==
    ASSUME NEW n \in Nat \ {0}, NEW s, Len(s) = n
    PROVE  \E h : Flattens(h, s, n) /\ FlattenSeq(s) = h[n]
<1> DEFINE Fold(h) == h = [i \in 1..Len(s) |-> IF i = 1 THEN s[i] ELSE h[i - 1] \o s[i]]
<1>1. \E h : Fold(h)
    BY FlattenEnds DEF Flattens
<1>2. Fold(CHOOSE h : Fold(h))
    BY <1>1
<1>3. FlattenSeq(s) = (CHOOSE h : Fold(h))[n]
    BY DEF FlattenSeq
<1> QED
    BY <1>2, <1>3 DEF Flattens

\* Where the elements of a concatenation come from.
LEMMA ConcatPlaces ==
    ASSUME NEW V, NEW u \in Seq(V), NEW t \in Seq(V)
    PROVE  /\ u \o t \in Seq(V) /\ Len(u) \in Nat /\ Len(t) \in Nat
           /\ Len(u \o t) = Len(u) + Len(t)
           /\ \A i \in 1..Len(u) : (u \o t)[i] = u[i]
           /\ \A j \in 1..Len(t) : (u \o t)[Len(u) + j] = t[j]
<1>1. Len(u) \in Nat /\ Len(t) \in Nat
    BY LenProperties
<1>2. u \o t \in Seq(V) /\ Len(u \o t) = Len(u) + Len(t)
    BY ConcatProperties
<1>3. \A i \in 1..(Len(u) + Len(t)) :
        (u \o t)[i] = IF i <= Len(u) THEN u[i] ELSE t[i - Len(u)]
    BY ConcatProperties
<1>4. ASSUME NEW i \in 1..Len(u) PROVE (u \o t)[i] = u[i]
    BY <1>1, <1>3
<1>5. ASSUME NEW j \in 1..Len(t) PROVE (u \o t)[Len(u) + j] = t[j]
  <2>1. /\ Len(u) + j \in 1..(Len(u) + Len(t)) /\ ~(Len(u) + j <= Len(u))
        /\ (Len(u) + j) - Len(u) = j
      BY <1>1
  <2> QED
      BY <1>3, <2>1
<1> QED
    BY <1>1, <1>2, <1>4, <1>5

\* Where each of the sequences lies in the whole: M[k] is the length of the first k.
Laid(V, n, s, h, M) ==
    \A k \in 1..n :
      /\ h[k] \in Seq(V) /\ Len(h[k]) = M[k]
      /\ \A i \in 1..k :
           /\ M[i - 1] \in Nat /\ M[i] = M[i - 1] + Len(s[i]) /\ M[i] <= M[k]
           /\ \A j \in 1..Len(s[i]) : h[k][M[i - 1] + j] = s[i][j]
Lengths(M, s, n) == M[0] = 0 /\ \A k \in 1..n : M[k] = M[k - 1] + Len(s[k])

\* In a flattened list every part lies behind the parts before it.
LEMMA FlattenPlaces ==
    ASSUME NEW V, NEW n \in Nat, NEW s \in [1..n -> Seq(V)], NEW h, Flattens(h, s, n),
           NEW M, Lengths(M, s, n)
    PROVE  Laid(V, n, s, h, M)
<1> DEFINE Placed(k, i) ==
              /\ M[i - 1] \in Nat /\ M[i] = M[i - 1] + Len(s[i]) /\ M[i] <= M[k]
              /\ \A j \in 1..Len(s[i]) : h[k][M[i - 1] + j] = s[i][j]
           Good(k) == /\ h[k] \in Seq(V) /\ Len(h[k]) = M[k]
                      /\ \A i \in 1..k : Placed(k, i)
           Bad == {k \in 1..n : ~Good(k)}
<1>0. M[0] = 0 /\ \A k \in 1..n : M[k] = M[k - 1] + Len(s[k])
    BY DEF Lengths
<1>1. SUFFICES ASSUME Bad # {} PROVE FALSE
    BY DEF Laid
<1>2. PICK k \in 1..n : ~Good(k) /\ \A m \in 1..(k - 1) : Good(m)
  <2>1. PICK k \in Bad : \A m \in Bad : k <= m
    <3>1. Bad \subseteq 0..n
        OBVIOUS
    <3> HIDE DEF Bad
    <3> QED
        BY <1>1, <3>1, SmallestNumber
  <2> HIDE DEF Good
  <2>2. k \in 1..n /\ ~Good(k)
      BY <2>1
  <2>3. ASSUME NEW m \in 1..(k - 1), ~Good(m) PROVE FALSE
    <3>1. m \in 1..n /\ ~(k <= m)
        BY <2>2
    <3> QED
        BY <2>1, <2>3, <3>1
  <2> QED
      BY <2>2, <2>3
<1>3. PICK p \in Nat : p = k - 1 /\ k = p + 1
    OBVIOUS
<1>4. s[k] \in Seq(V) /\ Len(s[k]) \in Nat /\ M[k] = M[p] + Len(s[k])
    BY <1>0, <1>3, LenProperties
<1>5. h[k] = IF k = 1 THEN s[k] ELSE h[p] \o s[k]
    BY <1>3 DEF Flattens
<1>6. ASSUME NEW x \in Nat, x = M[p], h[k] \in Seq(V), Len(h[k]) = x + Len(s[k]),
             \A j \in 1..Len(s[k]) : h[k][x + j] = s[k][j],
             \A i \in 1..p : Placed(k, i)
      PROVE  FALSE
  <2>1. M[k - 1] = x /\ M[k] = x + Len(s[k]) /\ M[k] <= M[k]
    <3>1. PICK l \in Nat : l = Len(s[k])
        BY <1>4
    <3>2. M[k - 1] = x
        BY <1>3, <1>6
    <3> QED
        BY <1>4, <1>6, <3>1, <3>2
  <2>2. Placed(k, k)
      BY <1>6, <2>1
  <2>3. \A i \in 1..k : i \in 1..p \/ i = k
      BY <1>3
  <2>4. Good(k)
    <3> HIDE DEF Placed
    <3> QED
      BY <1>6, <2>1, <2>2, <2>3
  <2> QED
      BY <1>2, <2>4
<1>7. CASE p = 0
  <2>1. h[k] = s[k] /\ M[p] = 0 /\ 0 + Len(s[k]) = Len(s[k])
      BY <1>0, <1>3, <1>4, <1>5, <1>7
  <2>2. \A j \in 1..Len(s[k]) : 0 + j = j
      OBVIOUS
  <2>3. \A j \in 1..Len(s[k]) : h[k][0 + j] = s[k][j]
      BY <2>1, <2>2
  <2>4. \A i \in 1..p : Placed(k, i)
      BY <1>7
  <2> HIDE DEF Placed, Good
  <2> QED
      BY <1>4, <1>6, <2>1, <2>3, <2>4
<1>8. CASE p # 0
  <2>1. p \in 1..(k - 1) /\ p \in 1..n /\ k # 1
      BY <1>3, <1>8
  <2>2. h[p] \in Seq(V) /\ Len(h[p]) = M[p] /\ \A i \in 1..p : Placed(p, i)
    <3> HIDE DEF Placed
    <3> QED
      BY <1>2, <2>1
  <2> HIDE DEF Good
  <2>3. PICK x \in Nat : x = M[p] /\ Len(h[p]) = x
      BY <2>2, LenProperties
  <2>4. h[k] = h[p] \o s[k]
      BY <1>5, <2>1
  <2>5. /\ h[k] \in Seq(V) /\ Len(h[k]) = x + Len(s[k])
        /\ \A i \in 1..x : h[k][i] = h[p][i]
        /\ \A j \in 1..Len(s[k]) : h[k][x + j] = s[k][j]
    <3>1. PICK u \in Seq(V) : u = h[p]
        BY <2>2
    <3>2. PICK t \in Seq(V) : t = s[k]
        BY <1>4
    <3>3. /\ u \o t \in Seq(V) /\ Len(u \o t) = Len(u) + Len(t)
          /\ \A i \in 1..Len(u) : (u \o t)[i] = u[i]
          /\ \A j \in 1..Len(t) : (u \o t)[Len(u) + j] = t[j]
        BY ConcatPlaces
    <3> QED
        BY <2>3, <2>4, <3>1, <3>2, <3>3
  <2>6. ASSUME NEW i \in 1..p PROVE Placed(k, i)
    <3>1. Placed(p, i)
        BY <2>2
    <3>2. PICK a \in Nat : a = M[i - 1]
        BY <3>1
    <3>3. PICK l \in Nat : l = Len(s[i])
        BY <2>1, LenProperties
    <3>4. M[i] = a + l /\ a + l <= x /\ \A j \in 1..l : h[p][a + j] = s[i][j]
        BY <2>3, <3>1, <3>2, <3>3
    <3>5. \A j \in 1..l : h[k][a + j] = s[i][j]
      <4> SUFFICES ASSUME NEW j \in 1..l PROVE h[k][a + j] = s[i][j]
          OBVIOUS
      <4>1. a + j \in 1..x
          BY <3>4
      <4> QED
          BY <2>5, <3>4, <4>1
    <3>6. M[i] <= M[k]
        BY <1>4, <2>3, <3>4
    <3> QED
        BY <3>2, <3>3, <3>4, <3>5, <3>6
  <2> HIDE DEF Placed
  <2> QED
      BY <1>6, <2>3, <2>5, <2>6
<1> QED
    BY <1>7, <1>8

-------------------------------------------------------------------------------
(***************************************************************************)
(* Placeholders and their arguments.                                       *)
(***************************************************************************)
\* The placeholders of the first conditions, one condition at a time.
LEMMA MarksAddUp ==
    ASSUME NEW st, NEW n \in Nat, \A i \in 1..n : st.conds[i].marks \in Nat
    PROVE  /\ Marks(st, 0) = 0
           /\ \A k \in 1..n : Marks(st, k) = Marks(st, k - 1) + st.conds[k].marks
<1> DEFINE g == [i \in 1..n |-> st.conds[i].marks]
<1>1. \A i \in 1..n : g[i] = st.conds[i].marks /\ g[i] \in Int
    OBVIOUS
<1>2. ASSUME NEW k \in 0..n PROVE Marks(st, k) = SumOf(g, 1..k)
  <2> DEFINE S == 1..k
             Fold(h) == [s \in SUBSET S |-> IF s = {} THEN 0
                            ELSE st.conds[Some(s)].marks + h[s \ {Some(s)}]]
  <2>1. \A s \in SUBSET S : s # {} => Some(s) \in 1..n
    <3>1. \A x \in S : x \in 1..n
        OBVIOUS
    <3> HIDE DEF S
    <3> QED
        BY <3>1, SomeIn
  <2>2. IsFiniteSet(S)
      BY FS_Interval
  <2> HIDE DEF g
  <2>3. \A h : PartialSums(h, g, S) <=> h = Fold(h)
    <3>1. \A s \in SUBSET S : s # {} => g[Some(s)] = st.conds[Some(s)].marks
        BY <1>1, <2>1
    <3> HIDE DEF S
    <3> QED
        BY <3>1 DEF PartialSums
  <2>4. PICK f : f = Fold(f)
    <3> HIDE DEF S, Fold
    <3> QED
        BY <2>2, <2>3, SumsExist
  <2>5. \E h : h = Fold(h) /\ Marks(st, k) = h[S]
      BY <2>4 DEF Some, Marks, MapThenSumSet, MapThenFoldSet
  <2> HIDE DEF Fold
  <2>6. PICK h : h = Fold(h) /\ Marks(st, k) = h[S]
      BY <2>5
  <2>7. PartialSums(h, g, S)
      BY <2>3, <2>6
  <2>8. SumOf(g, S) = h[S]
    <3> HIDE DEF S
    <3> QED
        BY <2>2, <2>7, SumOfIs
  <2> QED
      BY <2>6, <2>8
<1> HIDE DEF g
<1>3. Marks(st, 0) = 0
  <2>1. 1..0 = {} /\ 0 \in 0..n
      OBVIOUS
  <2> QED
      BY <1>2, <2>1, SumEmpty
<1>4. ASSUME NEW k \in 1..n PROVE Marks(st, k) = Marks(st, k - 1) + st.conds[k].marks
  <2>1. PICK S : S = 1..k
      OBVIOUS
  <2>2. IsFiniteSet(S) /\ (\A x \in S : g[x] \in Int) /\ k \in S
    <3>1. \A x \in S : x \in 1..n
        BY <2>1
    <3>2. IsFiniteSet(S) /\ k \in S
        BY <2>1, FS_Interval
    <3> QED
        BY <1>1, <3>1, <3>2
  <2>3. SumOf(g, S) = g[k] + SumOf(g, S \ {k}) /\ SumOf(g, S \ {k}) \in Int
    <3>1. SumOf(g, S) = g[k] + SumOf(g, S \ {k})
        BY <2>2, SumTakeOut
    <3>2. IsFiniteSet(S \ {k}) /\ \A x \in S \ {k} : g[x] \in Int
        BY <2>2, FS_RemoveElement
    <3>3. SumOf(g, S \ {k}) \in Int
        BY <3>2, SumTakeOut
    <3> QED
        BY <3>1, <3>3
  <2>4. S \ {k} = 1..(k - 1) /\ k \in 0..n /\ k - 1 \in 0..n
    <3>1. \A x : x \in S \ {k} <=> x \in 1..(k - 1)
        BY <2>1
    <3> QED
        BY <3>1
  <2>5. Marks(st, k) = SumOf(g, S) /\ Marks(st, k - 1) = SumOf(g, S \ {k})
      BY <1>2, <2>1, <2>4
  <2>6. g[k] = st.conds[k].marks /\ g[k] \in Int
      BY <1>1
  <2> QED
      BY <2>3, <2>5, <2>6
<1> QED
    BY <1>3, <1>4

\* A stretch of a sequence, given by its elements.
LEMMA StretchIs ==
    ASSUME NEW V, NEW u, NEW t \in Seq(V), NEW a \in Nat,
           \A j \in 1..Len(t) : u[a + j] = t[j]
    PROVE  SubSeq(u, a + 1, a + Len(t)) = t
<1>1. Len(t) \in Nat /\ \A j \in 1..Len(t) : t[j] \in V
    BY LenProperties, ElementOfSeq
<1>2. PICK l \in Nat : l = Len(t)
    BY <1>1
<1>3. \A i \in (a + 1)..(a + l) : u[i] \in V
  <2> SUFFICES ASSUME NEW i \in (a + 1)..(a + l) PROVE u[i] \in V
      OBVIOUS
  <2>1. PICK j \in 1..l : i = a + j
    <3>1. i - a \in 1..l /\ i = a + (i - a)
        OBVIOUS
    <3> QED
        BY <3>1
  <2> QED
      BY <1>1, <1>2, <2>1
<1>4. PICK m \in Int, n \in Int : m = a + 1 /\ n = a + l
    OBVIOUS
<1>5. /\ SubSeq(u, m, n) \in Seq(V)
      /\ Len(SubSeq(u, m, n)) = IF m <= n THEN n - m + 1 ELSE 0
      /\ \A i \in 1..(n - m + 1) : SubSeq(u, m, n)[i] = u[m + i - 1]
    BY <1>3, <1>4, SubSeqProperties
<1>6. PICK w \in Seq(V) : w = SubSeq(u, m, n)
    BY <1>5
<1>7. Len(w) = l /\ \A i \in 1..l : w[i] = t[i]
  <2>1. Len(w) = l
      BY <1>4, <1>5, <1>6
  <2>2. ASSUME NEW i \in 1..l PROVE w[i] = t[i]
    <3>1. i \in 1..(n - m + 1) /\ m + i - 1 = a + i
        BY <1>4
    <3>2. w[i] = u[a + i]
        BY <1>5, <1>6, <3>1
    <3> QED
        BY <1>2, <3>2
  <2> QED
      BY <2>1, <2>2
<1>8. w = t
    BY <1>2, <1>7, SeqEqual
<1> QED
    BY <1>2, <1>4, <1>6, <1>8

\* A function on 1..n is a list of length n.
LEMMA ListIs ==
    ASSUME NEW n \in Nat, NEW W, NEW f \in [1..n -> W]
    PROVE  f \in Seq(W) /\ Len(f) = n
<1>1. f \in Seq(W)
    BY SeqDef
<1>2. DOMAIN f = 1..n /\ DOMAIN f = 1..Len(f) /\ Len(f) \in Nat
    BY <1>1, LenProperties
<1> QED
    BY <1>1, <1>2

\* Conditions with the arguments of their placeholders, over the values V.
IsConds(C, V) ==
    /\ Len(C) \in Nat /\ C = [i \in 1..Len(C) |-> C[i]]
    /\ \A i \in 1..Len(C) : C[i].args \in Seq(V)

\* What lies behind the arguments of the first n conditions.
Behind(st, n, more) == \A j \in 1..Len(more) : st.args[Marks(st, n) + j] = more[j]

\* Every placeholder gets the argument that its own condition was given, and the
\* arguments left over come in their order.
LEMMA Binding ==
    ASSUME NEW V, NEW C, IsConds(C, V), NEW more \in Seq(V), NEW shape, NEW order,
           NEW joined, NEW st, st = Statement(shape, C, order, joined, more)
    PROVE  /\ DOMAIN st.conds = DOMAIN C /\ Len(st.conds) = Len(C)
           /\ \A i \in DOMAIN C :
                /\ st.conds[i].col = C[i].col /\ st.conds[i].op = C[i].op
                /\ SubSeq(st.args, Marks(st, i - 1) + 1, Marks(st, i)) = C[i].args
           /\ Behind(st, Len(C), more)
           /\ st.shape = shape /\ st.order = order /\ st.joined = joined
<1>1. PICK n \in Nat : n = Len(C) /\ DOMAIN C = 1..n /\ \A i \in 1..n : C[i].args \in Seq(V)
    BY DEF IsConds
<1>2. PICK s : s = [i \in 1..n |-> C[i].args]
    OBVIOUS
<1>3. s \in [1..n -> Seq(V)] /\ Len(s) = n /\ \A i \in 1..n : s[i] = C[i].args
  <2>1. \A i \in 1..n : C[i].args \in Seq(V)
      BY <1>1
  <2>2. s \in [1..n -> Seq(V)]
      BY <1>2, <2>1
  <2>3. Len(s) = n
      BY <2>2, ListIs
  <2> QED
      BY <1>2, <2>2, <2>3
<1>4. /\ st.conds = [i \in 1..n |-> [col |-> C[i].col, op |-> C[i].op, marks |-> Len(C[i].args)]]
      /\ st.args = FlattenSeq(s) \o more
      /\ st.shape = shape /\ st.order = order /\ st.joined = joined
    BY <1>1, <1>2 DEF Statement, ArgsOf
<1>5. /\ DOMAIN st.conds = 1..n
      /\ \A i \in 1..n : /\ st.conds[i].col = C[i].col /\ st.conds[i].op = C[i].op
                         /\ st.conds[i].marks = Len(s[i]) /\ Len(s[i]) \in Nat
    BY <1>3, <1>4, LenProperties
<1>6. Len(st.conds) = n
  <2>1. st.conds \in [1..n -> {st.conds[i] : i \in 1..n}]
      BY <1>4
  <2> QED
      BY <2>1, ListIs
<1>7. PICK M : M = [k \in 0..n |-> Marks(st, k)]
    OBVIOUS
<1>8. /\ M[0] = 0 /\ Marks(st, 0) = 0
      /\ \A k \in 1..n : M[k] = M[k - 1] + Len(s[k]) /\ M[k] = Marks(st, k) /\ M[k - 1] = Marks(st, k - 1)
  <2>1. /\ Marks(st, 0) = 0
        /\ \A k \in 1..n : Marks(st, k) = Marks(st, k - 1) + st.conds[k].marks
      BY <1>5, MarksAddUp
  <2>2. \A k \in 1..n : k \in 0..n /\ k - 1 \in 0..n
      OBVIOUS
  <2>3. 0 \in 0..n
      OBVIOUS
  <2> QED
      BY <1>5, <1>7, <2>1, <2>2, <2>3
<1>9. CASE n = 0
  <2>1. FlattenSeq(s) = <<>>
    <3>1. s = <<>>
        BY <1>2, <1>9
    <3> QED
        BY <1>3, <1>9, <3>1 DEF FlattenSeq
  <2>2. st.args = more
      BY <1>4, <2>1, ConcatEmptySeq
  <2>3. \A j \in 1..Len(more) : Marks(st, n) + j = j
      BY <1>8, <1>9
  <2>4. \A j \in 1..Len(more) : st.args[Marks(st, n) + j] = more[j]
      BY <2>2, <2>3
  <2>5. DOMAIN C = {}
      BY <1>1, <1>9
  <2> QED
      BY <1>1, <1>4, <1>5, <1>6, <2>4, <2>5 DEF Behind
<1>10. CASE n # 0
  <2>1. PICK h : Flattens(h, s, n) /\ FlattenSeq(s) = h[n]
      BY <1>3, <1>10, FlattenSeqUnfolds
  <2>2. Laid(V, n, s, h, M)
    <3>1. s \in [1..n -> Seq(V)]
        BY <1>3
    <3>2. Lengths(M, s, n)
        BY <1>8 DEF Lengths
    <3>4. Flattens(h, s, n)
        BY <2>1
    <3> QED
        BY <3>1, <3>2, <3>4, FlattenPlaces
  <2>3. n \in 1..n
      BY <1>10
  <2>4. PICK u \in Seq(V) : u = h[n]
      BY <2>2, <2>3 DEF Laid
  <2>5. /\ Len(u) = M[n] /\ M[n] = Marks(st, n) /\ st.args = u \o more
        /\ \A i \in 1..n :
             /\ M[i - 1] \in Nat /\ M[i] = M[i - 1] + Len(s[i]) /\ M[i] <= M[n]
             /\ \A j \in 1..Len(s[i]) : u[M[i - 1] + j] = s[i][j]
      BY <1>4, <1>8, <2>1, <2>2, <2>3, <2>4 DEF Laid
  <2>6. /\ Len(u) \in Nat
        /\ \A i \in 1..Len(u) : (u \o more)[i] = u[i]
        /\ \A j \in 1..Len(more) : (u \o more)[Len(u) + j] = more[j]
      BY ConcatPlaces
  <2>7. \A j \in 1..Len(more) : st.args[Marks(st, n) + j] = more[j]
      BY <2>5, <2>6
  <2>8. ASSUME NEW i \in 1..n
        PROVE  SubSeq(st.args, Marks(st, i - 1) + 1, Marks(st, i)) = C[i].args
    <3>1. PICK t \in Seq(V) : t = s[i]
        BY <1>3
    <3>2. PICK a \in Nat : a = M[i - 1]
        BY <2>5
    <3>3. Marks(st, i - 1) = a /\ Marks(st, i) = a + Len(t) /\ a + Len(t) <= Len(u)
        BY <1>8, <2>5, <3>1, <3>2
    <3>4. \A j \in 1..Len(t) : st.args[a + j] = t[j]
      <4> SUFFICES ASSUME NEW j \in 1..Len(t) PROVE st.args[a + j] = t[j]
          OBVIOUS
      <4>1. PICK l \in Nat : l = Len(t)
          BY LenProperties
      <4>2. a + j \in 1..Len(u)
          BY <2>6, <3>3, <4>1
      <4> QED
          BY <2>5, <2>6, <3>1, <3>2, <4>2
    <3>5. SubSeq(st.args, a + 1, a + Len(t)) = t
        BY <3>4, StretchIs
    <3> QED
        BY <1>3, <3>1, <3>3, <3>5
  <2> QED
      BY <1>1, <1>4, <1>5, <1>6, <2>7, <2>8 DEF Behind
<1> QED
    BY <1>9, <1>10

\* What an argument may be.
Values == Int \cup Texts \cup {<<"resource_error">>}

\* A row satisfies the conditions, each with its own arguments.
Sat(C, row) == \A i \in DOMAIN C : Holds(row[C[i].col], C[i].op, C[i].args)

\* No condition: every row.
LEMMA SatNone ==
    IsConds(<<>>, Values) /\ \A row : Sat(<<>>, row)
<1>1. DOMAIN <<>> = {} /\ Len(<<>>) = 0 /\ 1..0 = {}
    OBVIOUS
<1>2. <<>> = [i \in 1..0 |-> <<>>[i]]
    OBVIOUS
<1> QED
    BY <1>1, <1>2 DEF Sat, IsConds

\* One condition: the rows it holds for.
LEMMA SatCond ==
    ASSUME NEW col, NEW op, NEW args \in Seq(Values)
    PROVE  /\ IsConds(Cond(col, op, args), Values)
           /\ \A row : Sat(Cond(col, op, args), row) <=> Holds(row[col], op, args)
<1> DEFINE c == [col |-> col, op |-> op, args |-> args]
<1>1. c.col = col /\ c.op = op /\ c.args = args
    OBVIOUS
<1> HIDE DEF c
<1>2. PICK C : C = <<c>>
    OBVIOUS
<1>3. Cond(col, op, args) = C
    BY <1>2 DEF Cond, c
<1>4. Len(C) = 1 /\ DOMAIN C = 1..1 /\ C[1] = c /\ C = [i \in 1..1 |-> C[i]]
    BY <1>2
<1>5. IsConds(C, Values)
    BY <1>1, <1>4 DEF IsConds
<1>6. ASSUME NEW row PROVE Sat(C, row) <=> Holds(row[col], op, args)
    BY <1>1, <1>4 DEF Sat
<1> QED
    BY <1>3, <1>5, <1>6

\* The conditions of two lists: the rows that satisfy both.
LEMMA SatConcat ==
    ASSUME NEW C, IsConds(C, Values), NEW D, IsConds(D, Values)
    PROVE  /\ IsConds(C \o D, Values)
           /\ \A row : Sat(C \o D, row) <=> Sat(C, row) /\ Sat(D, row)
<1>1. PICK W : C \in Seq(W) /\ D \in Seq(W)
  <2>1. PICK m \in Nat, n \in Nat : m = Len(C) /\ n = Len(D)
      BY DEF IsConds
  <2>2. PICK W : W = {C[i] : i \in 1..m} \cup {D[j] : j \in 1..n}
      OBVIOUS
  <2>3. C \in [1..m -> W] /\ D \in [1..n -> W]
      BY <2>1, <2>2 DEF IsConds
  <2> QED
      BY <2>3, ListIs
<1>2. /\ C \o D \in Seq(W) /\ Len(C) \in Nat /\ Len(D) \in Nat
      /\ Len(C \o D) = Len(C) + Len(D)
      /\ \A i \in 1..Len(C) : (C \o D)[i] = C[i]
      /\ \A j \in 1..Len(D) : (C \o D)[Len(C) + j] = D[j]
    BY <1>1, ConcatPlaces
<1>3. PICK m \in Nat, n \in Nat : m = Len(C) /\ n = Len(D)
    BY <1>2
<1>4. PICK E : E = C \o D
    OBVIOUS
<1>5. DOMAIN C = 1..m /\ DOMAIN D = 1..n /\ DOMAIN E = 1..(m + n)
  <2>1. DOMAIN E = 1..Len(E) /\ DOMAIN C = 1..Len(C) /\ DOMAIN D = 1..Len(D)
      BY <1>1, <1>2, <1>4, LenProperties
  <2> QED
      BY <1>2, <1>3, <1>4, <2>1
<1>6. (\A i \in 1..m : E[i] = C[i]) /\ \A j \in 1..n : E[m + j] = D[j]
    BY <1>2, <1>3, <1>4
<1>7. ASSUME NEW row PROVE Sat(E, row) <=> Sat(C, row) /\ Sat(D, row)
  <2> DEFINE H(c) == Holds(row[c.col], c.op, c.args)
  <2>1. ASSUME \A k \in 1..(m + n) : H(E[k])
        PROVE  (\A i \in 1..m : H(C[i])) /\ \A j \in 1..n : H(D[j])
    <3>1. \A i \in 1..m : i \in 1..(m + n)
        OBVIOUS
    <3>2. \A j \in 1..n : m + j \in 1..(m + n)
        OBVIOUS
    <3> HIDE DEF H
    <3> QED
        BY <1>6, <2>1, <3>1, <3>2
  <2>2. ASSUME \A i \in 1..m : H(C[i]), \A j \in 1..n : H(D[j])
        PROVE  \A k \in 1..(m + n) : H(E[k])
    <3> HIDE DEF H
    <3> SUFFICES ASSUME NEW k \in 1..(m + n) PROVE H(E[k])
        OBVIOUS
    <3>1. CASE k \in 1..m
        BY <1>6, <2>2, <3>1
    <3>2. CASE k \notin 1..m
      <4>1. k - m \in 1..n /\ m + (k - m) = k
          BY <3>2
      <4> QED
          BY <1>6, <2>2, <4>1
    <3> QED
        BY <3>1, <3>2
  <2>3. (\A k \in 1..(m + n) : H(E[k]))
         <=> (\A i \in 1..m : H(C[i])) /\ \A j \in 1..n : H(D[j])
    <3> HIDE DEF H
    <3> QED
        BY <2>1, <2>2
  <2> QED
      BY <1>5, <2>3 DEF Sat
<1>8. IsConds(E, Values)
  <2>1. Len(E) = m + n /\ m + n \in Nat
      BY <1>2, <1>3, <1>4
  <2>2. E = [i \in 1..(m + n) |-> E[i]]
      BY <1>1, <1>2, <1>4, <1>5, LenProperties
  <2>3. ASSUME NEW i \in 1..(m + n) PROVE E[i].args \in Seq(Values)
    <3>1. CASE i \in 1..m
        BY <1>3, <1>6, <3>1 DEF IsConds
    <3>2. CASE i \notin 1..m
      <4>1. PICK j \in 1..n : i = m + j
        <5>1. i - m \in 1..n /\ i = m + (i - m)
            BY <3>2
        <5> QED
            BY <5>1
      <4> QED
          BY <1>3, <1>6, <4>1 DEF IsConds
    <3> QED
        BY <3>1, <3>2
  <2> QED
      BY <2>1, <2>2, <2>3 DEF IsConds
<1> QED
    BY <1>4, <1>7, <1>8

-------------------------------------------------------------------------------
(***************************************************************************)
(* What each operator of a condition says of a row (LIKE, =, IN, FIND_IN_SET, *)
(* BETWEEN two ends), and what each builder's condition asks for.          *)
(***************************************************************************)
\* A field left out is neither a number nor a text; the empty text is one.
LEMMA NilIsNoValue == Nil \notin Int /\ Nil \notin Texts /\ <<>> \in Texts
BY ListsAssumption, EmptySeq DEF Texts

\* Only the empty text has no letters.
LEMMA TextLen == \A t \in Texts : Len(t) \in Nat /\ (Len(t) = 0 <=> t = <<>>)
BY EmptySeq, LenProperties DEF Texts

\* Every text contains the empty text and begins with it.
LEMMA HasNothing == \A t \in Texts : HasPart(t, <<>>) /\ IsPrefix(<<>>, t)
<1> SUFFICES ASSUME NEW t \in Texts PROVE HasPart(t, <<>>) /\ IsPrefix(<<>>, t)
    OBVIOUS
<1>1. Len(<<>>) = 0 /\ Len(t) \in Nat
    BY TextLen
<1>2. SubSeq(t, 1, 0) = <<>> /\ SubSeq(<<>>, 1, 0) = <<>>
    BY SubSeqEmpty
<1>3. HasPart(t, <<>>)
  <2>1. 0 \in 0..(Len(t) - Len(<<>>)) /\ SubSeq(t, 0 + 1, 0 + Len(<<>>)) = <<>>
      BY <1>1, <1>2
  <2> QED
      BY <2>1 DEF HasPart
<1> QED
    BY <1>1, <1>2, <1>3 DEF IsPrefix

\* A list of one argument.
LEMMA OneArgument ==
    ASSUME NEW x \in Values
    PROVE  <<x>> \in Seq(Values) /\ <<x>>[1] = x
OBVIOUS

\* LIKE: the text contains the argument.
LEMMA HoldsLike == \A v, args : Holds(v, "like", args) <=> v # Nil /\ HasPart(v, args[1])
BY DEF Holds

\* LIKE with the wildcard at the end only.
LEMMA HoldsPrefix ==
    \A v, args : Holds(v, "prefix", args) <=> v # Nil /\ IsPrefix(args[1], v)
BY DEF Holds

\* = on texts.
LEMMA HoldsEqual == \A v, args : Holds(v, "=", args) <=> v # Nil /\ v = args[1]
BY DEF Holds

\* = on numbers.
LEMMA HoldsNumber == \A v, args : Holds(v, "number", args) <=> v # Nil /\ v = args[1]
BY DEF Holds

\* IN: one of the arguments.
LEMMA HoldsIn ==
    \A v, args : Holds(v, "in", args) <=> v # Nil /\ \E k \in DOMAIN args : v = args[k]
BY DEF Holds

\* FIND_IN_SET: the argument is among the values.
LEMMA HoldsFind == \A v, args : Holds(v, "find_in_set", args) <=> v # Nil /\ args[1] \in v
BY DEF Holds

\* A flag that is set.
LEMMA HoldsOne == \A v, args : Holds(v, "is 1", args) <=> v # Nil /\ v = 1
BY DEF Holds

\* The beginning of a range.
LEMMA HoldsAtLeast == \A v, args : Holds(v, ">=", args) <=> v # Nil /\ v >= args[1]
BY DEF Holds

\* The end of a range.
LEMMA HoldsAtMost == \A v, args : Holds(v, "<=", args) <=> v # Nil /\ v <= args[1]
BY DEF Holds

\* From the first day to the end of the last.
LEMMA HoldsDays ==
    \A v, args : Holds(v, "days", args) <=>
                    v # Nil /\ v >= 2 * args[1] /\ v < 2 * (args[2] + 1)
BY DEF Holds

LEMMA TextAsked ==
    ASSUME NEW f, NEW col, f[col] \in Texts, NEW row, row[col] \in Texts
    PROVE  /\ \A op : IsConds(NonEmpty(f, col, op), Values)
           /\ Sat(NonEmpty(f, col, "like"), row) <=> HasPart(row[col], f[col])
           /\ Sat(NonEmpty(f, col, "prefix"), row) <=> IsPrefix(f[col], row[col])
           /\ Sat(NonEmpty(f, col, "="), row) <=> f[col] \in {<<>>, row[col]}
<1>1. row[col] # Nil
    BY NilIsNoValue
<1>2. CASE f[col] = <<>>
  <2>1. \A op : NonEmpty(f, col, op) = <<>>
      BY <1>2 DEF NonEmpty
  <2> QED
      BY <1>2, <2>1, SatNone, HasNothing
<1>3. CASE f[col] # <<>>
  <2>1. <<f[col]>> \in Seq(Values) /\ <<f[col]>>[1] = f[col]
      BY OneArgument DEF Values
  <2>2. \A op : NonEmpty(f, col, op) = Cond(col, op, <<f[col]>>)
      BY <1>3 DEF NonEmpty
  <2>3. \A op :
           /\ IsConds(Cond(col, op, <<f[col]>>), Values)
           /\ Sat(Cond(col, op, <<f[col]>>), row) <=> Holds(row[col], op, <<f[col]>>)
      BY <2>1, SatCond
  <2>4. /\ Holds(row[col], "like", <<f[col]>>) <=> HasPart(row[col], f[col])
        /\ Holds(row[col], "prefix", <<f[col]>>) <=> IsPrefix(f[col], row[col])
        /\ Holds(row[col], "=", <<f[col]>>) <=> f[col] \in {<<>>, row[col]}
      BY <1>1, <1>3, <2>1, HoldsLike, HoldsPrefix, HoldsEqual
  <2> QED
      BY <2>2, <2>3, <2>4
<1> QED
    BY <1>2, <1>3

\* Numbers: left out when nil, zero or not positive, equal otherwise.
LEMMA NumberAsked ==
    ASSUME NEW f, NEW col, f[col] \in Int \cup {Nil}, NEW row,
           row[col] \in Int \cup {Nil}
    PROVE  /\ IsConds(NonNil(f, col), Values)
           /\ Sat(NonNil(f, col), row) <=> f[col] \in {Nil, row[col]}
           /\ f[col] # Nil =>
                /\ IsConds(NonZero(f, col), Values)
                /\ Sat(NonZero(f, col), row) <=> f[col] \in {0, row[col]}
                /\ IsConds(Positive(f, col), Values)
                /\ Sat(Positive(f, col), row) <=> f[col] <= 0 \/ f[col] = row[col]
<1> DEFINE some == Cond(col, "number", <<f[col]>>)
<1>1. f[col] # Nil =>
        /\ IsConds(some, Values)
        /\ Sat(some, row) <=> f[col] = row[col]
  <2> SUFFICES ASSUME f[col] # Nil
               PROVE  IsConds(some, Values) /\ (Sat(some, row) <=> f[col] = row[col])
      OBVIOUS
  <2>1. <<f[col]>> \in Seq(Values) /\ <<f[col]>>[1] = f[col]
      BY OneArgument DEF Values
  <2>2. /\ IsConds(some, Values)
        /\ Sat(some, row) <=> Holds(row[col], "number", <<f[col]>>)
      BY <2>1, SatCond
  <2>3. Holds(row[col], "number", <<f[col]>>) <=> f[col] = row[col]
      BY <2>1, HoldsNumber
  <2> QED
      BY <2>2, <2>3
<1>2. /\ NonNil(f, col) = IF f[col] = Nil THEN <<>> ELSE some
      /\ NonZero(f, col) = IF f[col] = 0 THEN <<>> ELSE some
      /\ Positive(f, col) = IF f[col] <= 0 THEN <<>> ELSE some
    BY DEF NonNil, NonZero, Positive
<1> HIDE DEF some
<1>3. 0 # Nil
    BY NilIsNoValue
<1> QED
    BY <1>1, <1>2, <1>3, SatNone

\* A pair by its two components.
LEMMA PairIs ==
    ASSUME NEW A, NEW B, NEW p \in A \X B
    PROVE  \E a \in A, b \in B : p = <<a, b>>
<1>1. p = <<p[1], p[2]>> /\ p[1] \in A /\ p[2] \in B
    OBVIOUS
<1> QED
    BY <1>1

\* Days: left out unless both ends are given.
LEMMA DaysAsked ==
    ASSUME NEW f, NEW col, f[col] \in (Int \cup {Nil}) \X (Int \cup {Nil}),
           NEW row, row[col] \in Int \cup {Nil}
    PROVE  /\ IsConds(BothEnds(f, col), Values)
           /\ Sat(BothEnds(f, col), row) <=>
                \/ Nil \in {f[col][1], f[col][2]}
                \/ row[col] # Nil /\ row[col] \div 2 \in f[col][1]..f[col][2]
<1>1. CASE Nil \in {f[col][1], f[col][2]}
    BY <1>1, SatNone DEF BothEnds
<1>2. CASE Nil \notin {f[col][1], f[col][2]}
  <2>0. PICK a \in Int \cup {Nil}, b \in Int \cup {Nil} : f[col] = <<a, b>>
    <3> DEFINE A == Int \cup {Nil}
    <3>1. f[col] \in A \X A
        OBVIOUS
    <3>2. \E a \in A, b \in A : f[col] = <<a, b>>
      <4> HIDE DEF A
      <4> QED
          BY <3>1, PairIs
    <3> QED
        BY <3>2
  <2>1. a \in Int /\ b \in Int
      BY <1>2, <2>0
  <2>2. <<a, b>> \in Seq(Values) /\ f[col][1] = a /\ f[col][2] = b
    <3>1. a \in Values /\ b \in Values
        BY DEF Values
    <3> QED
        BY <2>0, <3>1
  <2>3. BothEnds(f, col) = Cond(col, "days", <<a, b>>)
      BY <1>2, <2>0 DEF BothEnds
  <2>4. /\ IsConds(Cond(col, "days", <<a, b>>), Values)
        /\ Sat(Cond(col, "days", <<a, b>>), row) <=> Holds(row[col], "days", <<a, b>>)
      BY <2>2, SatCond
  <2>5. Holds(row[col], "days", <<a, b>>) <=>
           row[col] # Nil /\ row[col] \div 2 \in a..b
    <3>1. ASSUME NEW v \in Int PROVE (v >= 2 * a /\ v < 2 * (b + 1)) <=> v \div 2 \in a..b
      <4>1. v \div 2 \in Int /\ 2 * (v \div 2) <= v /\ v <= 2 * (v \div 2) + 1
          OBVIOUS
      <4> QED
          BY <4>1
    <3>2. Holds(row[col], "days", <<a, b>>) <=>
             row[col] # Nil /\ row[col] >= 2 * a /\ row[col] < 2 * (b + 1)
        BY HoldsDays
    <3> QED
        BY <3>1, <3>2
  <2> QED
      BY <1>2, <2>2, <2>3, <2>4, <2>5
<1> QED
    BY <1>1, <1>2

\* created_at >= ?, created_at <= ?
LEMMA BoundsAsked ==
    ASSUME NEW col, NEW x \in Int, NEW row, row[col] \in Int
    PROVE  /\ IsConds(Cond(col, ">=", <<x>>), Values)
           /\ Sat(Cond(col, ">=", <<x>>), row) <=> row[col] >= x
           /\ IsConds(Cond(col, "<=", <<x>>), Values)
           /\ Sat(Cond(col, "<=", <<x>>), row) <=> row[col] <= x
<1>1. <<x>> \in Seq(Values) /\ <<x>>[1] = x
    BY OneArgument DEF Values
<1>2. \A op :
         /\ IsConds(Cond(col, op, <<x>>), Values)
         /\ Sat(Cond(col, op, <<x>>), row) <=> Holds(row[col], op, <<x>>)
    BY <1>1, SatCond
<1>3. row[col] # Nil
    BY NilIsNoValue
<1>4. /\ Holds(row[col], ">=", <<x>>) <=> row[col] >= x
      /\ Holds(row[col], "<=", <<x>>) <=> row[col] <= x
    BY <1>1, <1>3, HoldsAtLeast, HoldsAtMost
<1> QED
    BY <1>2, <1>4

\* A flag that is asked for.
LEMMA FlagAsked ==
    ASSUME NEW col, NEW row, row[col] \in Int \cup {Nil}
    PROVE  /\ IsConds(Cond(col, "is 1", <<>>), Values)
           /\ Sat(Cond(col, "is 1", <<>>), row) <=> row[col] = 1
<1>1. <<>> \in Seq(Values) /\ 1 # Nil
    BY EmptySeq, NilIsNoValue
<1>2. /\ IsConds(Cond(col, "is 1", <<>>), Values)
      /\ Sat(Cond(col, "is 1", <<>>), row) <=> Holds(row[col], "is 1", <<>>)
    BY <1>1, SatCond
<1> QED
    BY <1>1, <1>2, HoldsOne

\* A condition without arguments is a condition.
LEMMA BlankAsked ==
    ASSUME NEW col, NEW row
    PROVE  IsConds(Cond(col, "not blank", <<>>), Values)
BY SatCond, EmptySeq

\* One of several values, unless none are named.
LEMMA OneOfAsked ==
    ASSUME NEW col, NEW vs \in SUBSET Texts, IsFiniteSet(vs), NEW row,
           row[col] \in Texts
    PROVE  /\ IsConds(placeholders(col, vs), Values)
           /\ Sat(placeholders(col, vs), row) <=> vs = {} \/ row[col] \in vs
<1>1. CASE vs = {}
    BY <1>1, SatNone DEF placeholders
<1>2. CASE vs # {}
  <2>1. PICK q : q = SetToSeq(vs)
      OBVIOUS
  <2>2. PICK n \in Nat : n = Cardinality(vs)
      BY SetToSeqLists
  <2>3. q \in [1..n -> vs] /\ \A x \in vs : \E i \in 1..n : q[i] = x
      BY <2>1, <2>2, SetToSeqLists
  <2>4. q \in [1..n -> Values]
      BY <2>3 DEF Values
  <2>5. q \in Seq(Values)
      BY <2>4, ListIs
  <2>6. DOMAIN q = 1..n
      BY <2>3
  <2>7. /\ IsConds(Cond(col, "in", q), Values)
        /\ Sat(Cond(col, "in", q), row) <=> Holds(row[col], "in", q)
      BY <2>5, SatCond
  <2>8. Holds(row[col], "in", q) <=> \E k \in DOMAIN q : row[col] = q[k]
      BY NilIsNoValue, HoldsIn
  <2>9. (\E k \in DOMAIN q : row[col] = q[k]) <=> row[col] \in vs
      BY <2>3, <2>6
  <2> QED
      BY <1>2, <2>1, <2>7, <2>8, <2>9 DEF placeholders
<1> QED
    BY <1>1, <1>2

\* All of several values.
LEMMA AllOfAsked ==
    ASSUME NEW col, NEW vs \in SUBSET Texts, IsFiniteSet(vs), NEW row,
           row[col] \in (SUBSET Texts) \ {Nil}
    PROVE  /\ IsConds(Each(col, vs), Values)
           /\ Sat(Each(col, vs), row) <=> vs \subseteq row[col]
<1>1. PICK q : q = SetToSeq(vs)
    OBVIOUS
<1>2. PICK n \in Nat : n = Cardinality(vs)
    BY SetToSeqLists
<1>3. q \in [1..n -> vs] /\ \A x \in vs : \E i \in 1..n : q[i] = x
    BY <1>1, <1>2, SetToSeqLists
<1>4. PICK E : E = [i \in 1..n |-> [col |-> col, op |-> "find_in_set", args |-> <<q[i]>>]]
    OBVIOUS
<1>5. Each(col, vs) = E
    BY <1>1, <1>3, <1>4 DEF Each
<1>6. \A i \in 1..n : /\ q[i] \in Values /\ <<q[i]>> \in Seq(Values) /\ <<q[i]>>[1] = q[i]
                      /\ E[i].col = col /\ E[i].op = "find_in_set" /\ E[i].args = <<q[i]>>
  <2>1. \A i \in 1..n : q[i] \in Values
      BY <1>3 DEF Values
  <2> QED
      BY <1>4, <2>1, OneArgument
<1>8. IsConds(E, Values)
  <2>1. E \in [1..n -> {E[i] : i \in 1..n}]
      BY <1>4
  <2>2. Len(E) = n
      BY <2>1, ListIs
  <2>3. E = [i \in 1..n |-> E[i]]
      BY <1>4
  <2> QED
      BY <1>6, <2>2, <2>3 DEF IsConds
<1>9. \A i \in 1..n : Holds(row[E[i].col], E[i].op, E[i].args) <=> q[i] \in row[col]
    BY <1>6, HoldsFind
<1>10. DOMAIN E = 1..n
    BY <1>4
<1>11. Sat(E, row) <=> \A i \in 1..n : q[i] \in row[col]
    BY <1>9, <1>10 DEF Sat
<1>12. (\A i \in 1..n : q[i] \in row[col]) <=> vs \subseteq row[col]
    BY <1>3
<1> QED
    BY <1>5, <1>8, <1>11, <1>12

-------------------------------------------------------------------------------
(***************************************************************************)
(* Several conditions of one kind.                                         *)
(***************************************************************************)
\* Conditions flattened from several lists: the rows that satisfy all of them.
LEMMA SatFlatten ==
    ASSUME NEW n \in Nat, NEW S, Len(S) = n, S = [i \in 1..n |-> S[i]],
           \A i \in 1..n : IsConds(S[i], Values)
    PROVE  /\ IsConds(FlattenSeq(S), Values)
           /\ \A row : Sat(FlattenSeq(S), row) <=> \A i \in 1..n : Sat(S[i], row)
<1>1. CASE n = 0
  <2>1. FlattenSeq(S) = <<>>
    <3>1. S = <<>>
        BY <1>1
    <3> QED
        BY <1>1, <3>1 DEF FlattenSeq
  <2> QED
      BY <1>1, <2>1, SatNone
<1>2. CASE n # 0
  <2>1. PICK h : Flattens(h, S, n) /\ FlattenSeq(S) = h[n]
      BY <1>2, FlattenSeqUnfolds
  <2> DEFINE Good(k) == /\ IsConds(h[k], Values)
                        /\ \A row : Sat(h[k], row) <=> \A i \in 1..k : Sat(S[i], row)
             Bad == {k \in 1..n : ~Good(k)}
  <2>2. ASSUME Bad # {} PROVE FALSE
    <3>1. PICK k \in Bad : \A m \in Bad : k <= m
      <4>1. Bad \subseteq 0..n
          OBVIOUS
      <4> HIDE DEF Bad
      <4> QED
          BY <2>2, <4>1, SmallestNumber
    <3>2. k \in 1..n /\ ~Good(k)
        BY <3>1
    <3>3. h[k] = IF k = 1 THEN S[k] ELSE h[k - 1] \o S[k]
        BY <2>1, <3>2 DEF Flattens
    <3>4. CASE k = 1
      <4>1. h[k] = S[k] /\ IsConds(S[k], Values) /\ \A i \in 1..k : i = k
          BY <3>2, <3>3, <3>4
      <4> QED
          BY <3>2, <3>4, <4>1
    <3>5. CASE k # 1
      <4>1. PICK p \in Nat : p = k - 1 /\ p \in 1..n /\ ~(k <= p)
          BY <3>2, <3>5
      <4>2. Good(p)
        <5> HIDE DEF Good
        <5> QED
            BY <3>1, <4>1
      <4>3. h[k] = h[p] \o S[k] /\ IsConds(h[p], Values) /\ IsConds(S[k], Values)
          BY <3>2, <3>3, <3>5, <4>1, <4>2
      <4>4. /\ IsConds(h[p] \o S[k], Values)
            /\ \A row : Sat(h[p] \o S[k], row) <=> Sat(h[p], row) /\ Sat(S[k], row)
          BY <4>3, SatConcat
      <4>5. \A i : i \in 1..k <=> i \in 1..p \/ i = k
          BY <3>2, <4>1
      <4>6. \A row : Sat(h[k], row) <=> \A i \in 1..k : Sat(S[i], row)
          BY <4>2, <4>3, <4>4, <4>5
      <4> QED
          BY <3>2, <4>3, <4>4, <4>6
    <3> QED
        BY <3>4, <3>5
  <2>3. n \in 1..n
      BY <1>2
  <2>4. Good(n)
    <3> HIDE DEF Good
    <3> QED
        BY <2>2, <2>3
  <2> QED
      BY <2>1, <2>4
<1> QED
    BY <1>1, <1>2

\* Several text columns: each contains, or equals, what was asked of it.
LEMMA TextsAsked ==
    ASSUME NEW f, NEW n \in Nat, NEW cols, Len(cols) = n, DOMAIN cols = 1..n, NEW row,
           \A i \in 1..n : f[cols[i]] \in Texts /\ row[cols[i]] \in Texts
    PROVE  /\ \A op : IsConds(AllNonEmpty(f, cols, op), Values)
           /\ Sat(AllNonEmpty(f, cols, "like"), row)
                <=> \A i \in 1..n : HasPart(row[cols[i]], f[cols[i]])
           /\ Sat(AllNonEmpty(f, cols, "="), row)
                <=> \A i \in 1..n : f[cols[i]] \in {<<>>, row[cols[i]]}
<1>1. ASSUME NEW i \in 1..n
      PROVE  /\ \A op : IsConds(NonEmpty(f, cols[i], op), Values)
             /\ Sat(NonEmpty(f, cols[i], "like"), row) <=> HasPart(row[cols[i]], f[cols[i]])
             /\ Sat(NonEmpty(f, cols[i], "="), row) <=> f[cols[i]] \in {<<>>, row[cols[i]]}
    BY TextAsked
<1>2. ASSUME NEW op
      PROVE  /\ IsConds(AllNonEmpty(f, cols, op), Values)
             /\ Sat(AllNonEmpty(f, cols, op), row)
                  <=> \A i \in 1..n : Sat(NonEmpty(f, cols[i], op), row)
  <2>1. PICK S : S = [i \in 1..n |-> NonEmpty(f, cols[i], op)]
      OBVIOUS
  <2>2. AllNonEmpty(f, cols, op) = FlattenSeq(S)
      BY <2>1 DEF AllNonEmpty
  <2>3. S \in [1..n -> {S[i] : i \in 1..n}]
      BY <2>1
  <2>4. Len(S) = n
      BY <2>3, ListIs
  <2>5. S = [i \in 1..n |-> S[i]] /\ \A i \in 1..n : IsConds(S[i], Values)
      BY <1>1, <2>1
  <2>6. /\ IsConds(FlattenSeq(S), Values)
        /\ Sat(FlattenSeq(S), row) <=> \A i \in 1..n : Sat(S[i], row)
      BY <2>4, <2>5, SatFlatten
  <2>7. \A i \in 1..n : S[i] = NonEmpty(f, cols[i], op)
      BY <2>1
  <2> QED
      BY <2>2, <2>6, <2>7
<1> QED
    BY <1>1, <1>2

-------------------------------------------------------------------------------
(***************************************************************************)
(* Trimming, and int arithmetic.                                           *)
(***************************************************************************)
\* Trimming a text leaves a text.
LEMMA TrimIsText == \A t \in Texts : TrimSpace(t) \in Texts
<1> SUFFICES ASSUME NEW t \in Texts PROVE TrimSpace(t) \in Texts
    OBVIOUS
<1> DEFINE solid == {i \in DOMAIN t : t[i] # " "}
<1>1. PICK n \in Nat : n = Len(t) /\ DOMAIN t = 1..n /\ \A i \in 1..n : t[i] \in STRING
    BY LenProperties, ElementOfSeq DEF Texts
<1>2. CASE solid = {}
    BY <1>2, NilIsNoValue DEF TrimSpace
<1>3. CASE solid # {}
  <2>0. \A x \in solid : x \in 1..n
      BY <1>1
  <2>1. solid \subseteq 0..n /\ solid \subseteq Int /\ \A x \in solid : x \in 1..n
    <3> HIDE DEF solid
    <3> QED
        BY <2>0
  <2>2. IsFiniteSet(solid)
    <3> DEFINE D == 1..n
    <3>1. IsFiniteSet(D)
        BY FS_Interval
    <3>2. solid \in SUBSET D
        BY <2>1
    <3> HIDE DEF solid, D
    <3> QED
        BY <3>1, <3>2, FS_Subset
  <2>3. TrimSpace(t) = SubSeq(t, Min(solid), Max(solid))
      BY <1>3 DEF TrimSpace
  <2> HIDE DEF solid
  <2>4. PICK a \in 1..n : a = Min(solid)
    <3>1. solid \subseteq 0..n /\ solid # {}
        BY <1>3, <2>1
    <3>2. Min(solid) \in solid
        BY <3>1, MinIs
    <3> QED
        BY <2>1, <3>2
  <2>5. PICK b \in 1..n : b = Max(solid)
    <3>1. PICK z \in solid : TRUE
        BY <1>3
    <3>2. Max(solid) \in solid
        BY <2>1, <2>2, MaxIs
    <3> QED
        BY <2>1, <3>2
  <2>6. \A i \in a..b : t[i] \in STRING
      BY <1>1
  <2>7. SubSeq(t, a, b) \in Seq(STRING)
      BY <2>6, SubSeqProperties
  <2> QED
      BY <2>3, <2>4, <2>5, <2>7 DEF Texts
<1> QED
    BY <1>2, <1>3

\* A remainder of a number below the modulus is the number.
LEMMA SmallMod == ASSUME NEW m \in Nat \ {0}, NEW x \in 0..(m - 1) PROVE x % m = x
OBVIOUS

\* An int that does not overflow is itself.
LEMMA Int64Small == \A n \in 0..MaxInt : Int64(n) = n
<1> SUFFICES ASSUME NEW n \in 0..MaxInt PROVE Int64(n) = n
    OBVIOUS
<1>1. PICK m \in Nat : m = MaxInt
    BY QueriesAssumption
<1>2. PICK d \in Nat \ {0} : d = 2 * (m + 1)
    OBVIOUS
<1>0. PICK x \in 0..(d - 1) : x = n + m + 1
    BY <1>1, <1>2
<1>3. x % d = x
    BY SmallMod
<1> QED
    BY <1>0, <1>1, <1>2, <1>3 DEF Int64

-------------------------------------------------------------------------------
(***************************************************************************)
(* What the kinds of fields are about.                                     *)
(***************************************************************************)
\* Texts: left out when empty.
LEMMA WantsText ==
    \A x, v : /\ Wants("like", x, v) <=> HasPart(v, x)
              /\ Wants("trimmed", x, v) <=> HasPart(v, TrimSpace(x))
              /\ Wants("equal", x, v) <=> x \in {<<>>, v}
              /\ Wants("prefix", x, v) <=> IsPrefix(x, v)
BY DEF Wants

\* Numbers: left out when nil, and by their kind when 0, -1 or not positive.
LEMMA WantsNumber ==
    \A x, v : /\ Wants("key", x, v) <=> x \in {Nil, 0, v}
              /\ Wants("positive", x, v) <=> x \in {Nil, v} \/ x <= 0
              /\ Wants("number", x, v) <=> x \in {Nil, v}
              /\ Wants("state", x, v) <=> x \in {Nil, -1, v}
              /\ Wants("flag", x, v) <=> x = Nil \/ x <= 0 \/ v = 1
BY DEF Wants

\* Sets of values.
LEMMA WantsSet ==
    \A x, v : /\ Wants("oneOf", x, v) <=> x = {} \/ v \in x
              /\ Wants("all", x, v) <=> x \subseteq v
BY DEF Wants

\* Days and times.
LEMMA WantsTime ==
    \A x, v : /\ Wants("days", x, v) <=> \/ Nil \in {x[1], x[2]}
                                         \/ v # Nil /\ v \div 2 \in x[1]..x[2]
              /\ Wants("span", x, v) <=>
                   /\ v >= (IF x[1] = Nil THEN Now - Span ELSE x[1])
                   /\ v <= (IF x[2] = Nil THEN Now ELSE x[2])
              /\ Wants("period", x, v) <=> /\ x[1] # Nil => v >= x[1]
                                           /\ x[2] # Nil => v <= x[2]
BY DEF Wants

\* The values of a column, by the kind of its field.
LEMMA ColumnIs ==
    /\ \A kind \in {"like", "trimmed", "equal", "prefix", "oneOf"} : Column(kind) = Texts
    /\ Column("all") = (SUBSET Texts) \ {Nil}
    /\ \A kind \in {"span", "period"} : Column(kind) = Int
    /\ \A kind \in {"key", "positive", "number", "state", "flag", "days"} :
          Column(kind) = Int \cup {Nil}
BY DEF Column

\* What a request may say, by the kind of the field.
LEMMA SaidIs ==
    /\ \A kind \in {"like", "trimmed", "equal", "prefix"} : Said(kind) = Texts
    /\ \A kind \in {"oneOf", "all"} : Said(kind) = {s \in SUBSET Texts : IsFiniteSet(s)}
    /\ \A kind \in {"days", "span", "period"} : Said(kind) = (Int \cup {Nil}) \X (Int \cup {Nil})
    /\ \A kind \in {"key", "positive", "number", "state", "flag"} :
          Said(kind) = Int \cup {Nil}
BY DEF Said

-------------------------------------------------------------------------------
(***************************************************************************)
(* Conditions that ask of a row what the request wants of some columns.    *)
(***************************************************************************)
\* The row is wanted by the request; conditions that ask for just these rows.
Matching(r, row) == \A f \in DOMAIN Fields : Wants(Fields[f], r[f], row[f])
Asks(C, r) ==
    /\ IsConds(C, Values)
    /\ \A row : IsRow(list, row) => (Sat(C, row) <=> Matching(r, row))

\* A request and a row agree with their list, field by field.
LEMMA Typed ==
    ASSUME NEW r, IsRequest(list, r), NEW row, IsRow(list, row)
    PROVE  /\ \A c \in DOMAIN Fields : /\ row[c] \in Column(Fields[c])
                                       /\ r[c] \in Said(Fields[c])
           /\ DOMAIN r = DOMAIN Fields \cup {"page_index", "page_size"}
           /\ row.sort_no \in Int /\ row.joined \in BOOLEAN
BY DEF IsRequest, IsRow, Fields

Fits(C, r, row, cols) ==
    /\ IsConds(C, Values)
    /\ Sat(C, row) <=> \A c \in cols : Wants(Fields[c], r[c], row[c])

\* Conditions on some columns and on others.
LEMMA FitsConcat ==
    ASSUME NEW r, NEW row, NEW C, NEW D, NEW cs, NEW ds,
           Fits(C, r, row, cs), Fits(D, r, row, ds)
    PROVE  Fits(C \o D, r, row, cs \cup ds)
<1>1. IsConds(C, Values) /\ IsConds(D, Values)
    BY DEF Fits
<1>2. IsConds(C \o D, Values) /\ (Sat(C \o D, row) <=> Sat(C, row) /\ Sat(D, row))
    BY <1>1, SatConcat
<1> QED
    BY <1>2 DEF Fits

\* A condition on one column.
LEMMA FitsOne ==
    ASSUME NEW r, NEW row, NEW C, NEW col, IsConds(C, Values),
           Sat(C, row) <=> Wants(Fields[col], r[col], row[col])
    PROVE  Fits(C, r, row, {col})
BY DEF Fits

\* A text field and its condition.
LEMMA TextFits ==
    ASSUME NEW r, IsRequest(list, r), NEW row, IsRow(list, row), NEW col \in DOMAIN Fields, NEW f
    PROVE  /\ Fields[col] = "like" /\ f[col] = r[col]
                => Fits(NonEmpty(f, col, "like"), r, row, {col})
           /\ Fields[col] = "trimmed" /\ f[col] = TrimSpace(r[col])
                => Fits(NonEmpty(f, col, "like"), r, row, {col})
           /\ Fields[col] = "equal" /\ f[col] = r[col]
                => Fits(NonEmpty(f, col, "="), r, row, {col})
           /\ Fields[col] = "prefix" /\ f[col] = r[col]
                => Fits(NonEmpty(f, col, "prefix"), r, row, {col})
<1>1. Fields[col] \in {"like", "trimmed", "equal", "prefix"}
        => row[col] \in Texts /\ r[col] \in Texts /\ TrimSpace(r[col]) \in Texts
    BY Typed, ColumnIs, SaidIs, TrimIsText
<1>2. f[col] \in Texts /\ row[col] \in Texts =>
        /\ \A op : IsConds(NonEmpty(f, col, op), Values)
        /\ Sat(NonEmpty(f, col, "like"), row) <=> HasPart(row[col], f[col])
        /\ Sat(NonEmpty(f, col, "prefix"), row) <=> IsPrefix(f[col], row[col])
        /\ Sat(NonEmpty(f, col, "="), row) <=> f[col] \in {<<>>, row[col]}
    BY TextAsked
<1>3. CASE Fields[col] = "like" /\ f[col] = r[col]
    BY <1>1, <1>2, <1>3, WantsText, FitsOne
<1>4. CASE Fields[col] = "trimmed" /\ f[col] = TrimSpace(r[col])
    BY <1>1, <1>2, <1>4, WantsText, FitsOne
<1>5. CASE Fields[col] = "equal" /\ f[col] = r[col]
    BY <1>1, <1>2, <1>5, WantsText, FitsOne
<1>6. CASE Fields[col] = "prefix" /\ f[col] = r[col]
    BY <1>1, <1>2, <1>6, WantsText, FitsOne
<1> QED
    BY <1>3, <1>4, <1>5, <1>6

\* A number field and its condition.
LEMMA NumberFits ==
    ASSUME NEW r, IsRequest(list, r), NEW row, IsRow(list, row), NEW col \in DOMAIN Fields, NEW f
    PROVE  /\ Fields[col] = "number" /\ f[col] = r[col]
                => Fits(NonNil(f, col), r, row, {col})
           /\ Fields[col] = "number" /\ f[col] = ZeroIfNil(r[col]) /\ r[col] # 0
                => Fits(NonZero(f, col), r, row, {col})
           /\ Fields[col] = "key" /\ f[col] = ZeroIfNil(r[col])
                => Fits(NonZero(f, col), r, row, {col})
           /\ Fields[col] = "state" /\ f[col] = (IF r[col] = -1 THEN Nil ELSE r[col])
                => Fits(NonNil(f, col), r, row, {col})
           /\ Fields[col] = "positive" /\ f[col] = ZeroIfNil(r[col])
                => Fits(Positive(f, col), r, row, {col})
<1>1. Fields[col] \in {"number", "key", "state", "positive"}
        => row[col] \in Int \cup {Nil} /\ r[col] \in Int \cup {Nil}
    BY Typed, ColumnIs, SaidIs
<1>2. f[col] \in Int \cup {Nil} /\ row[col] \in Int \cup {Nil} =>
        /\ IsConds(NonNil(f, col), Values)
        /\ Sat(NonNil(f, col), row) <=> f[col] \in {Nil, row[col]}
        /\ f[col] # Nil =>
             /\ IsConds(NonZero(f, col), Values)
             /\ Sat(NonZero(f, col), row) <=> f[col] \in {0, row[col]}
             /\ IsConds(Positive(f, col), Values)
             /\ Sat(Positive(f, col), row) <=> f[col] <= 0 \/ f[col] = row[col]
    BY NumberAsked
<1>3. \A x \in Int \cup {Nil} : ZeroIfNil(x) \in Int /\ ZeroIfNil(x) # Nil
    BY NilIsNoValue DEF ZeroIfNil
<1>4. ASSUME Fields[col] = "number", f[col] = r[col]
      PROVE  Fits(NonNil(f, col), r, row, {col})
  <2>1. IsConds(NonNil(f, col), Values) /\ (Sat(NonNil(f, col), row) <=> f[col] \in {Nil, row[col]})
      BY <1>1, <1>2, <1>4
  <2> QED
      BY <1>4, <2>1, WantsNumber, FitsOne
<1>5. ASSUME Fields[col] = "number", f[col] = ZeroIfNil(r[col]), r[col] # 0
      PROVE  Fits(NonZero(f, col), r, row, {col})
  <2>1. f[col] \in {0, row[col]} <=> r[col] \in {Nil, row[col]}
      BY <1>1, <1>5, NilIsNoValue DEF ZeroIfNil
  <2>2. IsConds(NonZero(f, col), Values) /\ (Sat(NonZero(f, col), row) <=> f[col] \in {0, row[col]})
      BY <1>1, <1>2, <1>3, <1>5
  <2> QED
      BY <1>5, <2>1, <2>2, WantsNumber, FitsOne
<1>6. CASE Fields[col] = "key" /\ f[col] = ZeroIfNil(r[col])
  <2>1. f[col] \in {0, row[col]} <=> r[col] \in {Nil, 0, row[col]}
      BY <1>1, <1>6, NilIsNoValue DEF ZeroIfNil
  <2>2. IsConds(NonZero(f, col), Values) /\ (Sat(NonZero(f, col), row) <=> f[col] \in {0, row[col]})
      BY <1>1, <1>2, <1>3, <1>6
  <2> QED
      BY <1>6, <2>1, <2>2, WantsNumber, FitsOne
<1>7. CASE Fields[col] = "state" /\ f[col] = (IF r[col] = -1 THEN Nil ELSE r[col])
  <2>1. f[col] \in {Nil, row[col]} <=> r[col] \in {Nil, -1, row[col]}
      BY <1>1, <1>7
  <2> QED
      BY <1>1, <1>2, <1>7, <2>1, WantsNumber, FitsOne
<1>8. CASE Fields[col] = "positive" /\ f[col] = ZeroIfNil(r[col])
  <2>1. (f[col] <= 0 \/ f[col] = row[col]) <=> (r[col] \in {Nil, row[col]} \/ r[col] <= 0)
      BY <1>1, <1>8, NilIsNoValue DEF ZeroIfNil
  <2>2. /\ IsConds(Positive(f, col), Values)
        /\ Sat(Positive(f, col), row) <=> f[col] <= 0 \/ f[col] = row[col]
      BY <1>1, <1>2, <1>3, <1>8
  <2> QED
      BY <1>8, <2>1, <2>2, WantsNumber, FitsOne
<1> QED
    BY <1>4, <1>5, <1>6, <1>7, <1>8

\* A field with two days and its condition.
LEMMA DaysFits ==
    ASSUME NEW r, IsRequest(list, r), NEW row, IsRow(list, row), NEW col \in DOMAIN Fields,
           Fields[col] = "days", NEW f, f[col] = r[col]
    PROVE  Fits(BothEnds(f, col), r, row, {col})
<1>1. row[col] \in Int \cup {Nil} /\ f[col] \in (Int \cup {Nil}) \X (Int \cup {Nil})
    BY Typed, ColumnIs, SaidIs
<1>2. /\ IsConds(BothEnds(f, col), Values)
      /\ Sat(BothEnds(f, col), row) <=>
           \/ Nil \in {f[col][1], f[col][2]}
           \/ row[col] # Nil /\ row[col] \div 2 \in f[col][1]..f[col][2]
    BY <1>1, DaysAsked
<1> QED
    BY <1>2, WantsTime, FitsOne

\* The same for several columns at once.
LEMMA TextsFit ==
    ASSUME NEW r, IsRequest(list, r), NEW row, IsRow(list, row), NEW f,
           NEW n \in Nat, NEW cols, Len(cols) = n, DOMAIN cols = 1..n,
           NEW cs, cs \subseteq DOMAIN Fields, \A i \in 1..n : cols[i] \in cs,
           \A c \in cs : \E i \in 1..n : cols[i] = c
    PROVE  /\ (\A i \in 1..n : Fields[cols[i]] = "like" /\ f[cols[i]] = r[cols[i]])
                => Fits(AllNonEmpty(f, cols, "like"), r, row, cs)
           /\ (\A i \in 1..n : Fields[cols[i]] = "trimmed" /\ f[cols[i]] = TrimSpace(r[cols[i]]))
                => Fits(AllNonEmpty(f, cols, "like"), r, row, cs)
           /\ (\A i \in 1..n : Fields[cols[i]] = "equal" /\ f[cols[i]] = r[cols[i]])
                => Fits(AllNonEmpty(f, cols, "="), r, row, cs)
<1>1. \A c \in DOMAIN Fields : Fields[c] \in {"like", "trimmed", "equal"} =>
         row[c] \in Texts /\ r[c] \in Texts /\ TrimSpace(r[c]) \in Texts
    BY Typed, ColumnIs, SaidIs, TrimIsText
<1>2. (\A i \in 1..n : f[cols[i]] \in Texts /\ row[cols[i]] \in Texts) =>
        /\ \A op : IsConds(AllNonEmpty(f, cols, op), Values)
        /\ Sat(AllNonEmpty(f, cols, "like"), row)
             <=> \A i \in 1..n : HasPart(row[cols[i]], f[cols[i]])
        /\ Sat(AllNonEmpty(f, cols, "="), row)
             <=> \A i \in 1..n : f[cols[i]] \in {<<>>, row[cols[i]]}
    BY TextsAsked
<1>3. (\A c \in cs : Wants(Fields[c], r[c], row[c]))
        <=> \A i \in 1..n : Wants(Fields[cols[i]], r[cols[i]], row[cols[i]])
    OBVIOUS
<1>4. CASE \A i \in 1..n : Fields[cols[i]] = "like" /\ f[cols[i]] = r[cols[i]]
    BY <1>1, <1>2, <1>3, <1>4, WantsText DEF Fits
<1>5. CASE \A i \in 1..n : Fields[cols[i]] = "trimmed" /\ f[cols[i]] = TrimSpace(r[cols[i]])
    BY <1>1, <1>2, <1>3, <1>5, WantsText DEF Fits
<1>6. CASE \A i \in 1..n : Fields[cols[i]] = "equal" /\ f[cols[i]] = r[cols[i]]
    BY <1>1, <1>2, <1>3, <1>6, WantsText DEF Fits
<1> QED
    BY <1>4, <1>5, <1>6

\* All columns together.
LEMMA FitsAll ==
    ASSUME NEW r, NEW row, NEW C, Fits(C, r, row, DOMAIN Fields)
    PROVE  IsConds(C, Values) /\ (Sat(C, row) <=> Matching(r, row))
BY DEF Fits, Matching

\* Conditions on three groups of columns.
LEMMA FitsThree ==
    ASSUME NEW r, NEW row, NEW C, NEW D, NEW E, NEW cs, NEW ds, NEW es,
           Fits(C, r, row, cs), Fits(D, r, row, ds), Fits(E, r, row, es)
    PROVE  Fits(C \o D \o E, r, row, cs \cup ds \cup es)
<1>1. Fits(C \o D, r, row, cs \cup ds)
    BY FitsConcat
<1> QED
    BY <1>1, FitsConcat

-------------------------------------------------------------------------------
(***************************************************************************)
(* Each list asks for the rows that its request wants.                     *)
(***************************************************************************)
\* Products by their trimmed name.
LEMMA ProductsAsked ==
    ASSUME list = "products", NEW r, IsRequest(list, r), NEW row, IsRow(list, row),
           NEW f, f.product_name = TrimSpace(r.product_name)
    PROVE  Fits(NonEmpty(f, "product_name", "like"), r, row, DOMAIN Fields)
<1>1. /\ DOMAIN Fields = {"product_name"}
      /\ Fields.product_name = "trimmed"
    BY DEF Fields, FieldsOf, ProductListReq
<1>2. Fits(NonEmpty(f, "product_name", "like"), r, row, {"product_name"})
    BY <1>1, TextFits
<1>3. {"product_name"} = DOMAIN Fields
    BY <1>1
<1> QED
    BY <1>2, <1>3

\* Orders by number, product name and status (orderWhere).
LEMMA OrdersAsked ==
    ASSUME list = "orders", NEW r, IsRequest(list, r), NEW row, IsRow(list, row),
           NEW f, f.order_no = r.order_no, f.product_name = r.product_name,
           f.status = ZeroIfNil(r.status), r.status # 0
    PROVE  Fits(orderWhere(f), r, row, DOMAIN Fields)
<1>1. /\ DOMAIN Fields = {"order_no", "product_name", "status"}
      /\ Fields.order_no = "equal" /\ Fields.product_name = "like"
      /\ Fields.status = "number"
    BY DEF Fields, FieldsOf, OrderListReq
<1> DEFINE A == NonEmpty(f, "order_no", "=")
           B == NonEmpty(f, "product_name", "like")
           C == NonZero(f, "status")
<1>2. Fits(A, r, row, {"order_no"})
    BY <1>1, TextFits
<1>3. Fits(B, r, row, {"product_name"})
    BY <1>1, TextFits
<1>4. Fits(C, r, row, {"status"})
    BY <1>1, NumberFits
<1>5. orderWhere(f) = A \o B \o C
    BY DEF orderWhere
<1> HIDE DEF A, B, C
<1>6. Fits(A \o B \o C, r, row, {"order_no"} \cup {"product_name"} \cup {"status"})
    BY <1>2, <1>3, <1>4, FitsThree
<1>7. {"order_no"} \cup {"product_name"} \cup {"status"} = DOMAIN Fields
    BY <1>1
<1> QED
    BY <1>6, <1>7, <1>5

\* Points by the order's number.
LEMMA PointsAsked ==
    ASSUME list = "points", NEW r, IsRequest(list, r), NEW row, IsRow(list, row),
           NEW f, f.order_no = r.order_no
    PROVE  Fits(NonEmpty(f, "order_no", "="), r, row, DOMAIN Fields)
<1>1. /\ DOMAIN Fields = {"order_no"}
      /\ Fields.order_no = "equal"
    BY DEF Fields, FieldsOf, PointsListReq
<1>2. Fits(NonEmpty(f, "order_no", "="), r, row, {"order_no"})
    BY <1>1, TextFits
<1>3. {"order_no"} = DOMAIN Fields
    BY <1>1
<1> QED
    BY <1>2, <1>3

\* Notifications by title.
LEMMA NotificationsAsked ==
    ASSUME list = "notifications", NEW r, IsRequest(list, r), NEW row, IsRow(list, row),
           NEW f, f.title = r.title
    PROVE  Fits(NonEmpty(f, "title", "like"), r, row, DOMAIN Fields)
<1>1. /\ DOMAIN Fields = {"title"}
      /\ Fields.title = "like"
    BY DEF Fields, FieldsOf, NotificationListReq
<1>2. Fits(NonEmpty(f, "title", "like"), r, row, {"title"})
    BY <1>1, TextFits
<1>3. {"title"} = DOMAIN Fields
    BY <1>1
<1> QED
    BY <1>2, <1>3

\* Administrators by trimmed name (adminUserWhere).
LEMMA AdminUsersAsked ==
    ASSUME list = "adminUsers", NEW r, IsRequest(list, r), NEW row, IsRow(list, row),
           NEW f, f.username = TrimSpace(r.username)
    PROVE  Fits(adminUserWhere(f), r, row, DOMAIN Fields)
<1>1. /\ DOMAIN Fields = {"username"}
      /\ Fields.username = "trimmed"
    BY DEF Fields, FieldsOf, AdminUserListReq
<1>2. Fits(NonEmpty(f, "username", "like"), r, row, {"username"})
    BY <1>1, TextFits
<1>3. {"username"} = DOMAIN Fields
    BY <1>1
<1> QED
    BY <1>2, <1>3 DEF adminUserWhere

\* AB items by module and trimmed key (abItemWhere).
LEMMA ItemsAsked ==
    ASSUME list = "items", NEW r, IsRequest(list, r), NEW row, IsRow(list, row),
           NEW f, f.module_id = ZeroIfNil(r.module_id), f.item_key = TrimSpace(r.item_key)
    PROVE  Fits(abItemWhere(f), r, row, DOMAIN Fields)
<1>1. /\ DOMAIN Fields = {"module_id", "item_key"}
      /\ Fields.module_id = "positive" /\ Fields.item_key = "trimmed"
    BY DEF Fields, FieldsOf, AbModuleItemListReq
<1> DEFINE A == Positive(f, "module_id")
           B == NonEmpty(f, "item_key", "like")
<1>2. Fits(A, r, row, {"module_id"})
    BY <1>1, NumberFits
<1>3. Fits(B, r, row, {"item_key"})
    BY <1>1, TextFits
<1>4. abItemWhere(f) = A \o B
    BY DEF abItemWhere
<1> HIDE DEF A, B
<1>5. Fits(A \o B, r, row, {"module_id"} \cup {"item_key"})
    BY <1>2, <1>3, FitsConcat
<1>6. {"module_id"} \cup {"item_key"} = DOMAIN Fields
    BY <1>1
<1> QED
    BY <1>5, <1>6, <1>4

\* AB modules by trimmed key and name (abModuleWhere).
LEMMA ModulesAsked ==
    ASSUME list = "modules", NEW r, IsRequest(list, r), NEW row, IsRow(list, row),
           NEW f, f.module_key = TrimSpace(r.module_key),
           f.module_name = TrimSpace(r.module_name)
    PROVE  Fits(abModuleWhere(f), r, row, DOMAIN Fields)
<1>1. /\ DOMAIN Fields = {"module_key", "module_name"}
      /\ Fields.module_key = "trimmed" /\ Fields.module_name = "trimmed"
    BY DEF Fields, FieldsOf, AbModuleListReq
<1>2. Fits(AllNonEmpty(f, <<"module_key", "module_name">>, "like"), r, row, {"module_key", "module_name"})
  <2>1. PICK q : q = <<"module_key", "module_name">>
      OBVIOUS
  <2>2. PICK cs : cs = {"module_key", "module_name"}
      OBVIOUS
  <2>3. Len(q) = 2 /\ DOMAIN q = 1..2 /\ 2 \in Nat
      BY <2>1
  <2>4. q[1] = "module_key" /\ q[2] = "module_name"
      BY <2>1
  <2>5. \A i \in 1..2 : i \in {1, 2}
      OBVIOUS
  <2>6. \A i \in 1..2 : q[i] \in cs
      BY <2>2, <2>4, <2>5
  <2>7. \A c \in cs : \E i \in 1..2 : q[i] = c
      BY <2>2, <2>4
  <2>8. cs \subseteq DOMAIN Fields
      BY <1>1, <2>2
  <2>9. /\ Fields.module_key = "trimmed" /\ f.module_key = TrimSpace(r.module_key)
        /\ Fields.module_name = "trimmed" /\ f.module_name = TrimSpace(r.module_name)
      BY <1>1
  <2>10. \A i \in 1..2 : Fields[q[i]] = "trimmed" /\ f[q[i]] = TrimSpace(r[q[i]])
      BY <2>4, <2>5, <2>9
  <2>11. Fits(AllNonEmpty(f, q, "like"), r, row, cs)
      BY <2>3, <2>6, <2>7, <2>8, <2>10, TextsFit
  <2> QED
      BY <2>1, <2>2, <2>11
<1>3. {"module_key", "module_name"} = DOMAIN Fields
    BY <1>1
<1> QED
    BY <1>2, <1>3 DEF abModuleWhere

\* Resignations by department, three names and the day (resignWhere).
LEMMA ResignsAsked ==
    ASSUME list = "resigns", NEW r, IsRequest(list, r), NEW row, IsRow(list, row),
           NEW f, f.original_teacher_dept_id = ZeroIfNil(r.original_teacher_dept_id),
           f.original_teacher_name = r.original_teacher_name,
           f.replace_teacher_name = r.replace_teacher_name,
           f.salesman_name = r.salesman_name, f.transfer_time = r.transfer_time
    PROVE  Fits(resignWhere(f), r, row, DOMAIN Fields)
<1>1. /\ DOMAIN Fields = {"original_teacher_dept_id", "original_teacher_name",
                            "replace_teacher_name", "salesman_name", "transfer_time"}
      /\ Fields.original_teacher_dept_id = "key" /\ Fields.original_teacher_name = "like"
      /\ Fields.replace_teacher_name = "like" /\ Fields.salesman_name = "like"
      /\ Fields.transfer_time = "days"
    BY DEF Fields, FieldsOf, ResignListReq
<1> DEFINE A == NonZero(f, "original_teacher_dept_id")
           B == AllNonEmpty(f, <<"original_teacher_name", "replace_teacher_name", "salesman_name">>, "like")
           C == BothEnds(f, "transfer_time")
<1>2. Fits(A, r, row, {"original_teacher_dept_id"})
    BY <1>1, NumberFits
<1>3. Fits(B, r, row, {"original_teacher_name", "replace_teacher_name", "salesman_name"})
  <2>1. PICK q : q = <<"original_teacher_name", "replace_teacher_name", "salesman_name">>
      OBVIOUS
  <2>2. PICK cs : cs = {"original_teacher_name", "replace_teacher_name", "salesman_name"}
      OBVIOUS
  <2>3. Len(q) = 3 /\ DOMAIN q = 1..3 /\ 3 \in Nat
      BY <2>1
  <2>4. q[1] = "original_teacher_name" /\ q[2] = "replace_teacher_name" /\
        q[3] = "salesman_name"
      BY <2>1
  <2>5. \A i \in 1..3 : i \in {1, 2, 3}
      OBVIOUS
  <2>6. \A i \in 1..3 : q[i] \in cs
      BY <2>2, <2>4, <2>5
  <2>7. \A c \in cs : \E i \in 1..3 : q[i] = c
      BY <2>2, <2>4
  <2>8. cs \subseteq DOMAIN Fields
      BY <1>1, <2>2
  <2>9. /\ Fields.original_teacher_name = "like" /\ f.original_teacher_name = r.original_teacher_name
        /\ Fields.replace_teacher_name = "like" /\ f.replace_teacher_name = r.replace_teacher_name
        /\ Fields.salesman_name = "like" /\ f.salesman_name = r.salesman_name
      BY <1>1
  <2>10. \A i \in 1..3 : Fields[q[i]] = "like" /\ f[q[i]] = r[q[i]]
      BY <2>4, <2>5, <2>9
  <2>11. Fits(AllNonEmpty(f, q, "like"), r, row, cs)
      BY <2>3, <2>6, <2>7, <2>8, <2>10, TextsFit
  <2> QED
      BY <2>1, <2>2, <2>11
<1>4. Fits(C, r, row, {"transfer_time"})
    BY <1>1, DaysFits
<1>5. resignWhere(f) = A \o B \o C
    BY DEF resignWhere
<1> HIDE DEF A, B, C
<1>6. Fits(A \o B \o C, r, row, {"original_teacher_dept_id"} \cup
           {"original_teacher_name", "replace_teacher_name", "salesman_name"} \cup
           {"transfer_time"})
    BY <1>2, <1>3, <1>4, FitsThree
<1>7. {"original_teacher_dept_id"} \cup
      {"original_teacher_name", "replace_teacher_name", "salesman_name"} \cup
      {"transfer_time"} = DOMAIN Fields
    BY <1>1
<1> QED
    BY <1>6, <1>7, <1>5

\* Diagnoses by eleven fields (diagnoseWhere).
LEMMA DiagnosesAsked ==
    ASSUME list = "diagnoses", NEW r, IsRequest(list, r), NEW row, IsRow(list, row),
           NEW f, f.id = r.id, f.user_nick_name = r.user_nick_name,
           f.user_name = r.user_name, f.stock_code = r.stock_code,
           f.stock_name = r.stock_name, f.buy_price = r.buy_price, f.buy_num = r.buy_num,
           f.teacher_name = r.teacher_name, f.status = r.status,
           f.submit_time = r.submit_time, f.report_submit_time = r.report_submit_time
    PROVE  Fits(diagnoseWhere(f), r, row, DOMAIN Fields)
<1>1. /\ DOMAIN Fields = {"id", "user_nick_name", "user_name", "stock_code", "stock_name",
                            "buy_price", "buy_num", "teacher_name", "status", "submit_time",
                            "report_submit_time"}
      /\ Fields.id = "number" /\ Fields.user_nick_name = "like"
      /\ Fields.user_name = "like" /\ Fields.stock_code = "like"
      /\ Fields.stock_name = "like" /\ Fields.buy_price = "number"
      /\ Fields.buy_num = "number" /\ Fields.teacher_name = "like"
      /\ Fields.status = "number" /\ Fields.submit_time = "days"
      /\ Fields.report_submit_time = "days"
    BY DEF Fields, FieldsOf, DiagnoseListReq
<1> DEFINE A == NonNil(f, "id")
           B == AllNonEmpty(f, <<"user_nick_name", "user_name", "stock_code", "stock_name", "teacher_name">>, "like")
           C == NonNil(f, "buy_price")
           D == NonNil(f, "buy_num")
           E == NonNil(f, "status")
           G == BothEnds(f, "submit_time")
           H == BothEnds(f, "report_submit_time")
<1>2. Fits(A, r, row, {"id"})
    BY <1>1, NumberFits
<1>3. Fits(B, r, row, {"user_nick_name", "user_name", "stock_code", "stock_name", "teacher_name"})
  <2>1. PICK q : q = <<"user_nick_name", "user_name", "stock_code", "stock_name", "teacher_name">>
      OBVIOUS
  <2>2. PICK cs : cs = {"user_nick_name", "user_name", "stock_code", "stock_name", "teacher_name"}
      OBVIOUS
  <2>3. Len(q) = 5 /\ DOMAIN q = 1..5 /\ 5 \in Nat
      BY <2>1
  <2>4. q[1] = "user_nick_name" /\ q[2] = "user_name" /\ q[3] = "stock_code" /\
        q[4] = "stock_name" /\ q[5] = "teacher_name"
      BY <2>1
  <2>5. \A i \in 1..5 : i \in {1, 2, 3, 4, 5}
      OBVIOUS
  <2>6. \A i \in 1..5 : q[i] \in cs
      BY <2>2, <2>4, <2>5
  <2>7. \A c \in cs : \E i \in 1..5 : q[i] = c
      BY <2>2, <2>4
  <2>8. cs \subseteq DOMAIN Fields
      BY <1>1, <2>2
  <2>9. /\ Fields.user_nick_name = "like" /\ f.user_nick_name = r.user_nick_name
        /\ Fields.user_name = "like" /\ f.user_name = r.user_name
        /\ Fields.stock_code = "like" /\ f.stock_code = r.stock_code
        /\ Fields.stock_name = "like" /\ f.stock_name = r.stock_name
        /\ Fields.teacher_name = "like" /\ f.teacher_name = r.teacher_name
      BY <1>1
  <2>10. \A i \in 1..5 : Fields[q[i]] = "like" /\ f[q[i]] = r[q[i]]
      BY <2>4, <2>5, <2>9
  <2>11. Fits(AllNonEmpty(f, q, "like"), r, row, cs)
      BY <2>3, <2>6, <2>7, <2>8, <2>10, TextsFit
  <2> QED
      BY <2>1, <2>2, <2>11
<1>4. Fits(C, r, row, {"buy_price"})
    BY <1>1, NumberFits
<1>5. Fits(D, r, row, {"buy_num"})
    BY <1>1, NumberFits
<1>6. Fits(E, r, row, {"status"})
    BY <1>1, NumberFits
<1>7. Fits(G, r, row, {"submit_time"})
    BY <1>1, DaysFits
<1>8. Fits(H, r, row, {"report_submit_time"})
    BY <1>1, DaysFits
<1>9. diagnoseWhere(f) = A \o B \o C \o D \o E \o G \o H
    BY DEF diagnoseWhere
<1> HIDE DEF A, B, C, D, E, G, H
<1>10. Fits(A \o B \o C, r, row, {"id"} \cup
           {"user_nick_name", "user_name", "stock_code", "stock_name", "teacher_name"} \cup
           {"buy_price"})
    BY <1>2, <1>3, <1>4, FitsThree
<1>11. Fits(A \o B \o C \o D \o E, r, row, {"id"} \cup
           {"user_nick_name", "user_name", "stock_code", "stock_name", "teacher_name"} \cup
           {"buy_price"} \cup {"buy_num"} \cup {"status"})
    BY <1>10, <1>5, <1>6, FitsThree
<1>12. Fits(A \o B \o C \o D \o E \o G \o H, r, row, {"id"} \cup
           {"user_nick_name", "user_name", "stock_code", "stock_name", "teacher_name"} \cup
           {"buy_price"} \cup {"buy_num"} \cup {"status"} \cup {"submit_time"} \cup
           {"report_submit_time"})
    BY <1>11, <1>7, <1>8, FitsThree
<1>13. {"id"} \cup
      {"user_nick_name", "user_name", "stock_code", "stock_name", "teacher_name"} \cup
      {"buy_price"} \cup {"buy_num"} \cup {"status"} \cup {"submit_time"} \cup
      {"report_submit_time"} = DOMAIN Fields
    BY <1>1
<1> QED
    BY <1>12, <1>13, <1>9

\* No conditions say nothing about no columns.
LEMMA FitsNothing == \A r, row : Fits(<<>>, r, row, {})
BY SatNone DEF Fits

\* A field with several values and its condition.
LEMMA SetFits ==
    ASSUME NEW r, IsRequest(list, r), NEW row, IsRow(list, row),
           NEW col \in DOMAIN Fields, NEW f, f[col] = r[col]
    PROVE  /\ Fields[col] = "oneOf" => Fits(placeholders(col, f[col]), r, row, {col})
           /\ Fields[col] = "all" => Fits(Each(col, f[col]), r, row, {col})
<1>1. ASSUME Fields[col] = "oneOf"
      PROVE  Fits(placeholders(col, f[col]), r, row, {col})
  <2>1. PICK vs \in SUBSET Texts : IsFiniteSet(vs) /\ vs = f[col] /\ row[col] \in Texts
      BY <1>1, Typed, ColumnIs, SaidIs
  <2>2. /\ IsConds(placeholders(col, vs), Values)
        /\ Sat(placeholders(col, vs), row) <=> vs = {} \/ row[col] \in vs
      BY <2>1, OneOfAsked
  <2>3. Wants(Fields[col], r[col], row[col]) <=> vs = {} \/ row[col] \in vs
      BY <1>1, <2>1, WantsSet
  <2>4. Fits(placeholders(col, vs), r, row, {col})
      BY <2>2, <2>3, FitsOne
  <2> QED
      BY <2>1, <2>4
<1>2. ASSUME Fields[col] = "all" PROVE Fits(Each(col, f[col]), r, row, {col})
  <2>1. PICK vs \in SUBSET Texts :
            IsFiniteSet(vs) /\ vs = f[col] /\ row[col] \in (SUBSET Texts) \ {Nil}
      BY <1>2, Typed, ColumnIs, SaidIs
  <2>2. /\ IsConds(Each(col, vs), Values)
        /\ Sat(Each(col, vs), row) <=> vs \subseteq row[col]
      BY <2>1, AllOfAsked
  <2>3. Wants(Fields[col], r[col], row[col]) <=> vs \subseteq row[col]
      BY <1>2, <2>1, WantsSet
  <2>4. Fits(Each(col, vs), r, row, {col})
      BY <2>2, <2>3, FitsOne
  <2> QED
      BY <2>1, <2>4
<1> QED
    BY <1>1, <1>2

\* A flag and its condition.
LEMMA FlagFits ==
    ASSUME NEW r, IsRequest(list, r), NEW row, IsRow(list, row),
           NEW col \in DOMAIN Fields, Fields[col] = "flag", NEW n, n = ZeroIfNil(r[col])
    PROVE  Fits(IF n > 0 THEN Cond(col, "is 1", <<>>) ELSE <<>>, r, row, {col})
<1>1. row[col] \in Int \cup {Nil} /\ r[col] \in Int \cup {Nil}
    BY Typed, ColumnIs, SaidIs
<1>2. n \in Int /\ (n > 0 <=> r[col] # Nil /\ ~(r[col] <= 0))
    BY <1>1, NilIsNoValue DEF ZeroIfNil
<1>3. Wants(Fields[col], r[col], row[col]) <=> ~(n > 0) \/ row[col] = 1
    BY <1>2, WantsNumber
<1>4. CASE n > 0
  <2>1. /\ IsConds(Cond(col, "is 1", <<>>), Values)
        /\ Sat(Cond(col, "is 1", <<>>), row) <=> row[col] = 1
      BY <1>1, FlagAsked
  <2> QED
      BY <1>3, <1>4, <2>1, FitsOne
<1>5. CASE ~(n > 0)
    BY <1>3, <1>5, SatNone, FitsOne
<1> QED
    BY <1>4, <1>5

\* The clock and the spans are numbers.
LEMMA SpanIsNat == Span \in Nat /\ Now \in Nat /\ EventSpan \in Nat /\ OverviewSpan \in Nat
BY QueriesAssumption DEF Span

\* A range that was not refused has both ends (normalizeMonRange).
LEMMA RangeIs ==
    ASSUME NEW range \in (Int \cup {Nil}) \X (Int \cup {Nil}), NEW span \in Nat,
           NEW got, got = normalizeMonRange(range, span), got # Refused
    PROVE  /\ got[1] = (IF range[1] = Nil THEN Now - span ELSE range[1])
           /\ got[2] = (IF range[2] = Nil THEN Now ELSE range[2])
           /\ got[1] \in Int /\ got[2] \in Int
<1>1. range[1] \in Int \cup {Nil} /\ range[2] \in Int \cup {Nil} /\ Now \in Nat
    BY SpanIsNat
<1> QED
    BY <1>1 DEF normalizeMonRange

\* A range of time and its two conditions.
LEMMA SpanFits ==
    ASSUME NEW r, IsRequest(list, r), NEW row, IsRow(list, row),
           NEW col \in DOMAIN Fields, Fields[col] = "span", NEW got,
           got = normalizeMonRange(r[col], Span), got # Refused
    PROVE  Fits(Cond(col, ">=", <<got[1]>>) \o Cond(col, "<=", <<got[2]>>), r, row, {col})
<1>1. row[col] \in Int /\ r[col] \in (Int \cup {Nil}) \X (Int \cup {Nil})
    BY Typed, ColumnIs, SaidIs
<1>2. /\ got[1] = (IF r[col][1] = Nil THEN Now - Span ELSE r[col][1])
      /\ got[2] = (IF r[col][2] = Nil THEN Now ELSE r[col][2])
      /\ got[1] \in Int /\ got[2] \in Int
    BY <1>1, SpanIsNat, RangeIs
<1>3. PICK a \in Int, b \in Int : a = got[1] /\ b = got[2]
    BY <1>2
<1> DEFINE A == Cond(col, ">=", <<a>>)
           B == Cond(col, "<=", <<b>>)
<1>4. /\ IsConds(A, Values) /\ (Sat(A, row) <=> row[col] >= a)
      /\ IsConds(B, Values) /\ (Sat(B, row) <=> row[col] <= b)
    BY <1>1, BoundsAsked
<1> HIDE DEF A, B
<1>5. IsConds(A \o B, Values) /\ (Sat(A \o B, row) <=> row[col] >= a /\ row[col] <= b)
    BY <1>4, SatConcat
<1>6. Wants(Fields[col], r[col], row[col]) <=> row[col] >= a /\ row[col] <= b
    BY <1>2, <1>3, WantsTime
<1>7. Fits(A \o B, r, row, {col})
    BY <1>5, <1>6, FitsOne
<1> QED
    BY <1>3, <1>7 DEF A, B

\* Five elements are finitely many.
LEMMA FiveAreFinite == \A a, b, c, d, e : IsFiniteSet({a, b, c, d, e})
<1> SUFFICES ASSUME NEW a, NEW b, NEW c, NEW d, NEW e PROVE IsFiniteSet({a, b, c, d, e})
    OBVIOUS
<1>1. IsFiniteSet({a, b})
  <2>1. IsFiniteSet({a}) /\ {a, b} = {a} \cup {b}
      BY FS_Singleton
  <2> QED
      BY <2>1, FS_AddElement
<1>2. IsFiniteSet({a, b, c, d})
  <2>1. IsFiniteSet({c, d})
    <3>1. IsFiniteSet({c}) /\ {c, d} = {c} \cup {d}
        BY FS_Singleton
    <3> QED
        BY <3>1, FS_AddElement
  <2>2. {a, b, c, d} = {a, b} \cup {c, d}
      OBVIOUS
  <2> QED
      BY <1>1, <2>1, <2>2, FS_Union
<1>3. {a, b, c, d, e} = {a, b, c, d} \cup {e}
    OBVIOUS
<1> QED
    BY <1>2, <1>3, FS_AddElement

\* Fuzzy columns, in whichever order the map yields those that are in use.
LEMMA FuzzyFits ==
    ASSUME NEW r, IsRequest(list, r), NEW row, IsRow(list, row), NEW f,
           NEW cols, IsFiniteSet(cols), cols \subseteq DOMAIN Fields,
           \A c \in cols : Fields[c] = "like" /\ f[c] = r[c],
           NEW fuzzy, fuzzy \in SetToSeqs({col \in cols : r[col] # <<>>})
    PROVE  Fits(AllNonEmpty(f, fuzzy, "like"), r, row, cols)
<1> DEFINE S == {col \in cols : r[col] # <<>>}
<1>1. IsFiniteSet(S) /\ S \subseteq cols
  <2>1. S \in SUBSET cols
      OBVIOUS
  <2> HIDE DEF S
  <2> QED
      BY <2>1, FS_Subset
<1>2. PICK n \in Nat : n = Cardinality(S)
    BY <1>1, FS_CardinalityType
<1>3. fuzzy \in [1..n -> S] /\ \A i, j \in 1..n : fuzzy[i] = fuzzy[j] => i = j
    BY <1>2 DEF SetToSeqs, IsInjective
<1> HIDE DEF S
<1>4. \A c \in S : \E i \in 1..n : fuzzy[i] = c
  <2> DEFINE D == 1..n
  <2>1. IsFiniteSet(D) /\ Cardinality(D) = Cardinality(S)
      BY <1>2, FS_Interval
  <2>2. fuzzy \in [D -> S] /\ \A i, j \in D : fuzzy[i] = fuzzy[j] => i = j
      BY <1>3
  <2>3. \A c \in S : \E i \in D : fuzzy[i] = c
    <3> HIDE DEF D
    <3> QED
        BY <1>1, <2>1, <2>2, InjectiveIsOnto
  <2> QED
      BY <2>3
<1>5. Len(fuzzy) = n /\ DOMAIN fuzzy = 1..n
    BY <1>3, ListIs
<1>6. S \subseteq DOMAIN Fields /\ (\A i \in 1..n : fuzzy[i] \in S)
    BY <1>1, <1>3
<1>7. \A i \in 1..n : Fields[fuzzy[i]] = "like" /\ f[fuzzy[i]] = r[fuzzy[i]]
    BY <1>1, <1>6
<1>8. Fits(AllNonEmpty(f, fuzzy, "like"), r, row, S)
    BY <1>4, <1>5, <1>6, <1>7, TextsFit
<1>9. \A c \in cols : c \notin S => Wants(Fields[c], r[c], row[c])
  <2> SUFFICES ASSUME NEW c \in cols, c \notin S PROVE Wants(Fields[c], r[c], row[c])
      OBVIOUS
  <2>1. r[c] = <<>>
      BY DEF S
  <2>2. c \in DOMAIN Fields /\ Fields[c] = "like"
      OBVIOUS
  <2>3. row[c] \in Texts
      BY <2>2, Typed, ColumnIs
  <2> QED
      BY <2>1, <2>2, <2>3, WantsText, HasNothing
<1> QED
    BY <1>1, <1>8, <1>9 DEF Fits

\* Teachers by eleven fields, five of them in the map's order (teacherWhere).
LEMMA TeachersAsked ==
    ASSUME list = "teachers", NEW r, IsRequest(list, r), NEW row, IsRow(list, row),
           NEW fuzzy \in SetToSeqs({col \in teacherFuzzy : r[col] # <<>>}),
           NEW f, f.dept_id = ZeroIfNil(r.dept_id), f.id = ZeroIfNil(r.id),
           f.account = r.account, f.nickname = r.nickname, f.name = r.name,
           f.title = r.title, f.qualification = r.qualification,
           f.bind_sales_count = r.bind_sales_count,
           f.status = (IF r.status = -1 THEN Nil ELSE r.status), f.update_by = r.update_by,
           f.updated_at = r.updated_at
    PROVE  Fits(teacherWhere(f, fuzzy), r, row, DOMAIN Fields)
<1>1. /\ DOMAIN Fields = {"dept_id", "id", "account", "nickname", "name", "title",
                            "qualification", "bind_sales_count", "status", "update_by",
                            "updated_at"}
      /\ Fields.dept_id = "key" /\ Fields.id = "key" /\ Fields.account = "like"
      /\ Fields.nickname = "like" /\ Fields.name = "like" /\ Fields.title = "like"
      /\ Fields.qualification = "equal" /\ Fields.bind_sales_count = "number"
      /\ Fields.status = "state" /\ Fields.update_by = "like"
      /\ Fields.updated_at = "days"
    BY DEF Fields, FieldsOf, TeacherListReq
<1> DEFINE A == NonZero(f, "dept_id")
           B == NonZero(f, "id")
           C == AllNonEmpty(f, fuzzy, "like")
           D == NonEmpty(f, "qualification", "=")
           E == NonNil(f, "bind_sales_count")
           G == NonNil(f, "status")
           H == BothEnds(f, "updated_at")
<1>2. Fits(A, r, row, {"dept_id"})
    BY <1>1, NumberFits
<1>3. Fits(B, r, row, {"id"})
    BY <1>1, NumberFits
<1>4. Fits(C, r, row, teacherFuzzy)
  <2>1. /\ Fields.account = "like" /\ f.account = r.account
        /\ Fields.nickname = "like" /\ f.nickname = r.nickname
        /\ Fields.name = "like" /\ f.name = r.name
        /\ Fields.title = "like" /\ f.title = r.title
        /\ Fields.update_by = "like" /\ f.update_by = r.update_by
      BY <1>1
  <2>2. \A c \in teacherFuzzy : Fields[c] = "like" /\ f[c] = r[c]
      BY <2>1 DEF teacherFuzzy
  <2>3. teacherFuzzy \subseteq DOMAIN Fields
      BY <1>1 DEF teacherFuzzy
  <2>4. IsFiniteSet(teacherFuzzy)
      BY FiveAreFinite DEF teacherFuzzy
  <2> QED
      BY <2>2, <2>3, <2>4, FuzzyFits
<1>5. Fits(D, r, row, {"qualification"})
    BY <1>1, TextFits
<1>6. Fits(E, r, row, {"bind_sales_count"})
    BY <1>1, NumberFits
<1>7. Fits(G, r, row, {"status"})
    BY <1>1, NumberFits
<1>8. Fits(H, r, row, {"updated_at"})
    BY <1>1, DaysFits
<1>9. teacherWhere(f, fuzzy) = A \o B \o C \o D \o E \o G \o H
    BY DEF teacherWhere
<1> HIDE DEF A, B, C, D, E, G, H
<1>10. Fits(A \o B \o C, r, row, {"dept_id"} \cup {"id"} \cup teacherFuzzy)
    BY <1>2, <1>3, <1>4, FitsThree
<1>11. Fits(A \o B \o C \o D \o E, r, row, {"dept_id"} \cup {"id"} \cup teacherFuzzy \cup
           {"qualification"} \cup {"bind_sales_count"})
    BY <1>10, <1>5, <1>6, FitsThree
<1>12. Fits(A \o B \o C \o D \o E \o G \o H, r, row, {"dept_id"} \cup {"id"} \cup
           teacherFuzzy \cup {"qualification"} \cup {"bind_sales_count"} \cup
           {"status"} \cup {"updated_at"})
    BY <1>11, <1>7, <1>8, FitsThree
<1>13. {"dept_id"} \cup {"id"} \cup teacherFuzzy \cup {"qualification"} \cup
      {"bind_sales_count"} \cup {"status"} \cup {"updated_at"} = DOMAIN Fields
    BY <1>1 DEF teacherFuzzy
<1> QED
    BY <1>12, <1>13, <1>9

\* Events by thirteen fields (monEventWhere).
LEMMA EventsAsked ==
    ASSUME list = "events", NEW r, IsRequest(list, r), NEW row, IsRow(list, row),
           NEW f, f.project = r.project,
           f.created_at = normalizeMonRange(r.created_at, Span),
           f.event_type = r.event_type, f.env = r.env, f.ver = r.ver,
           f.chrome_ver = ZeroIfNil(r.chrome_ver), f.session_id = r.session_id,
           f.device_model = r.device_model, f.capbad = r.capbad,
           f.cap_syntax = ZeroIfNil(r.cap_syntax), f.route = r.route, f.msg = r.msg,
           f.src = r.src, f.created_at # Refused
    PROVE  Fits(monEventWhere(f), r, row, DOMAIN Fields)
<1>1. /\ DOMAIN Fields = {"project", "created_at", "event_type", "env", "ver", "chrome_ver",
                            "session_id", "device_model", "capbad", "cap_syntax", "route",
                            "msg", "src"}
      /\ Fields.project = "equal" /\ Fields.created_at = "span"
      /\ Fields.event_type = "oneOf" /\ Fields.env = "equal" /\ Fields.ver = "prefix"
      /\ Fields.chrome_ver = "positive" /\ Fields.session_id = "equal"
      /\ Fields.device_model = "like" /\ Fields.capbad = "all"
      /\ Fields.cap_syntax = "flag" /\ Fields.route = "like" /\ Fields.msg = "like"
      /\ Fields.src = "like"
    BY DEF Fields, FieldsOf, MonEventListReq
<1> DEFINE A == Cond("created_at", ">=", <<f.created_at[1]>>) \o Cond("created_at", "<=", <<f.created_at[2]>>)
           B == NonEmpty(f, "project", "=")
           C == placeholders("event_type", f.event_type)
           D == NonEmpty(f, "env", "=")
           E == NonEmpty(f, "ver", "prefix")
           G == Positive(f, "chrome_ver")
           H == NonEmpty(f, "session_id", "=")
           I == NonEmpty(f, "device_model", "like")
           J == Each("capbad", f.capbad)
           K == (IF f.cap_syntax > 0 THEN Cond("cap_syntax", "is 1", <<>>) ELSE <<>>)
           L == AllNonEmpty(f, <<"route", "msg", "src">>, "like")
<1>2. Fits(A, r, row, {"created_at"})
    BY <1>1, SpanFits
<1>3. Fits(B, r, row, {"project"})
    BY <1>1, TextFits
<1>4. Fits(C, r, row, {"event_type"})
    BY <1>1, SetFits
<1>5. Fits(D, r, row, {"env"})
    BY <1>1, TextFits
<1>6. Fits(E, r, row, {"ver"})
    BY <1>1, TextFits
<1>7. Fits(G, r, row, {"chrome_ver"})
    BY <1>1, NumberFits
<1>8. Fits(H, r, row, {"session_id"})
    BY <1>1, TextFits
<1>9. Fits(I, r, row, {"device_model"})
    BY <1>1, TextFits
<1>10. Fits(J, r, row, {"capbad"})
    BY <1>1, SetFits
<1>11. Fits(K, r, row, {"cap_syntax"})
    BY <1>1, FlagFits
<1>12. Fits(L, r, row, {"route", "msg", "src"})
  <2>1. PICK q : q = <<"route", "msg", "src">>
      OBVIOUS
  <2>2. PICK cs : cs = {"route", "msg", "src"}
      OBVIOUS
  <2>3. Len(q) = 3 /\ DOMAIN q = 1..3 /\ 3 \in Nat
      BY <2>1
  <2>4. q[1] = "route" /\ q[2] = "msg" /\ q[3] = "src"
      BY <2>1
  <2>5. \A i \in 1..3 : i \in {1, 2, 3}
      OBVIOUS
  <2>6. \A i \in 1..3 : q[i] \in cs
      BY <2>2, <2>4, <2>5
  <2>7. \A c \in cs : \E i \in 1..3 : q[i] = c
      BY <2>2, <2>4
  <2>8. cs \subseteq DOMAIN Fields
      BY <1>1, <2>2
  <2>9. /\ Fields.route = "like" /\ f.route = r.route
        /\ Fields.msg = "like" /\ f.msg = r.msg /\ Fields.src = "like" /\ f.src = r.src
      BY <1>1
  <2>10. \A i \in 1..3 : Fields[q[i]] = "like" /\ f[q[i]] = r[q[i]]
      BY <2>4, <2>5, <2>9
  <2>11. Fits(AllNonEmpty(f, q, "like"), r, row, cs)
      BY <2>3, <2>6, <2>7, <2>8, <2>10, TextsFit
  <2> QED
      BY <2>1, <2>2, <2>11
<1>13. monEventWhere(f) = A \o B \o C \o D \o E \o G \o H \o I \o J \o K \o L
    BY DEF monEventWhere
<1> HIDE DEF A, B, C, D, E, G, H, I, J, K, L
<1>14. Fits(A \o B \o C, r, row, {"created_at"} \cup {"project"} \cup {"event_type"})
    BY <1>2, <1>3, <1>4, FitsThree
<1>15. Fits(A \o B \o C \o D \o E, r, row, {"created_at"} \cup {"project"} \cup
           {"event_type"} \cup {"env"} \cup {"ver"})
    BY <1>14, <1>5, <1>6, FitsThree
<1>16. Fits(A \o B \o C \o D \o E \o G \o H, r, row, {"created_at"} \cup {"project"} \cup
           {"event_type"} \cup {"env"} \cup {"ver"} \cup {"chrome_ver"} \cup {"session_id"})
    BY <1>15, <1>7, <1>8, FitsThree
<1>17. Fits(A \o B \o C \o D \o E \o G \o H \o I \o J, r, row, {"created_at"} \cup
           {"project"} \cup {"event_type"} \cup {"env"} \cup {"ver"} \cup
           {"chrome_ver"} \cup {"session_id"} \cup {"device_model"} \cup {"capbad"})
    BY <1>16, <1>9, <1>10, FitsThree
<1>18. Fits(A \o B \o C \o D \o E \o G \o H \o I \o J \o K \o L, r, row, {"created_at"} \cup
           {"project"} \cup {"event_type"} \cup {"env"} \cup {"ver"} \cup
           {"chrome_ver"} \cup {"session_id"} \cup {"device_model"} \cup {"capbad"} \cup
           {"cap_syntax"} \cup {"route", "msg", "src"})
    BY <1>17, <1>11, <1>12, FitsThree
<1>19. {"created_at"} \cup {"project"} \cup {"event_type"} \cup {"env"} \cup {"ver"} \cup
      {"chrome_ver"} \cup {"session_id"} \cup {"device_model"} \cup {"capbad"} \cup
      {"cap_syntax"} \cup {"route", "msg", "src"} = DOMAIN Fields
    BY <1>1
<1> QED
    BY <1>18, <1>19, <1>13

\* The overview's events by range and environment (monRangeWhere).
LEMMA OverviewAsked ==
    ASSUME list = "overview", NEW r, IsRequest(list, r), NEW row, IsRow(list, row),
           NEW f, f.created_at = normalizeMonRange(r.created_at, Span), f.env = r.env,
           f.created_at # Refused
    PROVE  Fits(monRangeWhere(f, {}), r, row, DOMAIN Fields)
<1>1. /\ DOMAIN Fields = {"created_at", "env"}
      /\ Fields.created_at = "span" /\ Fields.env = "equal"
    BY DEF Fields, FieldsOf, MonOverviewReq
<1> DEFINE A == Cond("created_at", ">=", <<f.created_at[1]>>) \o Cond("created_at", "<=", <<f.created_at[2]>>)
           B == NonEmpty(f, "env", "=")
<1>2. Fits(A, r, row, {"created_at"})
    BY <1>1, SpanFits
<1>3. Fits(B, r, row, {"env"})
    BY <1>1, TextFits
<1>4. monRangeWhere(f, {}) = A \o B
    BY DEF monRangeWhere, placeholders
<1> HIDE DEF A, B
<1>5. Fits(A \o B, r, row, {"created_at"} \cup {"env"})
    BY <1>2, <1>3, FitsConcat
<1>6. {"created_at"} \cup {"env"} = DOMAIN Fields
    BY <1>1
<1> QED
    BY <1>5, <1>6, <1>4

\* A list without fields shows every row.
LEMMA BlankFits ==
    ASSUME DOMAIN Fields = {}, NEW r, NEW row
    PROVE  Fits(<<>>, r, row, DOMAIN Fields)
BY FitsNothing

\* A list, or one row, by a number that the handler has found to be positive.
LEMMA KeyAsked ==
    ASSUME NEW key, key \in DOMAIN Fields, DOMAIN Fields = {key}, Fields[key] = "key",
           NEW r, IsRequest(list, r), NEW row, IsRow(list, row),
           NEW f, f[key] = r[key], ~(ZeroIfNil(r[key]) <= 0)
    PROVE  Fits(Cond(key, "number", <<f[key]>>), r, row, DOMAIN Fields)
<1>1. r[key] \in Int \cup {Nil}
    BY Typed, SaidIs
<1>2. r[key] # Nil /\ r[key] # 0 /\ f[key] = ZeroIfNil(r[key])
    BY <1>1, NilIsNoValue DEF ZeroIfNil
<1>3. Fits(NonZero(f, key), r, row, {key})
    BY <1>2, NumberFits
<1> QED
    BY <1>2, <1>3 DEF NonZero

\* Conditions followed by those of a period that may be open at either end.
LEMMA PeriodAsked ==
    ASSUME NEW r, IsRequest(list, r), NEW row, IsRow(list, row),
           NEW col \in DOMAIN Fields, Fields[col] = "period", NEW C, NEW cs,
           Fits(C, r, row, cs), NEW A, NEW B,
           A = (IF r[col][1] = Nil THEN <<>> ELSE Cond(col, ">=", <<r[col][1]>>)),
           B = (IF r[col][2] = Nil THEN <<>> ELSE Cond(col, "<=", <<r[col][2]>>))
    PROVE  Fits(C \o A \o B, r, row, cs \cup {col})
<1>1. row[col] \in Int /\ r[col] \in (Int \cup {Nil}) \X (Int \cup {Nil})
    BY Typed, ColumnIs, SaidIs
<1>2. r[col][1] \in Int \cup {Nil} /\ r[col][2] \in Int \cup {Nil}
    BY <1>1
<1>3. IsConds(A, Values) /\ (Sat(A, row) <=> (r[col][1] # Nil => row[col] >= r[col][1]))
  <2>1. CASE r[col][1] = Nil
      BY <2>1, SatNone
  <2>2. CASE r[col][1] # Nil
      BY <1>1, <1>2, <2>2, BoundsAsked
  <2> QED
      BY <2>1, <2>2
<1>4. IsConds(B, Values) /\ (Sat(B, row) <=> (r[col][2] # Nil => row[col] <= r[col][2]))
  <2>1. CASE r[col][2] = Nil
      BY <2>1, SatNone
  <2>2. CASE r[col][2] # Nil
      BY <1>1, <1>2, <2>2, BoundsAsked
  <2> QED
      BY <2>1, <2>2
<1>5. IsConds(C, Values) /\ (Sat(C, row) <=> \A c \in cs : Wants(Fields[c], r[c], row[c]))
    BY DEF Fits
<1>6. IsConds(C \o A, Values) /\ (Sat(C \o A, row) <=> Sat(C, row) /\ Sat(A, row))
    BY <1>3, <1>5, SatConcat
<1>7. /\ IsConds(C \o A \o B, Values)
      /\ Sat(C \o A \o B, row) <=> Sat(C \o A, row) /\ Sat(B, row)
    BY <1>4, <1>6, SatConcat
<1>8. Wants(Fields[col], r[col], row[col]) <=> Sat(A, row) /\ Sat(B, row)
    BY <1>3, <1>4, WantsTime
<1> QED
    BY <1>5, <1>6, <1>7, <1>8 DEF Fits

\* Alerts by five texts and a period (monAlertWhere).
LEMMA AlertsAsked ==
    ASSUME list = "alerts", NEW r, IsRequest(list, r), NEW row, IsRow(list, row),
           NEW f, f.status = r.status, f.project = r.project, f.rule_code = r.rule_code,
           f.level = r.level, f.env = r.env, f.created_at = r.created_at
    PROVE  Fits(monAlertWhere(f), r, row, DOMAIN Fields)
<1>1. /\ DOMAIN Fields = {"status", "project", "rule_code", "level", "env", "created_at"}
      /\ Fields.status = "equal" /\ Fields.project = "equal" /\ Fields.rule_code = "equal"
      /\ Fields.level = "equal" /\ Fields.env = "equal" /\ Fields.created_at = "period"
    BY DEF Fields, FieldsOf, MonAlertListReq
<1> DEFINE C == AllNonEmpty(f, <<"status", "rule_code", "level", "env", "project">>, "=")
<1>2. Fits(C, r, row, {"status", "rule_code", "level", "env", "project"})
  <2>1. PICK q : q = <<"status", "rule_code", "level", "env", "project">>
      OBVIOUS
  <2>2. PICK cs : cs = {"status", "rule_code", "level", "env", "project"}
      OBVIOUS
  <2>3. Len(q) = 5 /\ DOMAIN q = 1..5 /\ 5 \in Nat
      BY <2>1
  <2>4. q[1] = "status" /\ q[2] = "rule_code" /\ q[3] = "level" /\ q[4] = "env" /\
        q[5] = "project"
      BY <2>1
  <2>5. \A i \in 1..5 : i \in {1, 2, 3, 4, 5}
      OBVIOUS
  <2>6. \A i \in 1..5 : q[i] \in cs
      BY <2>2, <2>4, <2>5
  <2>7. \A c \in cs : \E i \in 1..5 : q[i] = c
      BY <2>2, <2>4
  <2>8. cs \subseteq DOMAIN Fields
      BY <1>1, <2>2
  <2>9. /\ Fields.status = "equal" /\ f.status = r.status
        /\ Fields.rule_code = "equal" /\ f.rule_code = r.rule_code
        /\ Fields.level = "equal" /\ f.level = r.level
        /\ Fields.env = "equal" /\ f.env = r.env
        /\ Fields.project = "equal" /\ f.project = r.project
      BY <1>1
  <2>10. \A i \in 1..5 : Fields[q[i]] = "equal" /\ f[q[i]] = r[q[i]]
      BY <2>4, <2>5, <2>9
  <2>11. Fits(AllNonEmpty(f, q, "="), r, row, cs)
      BY <2>3, <2>6, <2>7, <2>8, <2>10, TextsFit
  <2> QED
      BY <2>1, <2>2, <2>11
<1> DEFINE A == IF f.created_at[1] = Nil THEN <<>>
                ELSE Cond("created_at", ">=", <<f.created_at[1]>>)
           B == IF f.created_at[2] = Nil THEN <<>>
                ELSE Cond("created_at", "<=", <<f.created_at[2]>>)
<1>3. monAlertWhere(f) = C \o A \o B
    BY DEF monAlertWhere
<1>4. /\ "created_at" \in DOMAIN Fields /\ Fields["created_at"] = "period"
      /\ f.created_at = r["created_at"]
    BY <1>1
<1>5. /\ A = IF r["created_at"][1] = Nil THEN <<>>
            ELSE Cond("created_at", ">=", <<r["created_at"][1]>>)
      /\ B = IF r["created_at"][2] = Nil THEN <<>>
            ELSE Cond("created_at", "<=", <<r["created_at"][2]>>)
    BY <1>4
<1> HIDE DEF A, B, C
<1>6. Fits(C \o A \o B, r, row,
           {"status", "rule_code", "level", "env", "project"} \cup {"created_at"})
    BY <1>2, <1>4, <1>5, PeriodAsked
<1>7. {"status", "rule_code", "level", "env", "project"} \cup {"created_at"} = DOMAIN Fields
    BY <1>1
<1> QED
    BY <1>3, <1>6, <1>7

-------------------------------------------------------------------------------
(***************************************************************************)
(* The plan of each list with pages: a count and a page over the rows that the *)
(* request wants (internal/handler, internal/service, internal/repository). *)
(***************************************************************************)
\* Every kind of column has a value.
LEMMA ColumnsHaveValues == \A kind : \E x : x \in Column(kind)
<1> SUFFICES ASSUME NEW kind PROVE \E x : x \in Column(kind)
    OBVIOUS
<1>1. <<>> \in Texts /\ 0 \in Int
    BY NilIsNoValue
<1>2. \E s : s \in (SUBSET Texts) \ {Nil}
  <2>1. CASE Nil = {}
    <3>1. Texts \in (SUBSET Texts) \ {Nil}
        BY <1>1, <2>1
    <3> QED
        BY <3>1
  <2>2. CASE Nil # {}
    <3>1. {} \in (SUBSET Texts) \ {Nil}
        BY <2>2
    <3> QED
        BY <3>1
  <2> QED
      BY <2>1, <2>2
<1>3. Column(kind) \in {Texts, (SUBSET Texts) \ {Nil}, Int, Int \cup {Nil}}
    BY DEF Column
<1> QED
    BY <1>1, <1>2, <1>3

\* No field has the name of a column that the lists do not filter by.
LEMMA FieldNames == {"sort_no", "user_id", "joined"} \cap DOMAIN Fields = {}
BY DEF Fields, FieldsOf, NoFields, ProductListReq, OrderListReq, PointsListReq,
       NotificationListReq, TeacherListReq, ResignListReq, DiagnoseListReq,
       AdminUserListReq, MonEventListReq, MonOverviewReq, MonAlertListReq,
       AbModuleListReq, AbModuleItemListReq

\* There are rows.
LEMMA RowExists == \E row : IsRow(list, row)
<1> DEFINE D == DOMAIN Fields
           row == [c \in D \cup {"sort_no", "user_id", "joined"} |->
                     IF c \in D THEN CHOOSE x : x \in Column(Fields[c])
                     ELSE IF c = "joined" THEN TRUE ELSE 0]
<1>1. \A c \in D : row[c] \in Column(Fields[c])
    BY ColumnsHaveValues
<1>2. "sort_no" \notin D /\ "user_id" \notin D /\ "joined" \notin D
    BY FieldNames
<1>3. row.sort_no = 0 /\ row.user_id = 0 /\ row.joined = TRUE
    BY <1>2
<1>4. D \cup {"sort_no", "user_id", "joined"} = DOMAIN row
    OBVIOUS
<1> HIDE DEF row
<1>5. row.sort_no \in Int /\ row.user_id \in Int /\ row.joined \in BOOLEAN /\ row.joined
  <2>1. row.sort_no \in Int /\ row.user_id \in Int
      BY <1>3
  <2>2. row.joined \in BOOLEAN /\ row.joined
      BY <1>3, Zenon
  <2> QED
      BY <2>1, <2>2
<1>6. PICK F : F = FieldsOf(list)
    OBVIOUS
<1>7. /\ DOMAIN F \cup {"sort_no", "user_id", "joined"} \subseteq DOMAIN row
      /\ \A c \in DOMAIN F : row[c] \in Column(F[c])
    BY <1>1, <1>4, <1>6 DEF Fields
<1>8. IsRow(list, row)
    BY <1>5, <1>6, <1>7 DEF IsRow
<1> QED
    BY <1>8

\* Conditions that fit all the fields select the rows wanted.
LEMMA AsksFrom ==
    ASSUME NEW r, NEW C, \A row : IsRow(list, row) => Fits(C, r, row, DOMAIN Fields)
    PROVE  Asks(C, r)
BY RowExists, FitsAll DEF Asks

\* The limit and the offset of a request, beside its other fields.
LEMMA PagedIs ==
    ASSUME NEW r, IsRequest(list, r), NEW f, f.page_index = r.page_index,
           f.page_size = r.page_size, NEW d,
           d = (IF list = "sales" THEN 5 ELSE IF list = "events" THEN 20 ELSE 10),
           NEW g, g = Paged(f, d)
    PROVE  /\ g.limit = PageSize(r) /\ g.offset = Int64(Skipped(r))
           /\ \A c \in DOMAIN f : c \notin {"limit", "offset"} => g[c] = f[c]
<1> DEFINE limits == Limits(f, d)
           page == normalizePage(f, d)
<1>1. DOMAIN limits = {"limit", "offset"}
    BY DEF Limits
<1>2. /\ limits.limit = page.size
      /\ limits.offset = Int64((page.index - 1) * page.size)
    BY DEF Limits
<1>3. page.index = PageIndex(r) /\ page.size = PageSize(r)
  <2>1. r.page_index \in Int /\ r.page_size \in Int
      BY DEF IsRequest
  <2>2. page.index = PageIndex(r)
      BY DEF normalizePage, PageIndex
  <2>3. page.size = IF r.page_size < 1 THEN d
                    ELSE IF r.page_size > 100 THEN 100 ELSE r.page_size
      BY <2>1 DEF normalizePage, maxPageSize
  <2>4. PageSize(r) = IF r.page_size < 1 THEN d
                      ELSE IF r.page_size > 100 THEN 100 ELSE r.page_size
      BY DEF PageSize
  <2> QED
      BY <2>2, <2>3, <2>4
<1> HIDE DEF page, limits
<1>4. g = [c \in DOMAIN f \cup DOMAIN limits |-> IF c \in DOMAIN limits THEN limits[c] ELSE f[c]]
    BY DEF Paged, limits
<1>5. g.limit = limits.limit /\ g.offset = limits.offset
    BY <1>1, <1>4
<1>6. limits.limit = PageSize(r) /\ limits.offset = Int64(Skipped(r))
    BY <1>2, <1>3 DEF Skipped
<1>7. \A c \in DOMAIN f : c \notin {"limit", "offset"} => g[c] = f[c]
    BY <1>1, <1>4
<1> QED
    BY <1>5, <1>6, <1>7

\* The longest range of the event list.
LEMMA SpanOfEvents == list = "events" => Span = EventSpan
BY DEF Span

\* A count and a page of the rows that the request wants.
PlanFits(p, r) ==
    \E C, f : \E joined \in BOOLEAN :
        /\ p = CountAndPage(C, Order, joined, f) /\ (joined <=> list \in {"sales", "items"})
        /\ Asks(C, r)
        /\ f.limit = PageSize(r) /\ f.offset = Int64(Skipped(r))

\* internal/repository/order.go ListOrders.
LEMMA OrdersPlan ==
    ASSUME list = "orders", NEW r, IsRequest(list, r), NEW fuzzy,
           Plan(r, fuzzy) # Refused
    PROVE  PlanFits(Plan(r, fuzzy), r)
<1> DEFINE g == [r EXCEPT !.status = ZeroIfNil(@)]
           f == Paged(g, 10)
           C == orderWhere(f)
<1>1. DOMAIN r = {"order_no", "product_name", "status", "page_index", "page_size"}
    BY DEF IsRequest, FieldsOf, OrderListReq
<1>2. Plan(r, fuzzy) = OrdersList(r)
    BY DEF Plan
<1>3. Plan(r, fuzzy) = CountAndPage(C, "newest", FALSE, f) /\ r.status # 0
  <2>1. Plan(r, fuzzy) = ListOrders(g) /\ r.status # 0
      BY <1>2, NilIsNoValue DEF OrdersList
  <2> QED
      BY <2>1 DEF ListOrders, QueryListOrders, defaultListPageSize
<1>4. /\ g.order_no = r.order_no /\ g.product_name = r.product_name
      /\ g.status = ZeroIfNil(r.status) /\ g.page_index = r.page_index
      /\ g.page_size = r.page_size /\ DOMAIN g = DOMAIN r
    BY <1>1
<1> HIDE DEF g
<1>5. /\ f.limit = PageSize(r) /\ f.offset = Int64(Skipped(r))
      /\ \A c \in DOMAIN g : c \notin {"limit", "offset"} => f[c] = g[c]
    BY <1>4, PagedIs
<1> HIDE DEF f
<1>6. \A c \in DOMAIN r : f[c] = g[c]
    BY <1>1, <1>4, <1>5
<1>7. /\ f.order_no = r.order_no /\ f.product_name = r.product_name
      /\ f.status = ZeroIfNil(r.status)
    BY <1>1, <1>4, <1>6
<1>8. \A row : IsRow(list, row) => Fits(C, r, row, DOMAIN Fields)
    BY <1>3, <1>7, OrdersAsked
<1> HIDE DEF C
<1>9. Asks(C, r)
    BY <1>8, AsksFrom
<1>10. Order = "newest" /\ ~(list \in {"sales", "items"})
    BY DEF Order
<1> QED
    BY <1>3, <1>5, <1>9, <1>10 DEF PlanFits

\* internal/repository/order.go PageListProducts.
LEMMA ProductsPlan ==
    ASSUME list = "products", NEW r, IsRequest(list, r), NEW fuzzy,
           Plan(r, fuzzy) # Refused
    PROVE  PlanFits(Plan(r, fuzzy), r)
<1> DEFINE g == Trimmed(r, {"product_name"})
           f == Paged(g, 10)
           C == NonEmpty(f, "product_name", "like")
<1>1. DOMAIN r = {"product_name", "page_index", "page_size"}
    BY DEF IsRequest, FieldsOf, ProductListReq
<1>2. Plan(r, fuzzy) = ProductList(r)
    BY DEF Plan
<1>3. Plan(r, fuzzy) = CountAndPage(C, "newest", FALSE, f)
    BY <1>2 DEF ProductList, ListManagedProducts, QueryPageListProducts, defaultListPageSize
<1>4. /\ g.product_name = TrimSpace(r.product_name) /\ g.page_index = r.page_index
      /\ g.page_size = r.page_size /\ DOMAIN g = DOMAIN r
    BY <1>1 DEF Trimmed
<1> HIDE DEF g
<1>5. /\ f.limit = PageSize(r) /\ f.offset = Int64(Skipped(r))
      /\ \A c \in DOMAIN g : c \notin {"limit", "offset"} => f[c] = g[c]
    BY <1>4, PagedIs
<1> HIDE DEF f
<1>6. \A c \in DOMAIN r : f[c] = g[c]
    BY <1>1, <1>4, <1>5
<1>7. /\ f.product_name = TrimSpace(r.product_name)
    BY <1>1, <1>4, <1>6
<1>8. \A row : IsRow(list, row) => Fits(C, r, row, DOMAIN Fields)
    BY <1>7, ProductsAsked
<1> HIDE DEF C
<1>9. Asks(C, r)
    BY <1>8, AsksFrom
<1>10. Order = "newest" /\ ~(list \in {"sales", "items"})
    BY DEF Order
<1> QED
    BY <1>3, <1>5, <1>9, <1>10 DEF PlanFits

\* internal/repository/order.go ListPoints.
LEMMA PointsPlan ==
    ASSUME list = "points", NEW r, IsRequest(list, r), NEW fuzzy,
           Plan(r, fuzzy) # Refused
    PROVE  PlanFits(Plan(r, fuzzy), r)
<1> DEFINE g == r
           f == Paged(g, 10)
           C == NonEmpty(f, "order_no", "=")
<1>1. DOMAIN r = {"order_no", "page_index", "page_size"}
    BY DEF IsRequest, FieldsOf, PointsListReq
<1>2. Plan(r, fuzzy) = PointsList(r)
    BY DEF Plan
<1>3. Plan(r, fuzzy) = CountAndPage(C, "newest", FALSE, f)
    BY <1>2 DEF PointsList, ListPoints, QueryListPoints, defaultListPageSize
<1>4. /\ g.order_no = r.order_no /\ g.page_index = r.page_index
      /\ g.page_size = r.page_size /\ DOMAIN g = DOMAIN r
    BY <1>1
<1> HIDE DEF g
<1>5. /\ f.limit = PageSize(r) /\ f.offset = Int64(Skipped(r))
      /\ \A c \in DOMAIN g : c \notin {"limit", "offset"} => f[c] = g[c]
    BY <1>4, PagedIs
<1> HIDE DEF f
<1>6. \A c \in DOMAIN r : f[c] = g[c]
    BY <1>1, <1>4, <1>5
<1>7. /\ f.order_no = r.order_no
    BY <1>1, <1>4, <1>6
<1>8. \A row : IsRow(list, row) => Fits(C, r, row, DOMAIN Fields)
    BY <1>7, PointsAsked
<1> HIDE DEF C
<1>9. Asks(C, r)
    BY <1>8, AsksFrom
<1>10. Order = "newest" /\ ~(list \in {"sales", "items"})
    BY DEF Order
<1> QED
    BY <1>3, <1>5, <1>9, <1>10 DEF PlanFits

\* internal/repository/order.go ListNotifications.
LEMMA NotificationsPlan ==
    ASSUME list = "notifications", NEW r, IsRequest(list, r), NEW fuzzy,
           Plan(r, fuzzy) # Refused
    PROVE  PlanFits(Plan(r, fuzzy), r)
<1> DEFINE g == r
           f == Paged(g, 10)
           C == NonEmpty(f, "title", "like")
<1>1. DOMAIN r = {"title", "page_index", "page_size"}
    BY DEF IsRequest, FieldsOf, NotificationListReq
<1>2. Plan(r, fuzzy) = NotificationsList(r)
    BY DEF Plan
<1>3. Plan(r, fuzzy) = CountAndPage(C, "newest", FALSE, f)
    BY <1>2 DEF NotificationsList, ListNotifications, QueryListNotifications, defaultListPageSize
<1>4. /\ g.title = r.title /\ g.page_index = r.page_index /\ g.page_size = r.page_size
      /\ DOMAIN g = DOMAIN r
    BY <1>1
<1> HIDE DEF g
<1>5. /\ f.limit = PageSize(r) /\ f.offset = Int64(Skipped(r))
      /\ \A c \in DOMAIN g : c \notin {"limit", "offset"} => f[c] = g[c]
    BY <1>4, PagedIs
<1> HIDE DEF f
<1>6. \A c \in DOMAIN r : f[c] = g[c]
    BY <1>1, <1>4, <1>5
<1>7. /\ f.title = r.title
    BY <1>1, <1>4, <1>6
<1>8. \A row : IsRow(list, row) => Fits(C, r, row, DOMAIN Fields)
    BY <1>7, NotificationsAsked
<1> HIDE DEF C
<1>9. Asks(C, r)
    BY <1>8, AsksFrom
<1>10. Order = "newest" /\ ~(list \in {"sales", "items"})
    BY DEF Order
<1> QED
    BY <1>3, <1>5, <1>9, <1>10 DEF PlanFits

\* internal/repository/admin_user.go ListAdminUsers.
LEMMA AdminUsersPlan ==
    ASSUME list = "adminUsers", NEW r, IsRequest(list, r), NEW fuzzy,
           Plan(r, fuzzy) # Refused
    PROVE  PlanFits(Plan(r, fuzzy), r)
<1> DEFINE g == Trimmed(r, {"username"})
           f == Paged(g, 10)
           C == adminUserWhere(f)
<1>1. DOMAIN r = {"username", "page_index", "page_size"}
    BY DEF IsRequest, FieldsOf, AdminUserListReq
<1>2. Plan(r, fuzzy) = AdminUsersList(r)
    BY DEF Plan
<1>3. Plan(r, fuzzy) = CountAndPage(C, "newest", FALSE, f)
    BY <1>2 DEF AdminUsersList, ListAdminUsers, QueryListAdminUsers, defaultListPageSize
<1>4. /\ g.username = TrimSpace(r.username) /\ g.page_index = r.page_index
      /\ g.page_size = r.page_size /\ DOMAIN g = DOMAIN r
    BY <1>1 DEF Trimmed
<1> HIDE DEF g
<1>5. /\ f.limit = PageSize(r) /\ f.offset = Int64(Skipped(r))
      /\ \A c \in DOMAIN g : c \notin {"limit", "offset"} => f[c] = g[c]
    BY <1>4, PagedIs
<1> HIDE DEF f
<1>6. \A c \in DOMAIN r : f[c] = g[c]
    BY <1>1, <1>4, <1>5
<1>7. /\ f.username = TrimSpace(r.username)
    BY <1>1, <1>4, <1>6
<1>8. \A row : IsRow(list, row) => Fits(C, r, row, DOMAIN Fields)
    BY <1>7, AdminUsersAsked
<1> HIDE DEF C
<1>9. Asks(C, r)
    BY <1>8, AsksFrom
<1>10. Order = "newest" /\ ~(list \in {"sales", "items"})
    BY DEF Order
<1> QED
    BY <1>3, <1>5, <1>9, <1>10 DEF PlanFits

\* internal/repository/ab_module.go ListAbModules.
LEMMA ModulesPlan ==
    ASSUME list = "modules", NEW r, IsRequest(list, r), NEW fuzzy,
           Plan(r, fuzzy) # Refused
    PROVE  PlanFits(Plan(r, fuzzy), r)
<1> DEFINE g == Trimmed(r, {"module_key", "module_name"})
           f == Paged(g, 10)
           C == abModuleWhere(f)
<1>1. DOMAIN r = {"module_key", "module_name", "page_index", "page_size"}
    BY DEF IsRequest, FieldsOf, AbModuleListReq
<1>2. Plan(r, fuzzy) = ModuleList(r)
    BY DEF Plan
<1>3. Plan(r, fuzzy) = CountAndPage(C, "sorted", FALSE, f)
    BY <1>2 DEF ModuleList, ListAbModules, QueryListAbModules, defaultListPageSize
<1>4. /\ g.module_key = TrimSpace(r.module_key)
      /\ g.module_name = TrimSpace(r.module_name) /\ g.page_index = r.page_index
      /\ g.page_size = r.page_size /\ DOMAIN g = DOMAIN r
    BY <1>1 DEF Trimmed
<1> HIDE DEF g
<1>5. /\ f.limit = PageSize(r) /\ f.offset = Int64(Skipped(r))
      /\ \A c \in DOMAIN g : c \notin {"limit", "offset"} => f[c] = g[c]
    BY <1>4, PagedIs
<1> HIDE DEF f
<1>6. \A c \in DOMAIN r : f[c] = g[c]
    BY <1>1, <1>4, <1>5
<1>7. /\ f.module_key = TrimSpace(r.module_key)
      /\ f.module_name = TrimSpace(r.module_name)
    BY <1>1, <1>4, <1>6
<1>8. \A row : IsRow(list, row) => Fits(C, r, row, DOMAIN Fields)
    BY <1>7, ModulesAsked
<1> HIDE DEF C
<1>9. Asks(C, r)
    BY <1>8, AsksFrom
<1>10. Order = "sorted" /\ ~(list \in {"sales", "items"})
    BY DEF Order
<1> QED
    BY <1>3, <1>5, <1>9, <1>10 DEF PlanFits

\* internal/repository/ab_module.go ListAbModuleItems.
LEMMA ItemsPlan ==
    ASSUME list = "items", NEW r, IsRequest(list, r), NEW fuzzy,
           Plan(r, fuzzy) # Refused
    PROVE  PlanFits(Plan(r, fuzzy), r)
<1> DEFINE g == Trimmed([r EXCEPT !.module_id = ZeroIfNil(@)], {"item_key"})
           f == Paged(g, 10)
           C == abItemWhere(f)
<1>1. DOMAIN r = {"module_id", "item_key", "page_index", "page_size"}
    BY DEF IsRequest, FieldsOf, AbModuleItemListReq
<1>2. Plan(r, fuzzy) = ItemList(r)
    BY DEF Plan
<1>3. Plan(r, fuzzy) = CountAndPage(C, "sorted", TRUE, f)
    BY <1>2 DEF ItemList, ListAbModuleItems, QueryListAbModuleItems, defaultListPageSize
<1>4. /\ g.module_id = ZeroIfNil(r.module_id) /\ g.item_key = TrimSpace(r.item_key)
      /\ g.page_index = r.page_index /\ g.page_size = r.page_size /\ DOMAIN g = DOMAIN r
    BY <1>1 DEF Trimmed
<1> HIDE DEF g
<1>5. /\ f.limit = PageSize(r) /\ f.offset = Int64(Skipped(r))
      /\ \A c \in DOMAIN g : c \notin {"limit", "offset"} => f[c] = g[c]
    BY <1>4, PagedIs
<1> HIDE DEF f
<1>6. \A c \in DOMAIN r : f[c] = g[c]
    BY <1>1, <1>4, <1>5
<1>7. /\ f.module_id = ZeroIfNil(r.module_id) /\ f.item_key = TrimSpace(r.item_key)
    BY <1>1, <1>4, <1>6
<1>8. \A row : IsRow(list, row) => Fits(C, r, row, DOMAIN Fields)
    BY <1>7, ItemsAsked
<1> HIDE DEF C
<1>9. Asks(C, r)
    BY <1>8, AsksFrom
<1>10. Order = "sorted" /\ (list \in {"sales", "items"})
    BY DEF Order
<1> QED
    BY <1>3, <1>5, <1>9, <1>10 DEF PlanFits

\* internal/repository/resign.go ListResigns.
LEMMA ResignsPlan ==
    ASSUME list = "resigns", NEW r, IsRequest(list, r), NEW fuzzy,
           Plan(r, fuzzy) # Refused
    PROVE  PlanFits(Plan(r, fuzzy), r)
<1> DEFINE g == [r EXCEPT !.original_teacher_dept_id = ZeroIfNil(@)]
           f == Paged(g, 10)
           C == resignWhere(f)
<1>1. DOMAIN r = {"original_teacher_dept_id", "original_teacher_name", "replace_teacher_name",
                    "salesman_name", "transfer_time", "page_index", "page_size"}
    BY DEF IsRequest, FieldsOf, ResignListReq
<1>2. Plan(r, fuzzy) = ResignsList(r)
    BY DEF Plan
<1>3. Plan(r, fuzzy) = CountAndPage(C, "newest", FALSE, f)
    BY <1>2 DEF ResignsList, ListResigns, QueryListResigns, defaultListPageSize
<1>4. /\ g.original_teacher_dept_id = ZeroIfNil(r.original_teacher_dept_id)
      /\ g.original_teacher_name = r.original_teacher_name
      /\ g.replace_teacher_name = r.replace_teacher_name
      /\ g.salesman_name = r.salesman_name /\ g.transfer_time = r.transfer_time
      /\ g.page_index = r.page_index /\ g.page_size = r.page_size /\ DOMAIN g = DOMAIN r
    BY <1>1
<1> HIDE DEF g
<1>5. /\ f.limit = PageSize(r) /\ f.offset = Int64(Skipped(r))
      /\ \A c \in DOMAIN g : c \notin {"limit", "offset"} => f[c] = g[c]
    BY <1>4, PagedIs
<1> HIDE DEF f
<1>6. \A c \in DOMAIN r : f[c] = g[c]
    BY <1>1, <1>4, <1>5
<1>7. /\ f.original_teacher_dept_id = ZeroIfNil(r.original_teacher_dept_id)
      /\ f.original_teacher_name = r.original_teacher_name
      /\ f.replace_teacher_name = r.replace_teacher_name
      /\ f.salesman_name = r.salesman_name /\ f.transfer_time = r.transfer_time
    BY <1>1, <1>4, <1>6
<1>8. \A row : IsRow(list, row) => Fits(C, r, row, DOMAIN Fields)
    BY <1>7, ResignsAsked
<1> HIDE DEF C
<1>9. Asks(C, r)
    BY <1>8, AsksFrom
<1>10. Order = "newest" /\ ~(list \in {"sales", "items"})
    BY DEF Order
<1> QED
    BY <1>3, <1>5, <1>9, <1>10 DEF PlanFits

\* internal/repository/diagnose.go ListDiagnoses.
LEMMA DiagnosesPlan ==
    ASSUME list = "diagnoses", NEW r, IsRequest(list, r), NEW fuzzy,
           Plan(r, fuzzy) # Refused
    PROVE  PlanFits(Plan(r, fuzzy), r)
<1> DEFINE g == r
           f == Paged(g, 10)
           C == diagnoseWhere(f)
<1>1. DOMAIN r = {"id", "user_nick_name", "user_name", "stock_code", "stock_name", "buy_price", "buy_num",
                    "teacher_name", "status", "submit_time", "report_submit_time",
                    "page_index", "page_size"}
    BY DEF IsRequest, FieldsOf, DiagnoseListReq
<1>2. Plan(r, fuzzy) = DiagnosesList(r)
    BY DEF Plan
<1>3. Plan(r, fuzzy) = CountAndPage(C, "newest", FALSE, f)
    BY <1>2 DEF DiagnosesList, ListDiagnoses, QueryListDiagnoses, defaultListPageSize
<1>4. /\ g.id = r.id /\ g.user_nick_name = r.user_nick_name /\ g.user_name = r.user_name
      /\ g.stock_code = r.stock_code /\ g.stock_name = r.stock_name
      /\ g.buy_price = r.buy_price /\ g.buy_num = r.buy_num
      /\ g.teacher_name = r.teacher_name /\ g.status = r.status
      /\ g.submit_time = r.submit_time /\ g.report_submit_time = r.report_submit_time
      /\ g.page_index = r.page_index /\ g.page_size = r.page_size /\ DOMAIN g = DOMAIN r
    BY <1>1
<1> HIDE DEF g
<1>5. /\ f.limit = PageSize(r) /\ f.offset = Int64(Skipped(r))
      /\ \A c \in DOMAIN g : c \notin {"limit", "offset"} => f[c] = g[c]
    BY <1>4, PagedIs
<1> HIDE DEF f
<1>6. \A c \in DOMAIN r : f[c] = g[c]
    BY <1>1, <1>4, <1>5
<1>7. /\ f.id = r.id /\ f.user_nick_name = r.user_nick_name /\ f.user_name = r.user_name
      /\ f.stock_code = r.stock_code /\ f.stock_name = r.stock_name
      /\ f.buy_price = r.buy_price /\ f.buy_num = r.buy_num
      /\ f.teacher_name = r.teacher_name /\ f.status = r.status
      /\ f.submit_time = r.submit_time /\ f.report_submit_time = r.report_submit_time
    BY <1>1, <1>4, <1>6
<1>8. \A row : IsRow(list, row) => Fits(C, r, row, DOMAIN Fields)
    BY <1>7, DiagnosesAsked
<1> HIDE DEF C
<1>9. Asks(C, r)
    BY <1>8, AsksFrom
<1>10. Order = "newest" /\ ~(list \in {"sales", "items"})
    BY DEF Order
<1> QED
    BY <1>3, <1>5, <1>9, <1>10 DEF PlanFits

\* internal/repository/mon_alert.go ListMonAlerts.
LEMMA AlertsPlan ==
    ASSUME list = "alerts", NEW r, IsRequest(list, r), NEW fuzzy,
           Plan(r, fuzzy) # Refused
    PROVE  PlanFits(Plan(r, fuzzy), r)
<1> DEFINE g == r
           f == Paged(g, 10)
           C == monAlertWhere(f)
<1>1. DOMAIN r = {"status", "project", "rule_code", "level", "env", "created_at", "page_index", "page_size"}
    BY DEF IsRequest, FieldsOf, MonAlertListReq
<1>2. Plan(r, fuzzy) = AlertList(r)
    BY DEF Plan
<1>3. Plan(r, fuzzy) = CountAndPage(C, "newest", FALSE, f)
    BY <1>2 DEF AlertList, ListMonAlerts, QueryListMonAlerts, defaultListPageSize
<1>4. /\ g.status = r.status /\ g.project = r.project /\ g.rule_code = r.rule_code
      /\ g.level = r.level /\ g.env = r.env /\ g.created_at = r.created_at
      /\ g.page_index = r.page_index /\ g.page_size = r.page_size /\ DOMAIN g = DOMAIN r
    BY <1>1
<1> HIDE DEF g
<1>5. /\ f.limit = PageSize(r) /\ f.offset = Int64(Skipped(r))
      /\ \A c \in DOMAIN g : c \notin {"limit", "offset"} => f[c] = g[c]
    BY <1>4, PagedIs
<1> HIDE DEF f
<1>6. \A c \in DOMAIN r : f[c] = g[c]
    BY <1>1, <1>4, <1>5
<1>7. /\ f.status = r.status /\ f.project = r.project /\ f.rule_code = r.rule_code
      /\ f.level = r.level /\ f.env = r.env /\ f.created_at = r.created_at
    BY <1>1, <1>4, <1>6
<1>8. \A row : IsRow(list, row) => Fits(C, r, row, DOMAIN Fields)
    BY <1>7, AlertsAsked
<1> HIDE DEF C
<1>9. Asks(C, r)
    BY <1>8, AsksFrom
<1>10. Order = "newest" /\ ~(list \in {"sales", "items"})
    BY DEF Order
<1> QED
    BY <1>3, <1>5, <1>9, <1>10 DEF PlanFits

\* internal/repository/teacher.go ListTeachers.
LEMMA TeachersPlan ==
    ASSUME list = "teachers", NEW r, IsRequest(list, r), NEW fuzzy \in SetToSeqs({col \in teacherFuzzy : r[col] # <<>>}),
           Plan(r, fuzzy) # Refused
    PROVE  PlanFits(Plan(r, fuzzy), r)
<1> DEFINE g == [r EXCEPT !.dept_id = ZeroIfNil(@), !.id = ZeroIfNil(@),
                        !.status = IF @ = -1 THEN Nil ELSE @]
           f == Paged(g, 10)
           C == teacherWhere(f, fuzzy)
<1>1. DOMAIN r = {"dept_id", "id", "account", "nickname", "name", "title", "qualification",
                    "bind_sales_count", "status", "update_by", "updated_at", "page_index",
                    "page_size"}
    BY DEF IsRequest, FieldsOf, TeacherListReq
<1>2. Plan(r, fuzzy) = TeachersList(r, fuzzy)
    BY DEF Plan
<1>3. Plan(r, fuzzy) = CountAndPage(C, "oldest", FALSE, f)
    BY <1>2 DEF TeachersList, ListTeachers, QueryListTeachers, defaultListPageSize
<1>4. /\ g.dept_id = ZeroIfNil(r.dept_id) /\ g.id = ZeroIfNil(r.id)
      /\ g.account = r.account /\ g.nickname = r.nickname /\ g.name = r.name
      /\ g.title = r.title /\ g.qualification = r.qualification
      /\ g.bind_sales_count = r.bind_sales_count
      /\ g.status = (IF r.status = -1 THEN Nil ELSE r.status) /\ g.update_by = r.update_by
      /\ g.updated_at = r.updated_at /\ g.page_index = r.page_index
      /\ g.page_size = r.page_size /\ DOMAIN g = DOMAIN r
    BY <1>1
<1> HIDE DEF g
<1>5. /\ f.limit = PageSize(r) /\ f.offset = Int64(Skipped(r))
      /\ \A c \in DOMAIN g : c \notin {"limit", "offset"} => f[c] = g[c]
    BY <1>4, PagedIs
<1> HIDE DEF f
<1>6. \A c \in DOMAIN r : f[c] = g[c]
    BY <1>1, <1>4, <1>5
<1>7. /\ f.dept_id = ZeroIfNil(r.dept_id) /\ f.id = ZeroIfNil(r.id)
      /\ f.account = r.account /\ f.nickname = r.nickname /\ f.name = r.name
      /\ f.title = r.title /\ f.qualification = r.qualification
      /\ f.bind_sales_count = r.bind_sales_count
      /\ f.status = (IF r.status = -1 THEN Nil ELSE r.status) /\ f.update_by = r.update_by
      /\ f.updated_at = r.updated_at
    BY <1>1, <1>4, <1>6
<1>8. \A row : IsRow(list, row) => Fits(C, r, row, DOMAIN Fields)
    BY <1>7, TeachersAsked
<1> HIDE DEF C
<1>9. Asks(C, r)
    BY <1>8, AsksFrom
<1>10. Order = "oldest" /\ ~(list \in {"sales", "items"})
    BY DEF Order
<1> QED
    BY <1>3, <1>5, <1>9, <1>10 DEF PlanFits

\* internal/repository/teacher.go ListTeacherSalesByTeacher.
LEMMA SalesPlan ==
    ASSUME list = "sales", NEW r, IsRequest(list, r), NEW fuzzy,
           Plan(r, fuzzy) # Refused
    PROVE  PlanFits(Plan(r, fuzzy), r)
<1> DEFINE g == r
           f == Paged(g, 5)
           C == Cond("teacher_id", "number", <<f.teacher_id>>)
<1>1. DOMAIN r = {"teacher_id", "page_index", "page_size"}
    BY DEF IsRequest, FieldsOf
<1>2. Plan(r, fuzzy) = SalesList(r)
    BY DEF Plan
<1>3. Plan(r, fuzzy) = CountAndPage(C, "oldest", TRUE, f) /\ ~(ZeroIfNil(r.teacher_id) <= 0)
    BY <1>2, NilIsNoValue DEF SalesList, ListTeacherSales, QueryListTeacherSalesByTeacher, defaultSalesPageSize
<1>4. /\ g.teacher_id = r.teacher_id /\ g.page_index = r.page_index
      /\ g.page_size = r.page_size /\ DOMAIN g = DOMAIN r
    BY <1>1
<1> HIDE DEF g
<1>5. /\ f.limit = PageSize(r) /\ f.offset = Int64(Skipped(r))
      /\ \A c \in DOMAIN g : c \notin {"limit", "offset"} => f[c] = g[c]
    BY <1>4, PagedIs
<1> HIDE DEF f
<1>6. \A c \in DOMAIN r : f[c] = g[c]
    BY <1>1, <1>4, <1>5
<1>7. /\ f.teacher_id = r.teacher_id
    BY <1>1, <1>4, <1>6
<1>8. \A row : IsRow(list, row) => Fits(C, r, row, DOMAIN Fields)
    BY <1>3, <1>7, KeyAsked DEF Fields, FieldsOf
<1> HIDE DEF C
<1>9. Asks(C, r)
    BY <1>8, AsksFrom
<1>10. Order = "oldest" /\ (list \in {"sales", "items"})
    BY DEF Order
<1> QED
    BY <1>3, <1>5, <1>9, <1>10 DEF PlanFits

\* internal/repository/mon_event.go ListMonEvents.
LEMMA EventsPlan ==
    ASSUME list = "events", NEW r, IsRequest(list, r), NEW fuzzy,
           Plan(r, fuzzy) # Refused
    PROVE  PlanFits(Plan(r, fuzzy), r)
<1> DEFINE h == [r EXCEPT !.chrome_ver = ZeroIfNil(@), !.cap_syntax = ZeroIfNil(@)]
           range == normalizeMonRange(h.created_at, EventSpan)
           g == [h EXCEPT !.created_at = range]
           f == Paged(g, 20)
           C == monEventWhere(f)
<1>1. DOMAIN r = {"project", "created_at", "event_type", "env", "ver", "chrome_ver", "session_id",
                    "device_model", "capbad", "cap_syntax", "route", "msg", "src",
                    "page_index", "page_size"}
    BY DEF IsRequest, FieldsOf, MonEventListReq
<1>2. Plan(r, fuzzy) = EventList(r)
    BY DEF Plan
<1>3. Plan(r, fuzzy) = CountAndPage(C, "newest", FALSE, f) /\ range # Refused
  <2>1. Plan(r, fuzzy) = ListMonEvents(h)
      BY <1>2 DEF EventList
  <2> HIDE DEF h
  <2>2. range # Refused /\ Plan(r, fuzzy) = QueryListMonEvents(Paged(g, defaultEventPageSize))
      BY <2>1 DEF ListMonEvents
  <2> QED
      BY <2>2 DEF QueryListMonEvents, defaultEventPageSize
<1>4. /\ g.project = r.project
      /\ g.created_at = normalizeMonRange(r.created_at, EventSpan)
      /\ g.event_type = r.event_type /\ g.env = r.env /\ g.ver = r.ver
      /\ g.chrome_ver = ZeroIfNil(r.chrome_ver) /\ g.session_id = r.session_id
      /\ g.device_model = r.device_model /\ g.capbad = r.capbad
      /\ g.cap_syntax = ZeroIfNil(r.cap_syntax) /\ g.route = r.route /\ g.msg = r.msg
      /\ g.src = r.src /\ g.page_index = r.page_index /\ g.page_size = r.page_size
      /\ DOMAIN g = DOMAIN r /\ g.created_at = range
    BY <1>1
<1> HIDE DEF g, range, h
<1>5. /\ f.limit = PageSize(r) /\ f.offset = Int64(Skipped(r))
      /\ \A c \in DOMAIN g : c \notin {"limit", "offset"} => f[c] = g[c]
    BY <1>4, PagedIs
<1> HIDE DEF f
<1>6. \A c \in DOMAIN r : f[c] = g[c]
    BY <1>1, <1>4, <1>5
<1>7. /\ f.project = r.project
      /\ f.created_at = normalizeMonRange(r.created_at, EventSpan)
      /\ f.event_type = r.event_type /\ f.env = r.env /\ f.ver = r.ver
      /\ f.chrome_ver = ZeroIfNil(r.chrome_ver) /\ f.session_id = r.session_id
      /\ f.device_model = r.device_model /\ f.capbad = r.capbad
      /\ f.cap_syntax = ZeroIfNil(r.cap_syntax) /\ f.route = r.route /\ f.msg = r.msg
      /\ f.src = r.src
    BY <1>1, <1>4, <1>6
<1>8. \A row : IsRow(list, row) => Fits(C, r, row, DOMAIN Fields)
  <2>1. f.created_at = normalizeMonRange(r.created_at, Span)
      BY <1>7, SpanOfEvents
  <2>2. f.created_at # Refused
      BY <1>1, <1>3, <1>4, <1>6
  <2> QED
      BY <1>7, <2>1, <2>2, EventsAsked
<1> HIDE DEF C
<1>9. Asks(C, r)
    BY <1>8, AsksFrom
<1>10. Order = "newest" /\ ~(list \in {"sales", "items"})
    BY DEF Order
<1> QED
    BY <1>3, <1>5, <1>9, <1>10 DEF PlanFits

-------------------------------------------------------------------------------
(***************************************************************************)
(* What MySQL makes of these statements.                                   *)
(***************************************************************************)
\* A statement selects the rows that satisfy its conditions.
LEMMA SelectsIs ==
    ASSUME NEW C, IsConds(C, Values), NEW more \in Seq(Values), NEW shape, NEW order,
           NEW joined, NEW st, st = Statement(shape, C, order, joined, more), NEW row
    PROVE  Selects(st, row) <=> Sat(C, row)
<1>1. /\ DOMAIN st.conds = DOMAIN C
      /\ \A i \in DOMAIN C :
           /\ st.conds[i].col = C[i].col /\ st.conds[i].op = C[i].op
           /\ SubSeq(st.args, Marks(st, i - 1) + 1, Marks(st, i)) = C[i].args
    BY Binding
<1> QED
    BY <1>1 DEF Selects, Sat

\* A statement whose conditions ask for what the request wants finds it.
LEMMA FoundIs ==
    ASSUME NEW r, NEW C, Asks(C, r), NEW more \in Seq(Values), NEW shape, NEW order,
           NEW joined, NEW st, st = Statement(shape, C, order, joined, more),
           NEW rows, IsTable(list, rows)
    PROVE  Found(st, rows) = Wanted(r, rows)
<1>1. \A id \in DOMAIN rows : IsRow(list, rows[id])
    BY DEF IsTable
<1>2. IsConds(C, Values) /\ \A id \in DOMAIN rows : Sat(C, rows[id]) <=> Matching(r, rows[id])
    BY <1>1 DEF Asks
<1>3. \A id \in DOMAIN rows : Selects(st, rows[id]) <=> Matching(r, rows[id])
    BY <1>2, SelectsIs
<1> QED
    BY <1>3 DEF Found, Wanted, Matching

\* No arguments besides those of the conditions.
LEMMA NoMore == <<>> \in Seq(Values)
BY EmptySeq

\* The total is the number of rows wanted.
LEMMA CountIs ==
    ASSUME NEW r, NEW C, Asks(C, r), NEW rows, IsTable(list, rows)
    PROVE  Result(Statement("count", C, "none", FALSE, <<>>), rows)
             = <<Cardinality(Wanted(r, rows))>>
<1>1. PICK st : st = Statement("count", C, "none", FALSE, <<>>)
    OBVIOUS
<1>2. Found(st, rows) = Wanted(r, rows)
  <2>1. PICK more : more = <<>>
      OBVIOUS
  <2>2. PICK joined : joined = FALSE
      OBVIOUS
  <2>3. PICK shape, order : shape = "count" /\ order = "none"
      OBVIOUS
  <2>4. more \in Seq(Values) /\ st = Statement(shape, C, order, joined, more)
      BY <1>1, <2>1, <2>2, <2>3, NoMore
  <2> QED
      BY <2>4, FoundIs
<1>3. st.shape = "count"
    BY <1>1 DEF Statement
<1>4. Result(st, rows) = <<Cardinality(Found(st, rows))>>
    BY <1>3 DEF Result
<1> QED
    BY <1>1, <1>2, <1>4

\* Pages have 1 to 100 rows and count from 1.
LEMMA PageSizeIs ==
    ASSUME NEW r, IsRequest(list, r)
    PROVE  /\ PageSize(r) \in 1..100 /\ PageIndex(r) \in Nat \ {0} /\ Skipped(r) \in Nat
           /\ Skipped(r) = (PageIndex(r) - 1) * PageSize(r)
           /\ PageIndex(r) * PageSize(r) = Skipped(r) + PageSize(r)
<1>1. r.page_index \in Int /\ r.page_size \in Int
    BY DEF IsRequest
<1>2. PageSize(r) \in 1..100 /\ PageIndex(r) \in Nat \ {0}
    BY <1>1 DEF PageSize, PageIndex
<1>3. PICK n \in Nat, s \in Nat : PageIndex(r) = n + 1 /\ PageSize(r) = s
  <2>1. PageIndex(r) - 1 \in Nat /\ PageIndex(r) = (PageIndex(r) - 1) + 1
      BY <1>2
  <2> QED
      BY <1>2, <2>1
<1>4. n * s \in Nat /\ (n + 1) * s = n * s + s /\ (n + 1) - 1 = n
    OBVIOUS
<1> QED
    BY <1>2, <1>3, <1>4 DEF Skipped

\* An int that wraps round is an int.
LEMMA Int64IsInt == \A n \in Int : Int64(n) \in Int
<1> SUFFICES ASSUME NEW n \in Int PROVE Int64(n) \in Int
    OBVIOUS
<1>1. PICK m \in Nat : m = MaxInt
    BY QueriesAssumption
<1>2. PICK d \in Nat \ {0} : d = 2 * (m + 1)
    OBVIOUS
<1>3. PICK x \in Int : x = n + m + 1
    OBVIOUS
<1>4. x % d \in Int
    OBVIOUS
<1> QED
    BY <1>1, <1>2, <1>3, <1>4 DEF Int64

\* LIMIT and OFFSET get the last two arguments.
LEMMA LimitsAre ==
    ASSUME NEW C, IsConds(C, Values), NEW l \in Int, NEW o \in Int, NEW shape, NEW order,
           NEW joined, NEW st, st = Statement(shape, C, order, joined, <<l, o>>)
    PROVE  /\ LimitOf(st) = l /\ OffsetOf(st) = o
           /\ st.shape = shape /\ st.order = order /\ st.joined = joined
<1>1. PICK more : more = <<l, o>>
    OBVIOUS
<1>2. <<l, o>> \in Seq(Values) /\ Len(<<l, o>>) = 2
    BY DEF Values
<1>3. more \in Seq(Values) /\ Len(more) = 2 /\ more[1] = l /\ more[2] = o
    BY <1>1, <1>2
<1>4. st = Statement(shape, C, order, joined, more)
    BY <1>1
<1>5. /\ Len(st.conds) = Len(C) /\ Behind(st, Len(C), more)
      /\ st.shape = shape /\ st.order = order /\ st.joined = joined
    BY <1>3, <1>4, Binding
<1>6. 1 \in 1..Len(more) /\ 2 \in 1..Len(more)
    BY <1>3
<1> QED
    BY <1>3, <1>5, <1>6 DEF LimitOf, OffsetOf, Behind

\* The l entries of q that follow the first o.
Window(q, o, l) == SubSeq(q, o + 1, Min({Len(q), o + l}))

\* The page is as the request says, on any table.
LEMMA PageResultIs ==
    ASSUME NEW r, NEW C, Asks(C, r), NEW rows, IsTable(list, rows),
           NEW l \in Int, NEW o \in Int, NEW joined, NEW st,
           st = Statement("page", C, Order, joined, <<l, o>>),
           st.joined <=> list \in {"sales", "items"}
    PROVE  /\ LimitOf(st) = l /\ OffsetOf(st) = o /\ st.shape = "page"
           /\ Result(st, rows) = Window(InOrder(r, rows), o, l)
<1>0. PICK shape, order : shape = "page" /\ order = Order
    OBVIOUS
<1>1. st = Statement(shape, C, order, joined, <<l, o>>) /\ IsConds(C, Values)
    BY <1>0 DEF Asks
<1>2. /\ LimitOf(st) = l /\ OffsetOf(st) = o
      /\ st.shape = "page" /\ st.order = Order /\ st.joined = joined
    BY <1>0, <1>1, LimitsAre
<1>3. PICK more : more = <<l, o>>
    OBVIOUS
<1>4. more \in Seq(Values) /\ st = Statement(shape, C, order, joined, more)
  <2>1. <<l, o>> \in Seq(Values)
      BY DEF Values
  <2> QED
      BY <1>1, <1>3, <2>1
<1>5. Found(st, rows) = Wanted(r, rows)
    BY <1>4, FoundIs
<1>6. Listed(st, rows) = {id \in Wanted(r, rows) : rows[id].joined}
  <2>1. \A id \in DOMAIN rows : list \notin {"sales", "items"} => rows[id].joined
      BY DEF IsTable, IsRow
  <2>2. \A id \in DOMAIN rows : (st.joined => rows[id].joined) <=> rows[id].joined
      BY <1>2, <2>1
  <2>3. \A id \in Wanted(r, rows) : id \in DOMAIN rows
      BY DEF Wanted
  <2> QED
      BY <1>5, <2>2, <2>3 DEF Listed
<1>7. PageOf(st, rows) = Window(InOrder(r, rows), o, l)
    BY <1>2, <1>6 DEF PageOf, InOrder, Window
<1> QED
    BY <1>2, <1>7 DEF Result

-------------------------------------------------------------------------------
(***************************************************************************)
(* The order of a statement.                                               *)
(***************************************************************************)
\* Rows that the order of a statement can compare.
Comparable(order, rows, ids) ==
    /\ IsFiniteSet(ids) /\ ids \subseteq Int
    /\ order = "sorted" => \A x \in ids : rows[x].sort_no \in Int

\* The order of the statement is strict and total: no two rows are level.
LEMMA BeforeIsStrict ==
    ASSUME NEW order, NEW rows, NEW ids, Comparable(order, rows, ids)
    PROVE  /\ \A x \in ids : ~Before(order, rows, x, x)
           /\ \A x, y \in ids : x # y => \/ Before(order, rows, x, y)
                                         \/ Before(order, rows, y, x)
           /\ \A x, y, z \in ids : Before(order, rows, x, y) /\ Before(order, rows, y, z)
                                     => Before(order, rows, x, z)
<1>1. CASE order = "newest"
    BY <1>1 DEF Comparable, Before
<1>2. CASE order = "sorted"
    BY <1>2 DEF Comparable, Before
<1>3. CASE order # "newest" /\ order # "sorted"
    BY <1>3 DEF Comparable, Before
<1> QED
    BY <1>1, <1>2, <1>3

\* So the rank of a row is a place of its own.
LEMMA RankIs ==
    ASSUME NEW order, NEW rows, NEW ids, Comparable(order, rows, ids),
           NEW n \in Nat, n = Cardinality(ids)
    PROVE  /\ \A x \in ids : Rank(order, rows, ids, x) \in 0..(n - 1)
           /\ \A x, y \in ids : Before(order, rows, x, y) =>
                 Rank(order, rows, ids, x) < Rank(order, rows, ids, y)
           /\ \A x, y \in ids : Rank(order, rows, ids, x) = Rank(order, rows, ids, y)
                 => x = y
<1> DEFINE Ahead(x) == {y \in ids : Before(order, rows, y, x)}
<1>1. IsFiniteSet(ids)
    BY DEF Comparable
<1>2. \A x \in ids : Rank(order, rows, ids, x) = Cardinality(Ahead(x))
    BY DEF Rank
<1>3. \A x \in ids : Ahead(x) \subseteq ids /\ x \notin Ahead(x)
    BY BeforeIsStrict
<1>4. \A x, y \in ids : Before(order, rows, x, y) =>
         Ahead(x) \subseteq Ahead(y) /\ x \in Ahead(y)
    BY BeforeIsStrict
<1> HIDE DEF Ahead
<1>5. ASSUME NEW x \in ids
      PROVE  IsFiniteSet(Ahead(x)) /\ Cardinality(Ahead(x)) \in 0..(n - 1)
  <2>1. /\ IsFiniteSet(Ahead(x)) /\ Cardinality(Ahead(x)) <= Cardinality(ids)
        /\ Cardinality(Ahead(x)) = Cardinality(ids) => Ahead(x) = ids
      BY <1>1, <1>3, FS_Subset
  <2>2. Cardinality(Ahead(x)) \in Nat
      BY <2>1, FS_CardinalityType
  <2> QED
      BY <1>3, <2>1, <2>2
<1>6. ASSUME NEW x \in ids, NEW y \in ids, Before(order, rows, x, y)
      PROVE  Cardinality(Ahead(x)) < Cardinality(Ahead(y))
  <2>1. /\ Cardinality(Ahead(x)) <= Cardinality(Ahead(y))
        /\ Cardinality(Ahead(x)) = Cardinality(Ahead(y)) => Ahead(x) = Ahead(y)
      BY <1>4, <1>5, <1>6, FS_Subset
  <2>2. Ahead(x) # Ahead(y)
      BY <1>3, <1>4, <1>6
  <2> QED
      BY <1>5, <2>1, <2>2
<1>7. ASSUME NEW x \in ids, NEW y \in ids, Cardinality(Ahead(x)) = Cardinality(Ahead(y))
      PROVE  x = y
  <2>1. ~Before(order, rows, x, y) /\ ~Before(order, rows, y, x)
      BY <1>5, <1>6, <1>7
  <2> QED
      BY <2>1, BeforeIsStrict
<1> QED
    BY <1>2, <1>5, <1>6, <1>7

\* q has each of the ids once, in the order.
Sorted(q, order, rows, ids) ==
    \E n \in Nat :
        /\ n = Cardinality(ids) /\ Len(q) = n /\ q \in [1..n -> ids]
        /\ \A x \in ids : \E i \in 1..n : q[i] = x
        /\ \A i, j \in 1..n : q[i] = q[j] => i = j
        /\ \A i, j \in 1..n : i < j <=> Before(order, rows, q[i], q[j])

\* Every row has its place, and only one.
LEMMA OrderedIs ==
    ASSUME NEW order, NEW rows, NEW ids, Comparable(order, rows, ids), NEW q,
           q = Ordered(order, rows, ids)
    PROVE  Sorted(q, order, rows, ids)
<1>1. PICK n \in Nat : n = Cardinality(ids)
    BY FS_CardinalityType DEF Comparable
<1> DEFINE R(x) == Rank(order, rows, ids, x)
<1>2. /\ \A x \in ids : R(x) \in 0..(n - 1)
      /\ \A x, y \in ids : Before(order, rows, x, y) => R(x) < R(y)
      /\ \A x, y \in ids : R(x) = R(y) => x = y
    BY <1>1, RankIs
<1>3. q = [i \in 1..n |-> CHOOSE x \in ids : R(x) = i - 1]
    BY <1>1 DEF Ordered
<1> HIDE DEF R
<1>4. \A k \in 0..(n - 1) : \E x \in ids : R(x) = k
  <2> DEFINE T == 0..(n - 1)
             f == [x \in ids |-> R(x)]
  <2>1. IsFiniteSet(T) /\ Cardinality(T) = n
      BY FS_Interval
  <2>0. IsFiniteSet(ids) /\ Cardinality(ids) = Cardinality(T)
      BY <1>1, <2>1 DEF Comparable
  <2>2. f \in [ids -> T] /\ \A x, y \in ids : f[x] = f[y] => x = y
      BY <1>2
  <2>3. \A k \in T : \E x \in ids : f[x] = k
    <3> HIDE DEF T, f
    <3> QED
        BY <2>0, <2>1, <2>2, InjectiveIsOnto
  <2> QED
      BY <2>3
<1>5. \A i \in 1..n : q[i] \in ids /\ R(q[i]) = i - 1
  <2> SUFFICES ASSUME NEW i \in 1..n PROVE q[i] \in ids /\ R(q[i]) = i - 1
      OBVIOUS
  <2>1. \E x \in ids : R(x) = i - 1
      BY <1>4
  <2> QED
      BY <1>3, <2>1
<1>6. q \in [1..n -> ids]
    BY <1>3, <1>5
<1>7. Len(q) = n
    BY <1>6, ListIs
<1>8. ASSUME NEW x \in ids PROVE \E i \in 1..n : q[i] = x
  <2>1. R(x) + 1 \in 1..n /\ (R(x) + 1) - 1 = R(x)
      BY <1>2
  <2> QED
      BY <1>2, <1>5, <2>1
<1>9. \A i, j \in 1..n : q[i] = q[j] => i = j
    BY <1>5
<1>10. ASSUME NEW i \in 1..n, NEW j \in 1..n
       PROVE  i < j <=> Before(order, rows, q[i], q[j])
  <2>1. R(q[i]) = i - 1 /\ R(q[j]) = j - 1 /\ q[i] \in ids /\ q[j] \in ids
      BY <1>5
  <2>2. i = j => ~Before(order, rows, q[i], q[j])
      BY <2>1, BeforeIsStrict
  <2>3. i # j => Before(order, rows, q[i], q[j]) \/ Before(order, rows, q[j], q[i])
      BY <1>9, <2>1, BeforeIsStrict
  <2>4. /\ Before(order, rows, q[i], q[j]) => R(q[i]) < R(q[j])
        /\ Before(order, rows, q[j], q[i]) => R(q[j]) < R(q[i])
      BY <1>2, <2>1
  <2> QED
      BY <2>1, <2>2, <2>3, <2>4
<1> QED
    BY <1>1, <1>6, <1>7, <1>8, <1>9, <1>10 DEF Sorted

-------------------------------------------------------------------------------
(***************************************************************************)
(* The pages are what was due.                                             *)
(***************************************************************************)
\* The statements of a request that was not refused.
Planned(r, p) ==
    /\ IsRequest(list, r)
    /\ \E fuzzy \in MapOrders(r) : p = Plan(r, fuzzy)
    /\ p # Refused

\* A list as functions on 1..n are.
IsList(q) == \E n \in Nat : q = [i \in 1..n |-> q[i]]

\* Every list with pages has a plan that fits its request.
LEMMA PagedPlans ==
    ASSUME list \in Pagers, NEW r, NEW p, Planned(r, p)
    PROVE  PlanFits(p, r)
<1>1. PICK fuzzy \in MapOrders(r) : p = Plan(r, fuzzy)
    BY DEF Planned
<1>2. IsRequest(list, r) /\ Plan(r, fuzzy) # Refused
    BY <1>1 DEF Planned
<1>3. list = "teachers" => fuzzy \in SetToSeqs({col \in teacherFuzzy : r[col] # <<>>})
  <2>1. r # Malformed
      BY <1>2 DEF Plan
  <2> QED
      BY <1>1, <2>1 DEF MapOrders
<1>4. PlanFits(Plan(r, fuzzy), r)
  <2>1. CASE list \in {"products", "orders", "points", "notifications"}
      BY <1>2, <2>1, ProductsPlan, OrdersPlan, PointsPlan, NotificationsPlan
  <2>2. CASE list \in {"teachers", "sales", "resigns", "diagnoses"}
      BY <1>2, <1>3, <2>2, TeachersPlan, SalesPlan, ResignsPlan, DiagnosesPlan
  <2>3. CASE list \in {"adminUsers", "events", "alerts", "modules", "items"}
      BY <1>2, <2>3, AdminUsersPlan, EventsPlan, AlertsPlan, ModulesPlan, ItemsPlan
  <2> QED
      BY <2>1, <2>2, <2>3 DEF Pagers
<1> QED
    BY <1>1, <1>4

\* The count, and the page with its limits, as the request wants them.
LEMMA PagesAre ==
    ASSUME NEW r, IsRequest(list, r), NEW p, PlanFits(p, r)
    PROVE  \E o \in Int :
             /\ o = Int64(Skipped(r)) /\ Len(p) = 2 /\ p # <<>>
             /\ p[1].shape = "count" /\ p[2].shape = "page"
             /\ LimitOf(p[2]) = PageSize(r) /\ OffsetOf(p[2]) = o
             /\ \A rows : IsTable(list, rows) =>
                  /\ Result(p[1], rows) = <<Cardinality(Wanted(r, rows))>>
                  /\ Result(p[2], rows) = Window(InOrder(r, rows), o, PageSize(r))
<1>0. PICK C, f : \E j \in BOOLEAN :
        /\ p = CountAndPage(C, Order, j, f) /\ (j <=> list \in {"sales", "items"})
        /\ Asks(C, r)
        /\ f.limit = PageSize(r) /\ f.offset = Int64(Skipped(r))
    BY DEF PlanFits
<1>1. PICK j \in BOOLEAN :
        /\ p = CountAndPage(C, Order, j, f) /\ (j <=> list \in {"sales", "items"})
        /\ Asks(C, r)
        /\ f.limit = PageSize(r) /\ f.offset = Int64(Skipped(r))
    BY <1>0
<1>2. PICK l \in Int : l = PageSize(r)
    BY PageSizeIs
<1>3. PICK o \in Int : o = Int64(Skipped(r))
    BY PageSizeIs, Int64IsInt
<1>4. PICK first : first = Statement("count", C, "none", FALSE, <<>>)
    OBVIOUS
<1>5. PICK second : second = Statement("page", C, Order, j, <<l, o>>)
    OBVIOUS
<1>6. p = <<first, second>>
    BY <1>1, <1>2, <1>3, <1>4, <1>5 DEF CountAndPage
<1>7. Len(p) = 2 /\ p[1] = first /\ p[2] = second /\ p # <<>>
    BY <1>6
<1>8. first.shape = "count" /\ second.shape = "page"
    BY <1>4, <1>5 DEF Statement
<1>9. ASSUME NEW rows, IsTable(list, rows)
      PROVE  Result(first, rows) = <<Cardinality(Wanted(r, rows))>>
    BY <1>1, <1>4, <1>9, CountIs
<1>10. ASSUME NEW rows, IsTable(list, rows)
       PROVE  Result(second, rows) = Window(InOrder(r, rows), o, l)
  <2>1. Asks(C, r)
      BY <1>1
  <2>2. second.joined = j
      BY <1>5 DEF Statement
  <2>3. second.joined <=> list \in {"sales", "items"}
      BY <1>1, <2>2
  <2>4. PICK joined : joined = j
      OBVIOUS
  <2>5. second = Statement("page", C, Order, joined, <<l, o>>)
      BY <1>5, <2>4
  <2> QED
      BY <1>10, <2>1, <2>3, <2>5, PageResultIs
<1>11. LimitOf(second) = l /\ OffsetOf(second) = o
    BY <1>1, <1>5, LimitsAre DEF Asks
<1> QED
    BY <1>2, <1>3, <1>7, <1>8, <1>9, <1>10, <1>11

\* The rows wanted are finitely many of the table's.
LEMMA WantedIs ==
    ASSUME NEW r, NEW rows, IsTable(list, rows)
    PROVE  /\ Wanted(r, rows) \subseteq DOMAIN rows
           /\ IsFiniteSet(Wanted(r, rows)) /\ Cardinality(Wanted(r, rows)) \in Nat
<1>1. Wanted(r, rows) \subseteq DOMAIN rows /\ IsFiniteSet(DOMAIN rows)
    BY DEF Wanted, IsTable
<1> QED
    BY <1>1, FS_Subset, FS_CardinalityType

\* The rows of the list's table are in the list's order, each once.
LEMMA InOrderIs ==
    ASSUME NEW r, NEW rows, IsTable(list, rows), NEW q, q = InOrder(r, rows),
           NEW ids, ids = {id \in Wanted(r, rows) : rows[id].joined}
    PROVE  IsFiniteSet(ids) /\ Sorted(q, Order, rows, ids)
<1>1. ids \subseteq DOMAIN rows /\ IsFiniteSet(DOMAIN rows) /\ DOMAIN rows \subseteq Int
    BY DEF Wanted, IsTable
<1>2. IsFiniteSet(ids)
    BY <1>1, FS_Subset
<1>3. \A x \in ids : rows[x].sort_no \in Int
    BY <1>1 DEF IsTable, IsRow
<1>4. PICK order : order = Order
    OBVIOUS
<1>5. Comparable(order, rows, ids)
    BY <1>1, <1>2, <1>3 DEF Comparable
<1>6. q = Ordered(order, rows, ids)
    BY <1>4 DEF InOrder
<1>7. Sorted(q, order, rows, ids)
    BY <1>5, <1>6, OrderedIs
<1> QED
    BY <1>2, <1>4, <1>7

\* A window is a list, of as many entries as there are left.
LEMMA WindowIs ==
    ASSUME NEW W, NEW q \in Seq(W), NEW o \in Nat, NEW l \in Nat
    PROVE  \E m \in Nat :
             /\ m = (IF Len(q) <= o THEN 0 ELSE IF Len(q) - o <= l THEN Len(q) - o ELSE l)
             /\ Window(q, o, l) \in Seq(W) /\ Len(Window(q, o, l)) = m
             /\ o + m <= Len(q) \/ m = 0
             /\ \A i \in 1..m : Window(q, o, l)[i] = q[o + i]
<1>1. PICK n \in Nat : n = Len(q)
    OBVIOUS
<1>2. PICK k \in Nat : k = IF n <= o + l THEN n ELSE o + l
    OBVIOUS
<1>3. Min({Len(q), o + l}) = k
  <2> DEFINE T == {Len(q), o + l}
  <2>1. T \subseteq 0..(n + o + l) /\ T # {} /\ n + o + l \in Nat
      BY <1>1
  <2>2. k \in T /\ \A y \in T : k <= y
      BY <1>1, <1>2
  <2> HIDE DEF T
  <2>3. PICK t : t = Min(T)
      OBVIOUS
  <2>5. t \in T /\ \A y \in T : t <= y
      BY <2>1, <2>3, MinIs
  <2>6. t <= k /\ k <= t
      BY <2>2, <2>5
  <2>7. t \in Int
      BY <2>1, <2>5
  <2>4. Min(T) = k
      BY <2>3, <2>6, <2>7
  <2> QED
      BY <2>4 DEF T
<1>4. PICK w : w = SubSeq(q, o + 1, k)
    OBVIOUS
<1>5. Window(q, o, l) = w
    BY <1>3, <1>4 DEF Window
<1>6. PICK m \in Nat : m = (IF n <= o THEN 0 ELSE IF n - o <= l THEN n - o ELSE l)
  <2>1. n <= o \/ n - o \in Nat
      BY <1>1
  <2> QED
      BY <1>1, <2>1
<1>7. (k <= o => m = 0) /\ (o < k => m = k - o) /\ (o + m <= n \/ m = 0)
    BY <1>2, <1>6
<1>8. w \in Seq(W) /\ Len(w) = m
  <2>1. CASE k <= o
      BY <1>4, <1>7, <2>1
  <2>2. CASE o < k
    <3>1. k <= n
        BY <1>2
    <3> QED
        BY <1>1, <1>4, <1>7, <2>2, <3>1
  <2> QED
      BY <2>1, <2>2
<1>9. ASSUME NEW i \in 1..m PROVE w[i] = q[o + i]
  <2>1. o < k /\ m = k - o /\ k <= n
      BY <1>2, <1>7
  <2>2. i \in 1..(k - (o + 1) + 1) /\ (o + 1) + i - 1 = o + i
      BY <2>1
  <2> QED
      BY <1>1, <1>4, <2>1, <2>2
<1> QED
    BY <1>1, <1>5, <1>6, <1>7, <1>8, <1>9

\* Two orders of at most one row are the same.
LEMMA OneRowEitherWay ==
    ASSUME NEW order, NEW rows, NEW ids, Comparable(order, rows, ids),
           NEW other, Comparable(other, rows, ids), \A x, y \in ids : x = y
    PROVE  Ordered(order, rows, ids) = Ordered(other, rows, ids)
<1>1. PICK n \in Nat : n = Cardinality(ids) /\ Ordered(order, rows, ids) \in [1..n -> ids]
    BY OrderedIs DEF Sorted
<1>2. PICK m \in Nat : m = Cardinality(ids) /\ Ordered(other, rows, ids) \in [1..m -> ids]
    BY OrderedIs DEF Sorted
<1>3. PICK a, b : a = Ordered(order, rows, ids) /\ b = Ordered(other, rows, ids)
    OBVIOUS
<1>4. a \in [1..n -> ids] /\ b \in [1..n -> ids] /\ \A i \in 1..n : a[i] = b[i]
    BY <1>1, <1>2, <1>3
<1>5. a = b
    BY <1>4
<1> QED
    BY <1>3, <1>5

-------------------------------------------------------------------------------
(***************************************************************************)
(* The lists without pages: options, details, bound users.                 *)
(***************************************************************************)
\* A statement over the conditions alone finds what the request wants.
LEMMA PlainIs ==
    ASSUME NEW r, NEW C, Asks(C, r), NEW shape, NEW order, NEW joined, NEW st,
           st = Statement(shape, C, order, joined, <<>>)
    PROVE  /\ st.shape = shape /\ st.order = order
           /\ \A rows : IsTable(list, rows) => Found(st, rows) = Wanted(r, rows)
<1>1. PICK more : more = <<>>
    OBVIOUS
<1>2. more \in Seq(Values) /\ st = Statement(shape, C, order, joined, more)
    BY <1>1, NoMore
<1>3. ASSUME NEW rows, IsTable(list, rows) PROVE Found(st, rows) = Wanted(r, rows)
    BY <1>2, <1>3, FoundIs
<1> QED
    BY <1>3 DEF Statement

\* Outside the lists with a JOIN every row has its counterpart.
LEMMA AllAreJoined ==
    ASSUME list \notin {"sales", "items"}, NEW r, NEW rows, IsTable(list, rows)
    PROVE  InOrder(r, rows) = Ordered(Order, rows, Wanted(r, rows))
<1>1. \A id \in DOMAIN rows : rows[id].joined
    BY DEF IsTable, IsRow
<1>2. {id \in Wanted(r, rows) : rows[id].joined} = Wanted(r, rows)
    BY <1>1 DEF Wanted
<1> QED
    BY <1>2 DEF InOrder

\* The drop-downs: the whole table.
LEMMA WholeIs ==
    ASSUME list \in {"catalog", "options", "moduleOptions"}, NEW r, NEW p, Planned(r, p)
    PROVE  /\ Len(p) = 1 /\ p # <<>> /\ p[1].shape = "all"
           /\ \A rows : IsTable(list, rows) => Result(p[1], rows) = InOrder(r, rows)
<1>1. PICK st, shape, order, C, joined :
        /\ st = Statement(shape, C, order, joined, <<>>)
        /\ shape = "all" /\ order = Order /\ C = <<>> /\ joined = FALSE
    OBVIOUS
<1>2. p = <<st>>
  <2>1. PICK fuzzy : p = Plan(r, fuzzy) /\ p # Refused
      BY DEF Planned
  <2>2. p = All(Order)
      BY <2>1 DEF Plan, Products, Options, ModuleOptions, QueryListProducts,
                  QueryListTeacherOptions, QueryAbModuleOptions, Order
  <2> QED
      BY <1>1, <2>2 DEF All
<1>5. Asks(C, r)
  <2>1. DOMAIN Fields = {}
      BY DEF Fields, FieldsOf, NoFields
  <2>2. \A row : IsRow(list, row) => Fits(C, r, row, DOMAIN Fields)
      BY <1>1, <2>1, BlankFits
  <2> QED
      BY <2>2, AsksFrom
<1>6. /\ st.shape = shape /\ st.order = order
      /\ \A rows : IsTable(list, rows) => Found(st, rows) = Wanted(r, rows)
    BY <1>1, <1>5, PlainIs
<1>7. ASSUME NEW rows, IsTable(list, rows) PROVE Result(st, rows) = InOrder(r, rows)
  <2>1. Result(st, rows) = Ordered(Order, rows, Wanted(r, rows))
      BY <1>1, <1>6, <1>7 DEF Result
  <2> QED
      BY <1>7, <2>1, AllAreJoined
<1> QED
    BY <1>1, <1>2, <1>6, <1>7

\* The details: the row of an id, if there is one.
LEMMA OneIs ==
    ASSUME list \in {"teacherDetail", "eventDetail"}, NEW r, NEW p, Planned(r, p)
    PROVE  /\ Len(p) = 1 /\ p # <<>> /\ p[1].shape = "one"
           /\ \A rows : IsTable(list, rows) => Result(p[1], rows) = InOrder(r, rows)
<1>1. PICK st, shape, order, C, joined :
        /\ st = Statement(shape, C, order, joined, <<>>)
        /\ joined = FALSE /\ shape = "one" /\ order = "none" /\ C = Cond("id", "number", <<r.id>>)
    OBVIOUS
<1>2. p = <<st>> /\ ~(ZeroIfNil(r.id) <= 0)
  <2>1. PICK fuzzy : p = Plan(r, fuzzy) /\ p # Refused
      BY DEF Planned
  <2>2. p = ByID(r) /\ ~(ZeroIfNil(r.id) <= 0)
      BY <2>1 DEF Plan, TeacherDetail, EventDetail, QueryTeacherDetailByID,
                  QueryMonEventByID
  <2> QED
      BY <1>1, <2>2 DEF ByID
<1>3. IsRequest(list, r)
    BY DEF Planned
<1>4. DOMAIN Fields = {"id"} /\ Fields["id"] = "key"
    BY DEF Fields, FieldsOf
<1>5. Asks(C, r)
  <2>1. PICK key : key = "id"
      OBVIOUS
  <2>2. /\ key \in DOMAIN Fields /\ DOMAIN Fields = {key} /\ Fields[key] = "key"
        /\ ~(ZeroIfNil(r[key]) <= 0) /\ C = Cond(key, "number", <<r[key]>>)
      BY <1>1, <1>2, <1>4, <2>1
  <2>3. \A row : IsRow(list, row) => Fits(C, r, row, DOMAIN Fields)
      BY <1>3, <2>2, KeyAsked
  <2> QED
      BY <2>3, AsksFrom
<1>6. /\ st.shape = shape /\ st.order = order
      /\ \A rows : IsTable(list, rows) => Found(st, rows) = Wanted(r, rows)
    BY <1>1, <1>5, PlainIs
<1>7. ASSUME NEW rows, IsTable(list, rows) PROVE Result(st, rows) = InOrder(r, rows)
  <2>1. PICK ids : ids = Wanted(r, rows)
      OBVIOUS
  <2>2. \A x \in ids : x = r.id
    <3>1. r.id # Nil /\ r.id # 0
        BY <1>2, NilIsNoValue DEF ZeroIfNil
    <3>2. \A x \in ids : x \in DOMAIN rows /\ Wants("key", r.id, rows[x].id)
        BY <1>4, <2>1 DEF Wanted
    <3>3. \A x \in ids : rows[x].id = r.id
        BY <3>1, <3>2, WantsNumber
    <3>4. \A x \in ids : rows[x].id = x
        BY <1>4, <1>7, <3>2 DEF IsTable, IsRow, Fields
    <3> QED
        BY <3>3, <3>4
  <2>3. IsFiniteSet(ids) /\ ids \subseteq Int
      BY <1>7, <2>1, WantedIs DEF IsTable
  <2>4. PICK newest : newest = "newest"
      OBVIOUS
  <2>5. Comparable(order, rows, ids) /\ Comparable(newest, rows, ids)
      BY <1>1, <2>3, <2>4 DEF Comparable
  <2>6. Ordered(order, rows, ids) = Ordered(newest, rows, ids)
      BY <2>2, <2>5, OneRowEitherWay
  <2>7. Order = newest
      BY <2>4 DEF Order
  <2>8. Result(st, rows) = Ordered(order, rows, ids)
      BY <1>1, <1>6, <1>7, <2>1 DEF Result
  <2> QED
      BY <1>7, <2>1, <2>6, <2>7, <2>8, AllAreJoined
<1> QED
    BY <1>1, <1>2, <1>6, <1>7

\* The users that a teacher is bound to, each once.
LEMMA UsersAre ==
    ASSUME list = "boundUsers", NEW r, NEW p, Planned(r, p)
    PROVE  /\ Len(p) = 1 /\ p # <<>> /\ p[1].shape = "distinct"
           /\ \A rows : IsTable(list, rows) =>
                 Sorted(Result(p[1], rows), "oldest", rows, Users(rows))
<1>1. PICK st, shape, order, C, joined :
        /\ st = Statement(shape, C, order, joined, <<>>)
        /\ joined = FALSE /\ shape = "distinct" /\ order = "oldest" /\ C = <<>>
    OBVIOUS
<1>2. p = <<st>>
  <2>1. PICK fuzzy : p = Plan(r, fuzzy) /\ p # Refused
      BY DEF Planned
  <2>2. p = QueryListAllTeacherSales
      BY <2>1 DEF Plan, BoundUserIds
  <2> QED
      BY <1>1, <2>2 DEF QueryListAllTeacherSales
<1>3. DOMAIN Fields = {}
    BY DEF Fields, FieldsOf, NoFields
<1>4. Asks(C, r)
  <2>1. \A row : IsRow(list, row) => Fits(C, r, row, DOMAIN Fields)
      BY <1>1, <1>3, BlankFits
  <2> QED
      BY <2>1, AsksFrom
<1>5. /\ st.shape = shape /\ st.order = order
      /\ \A rows : IsTable(list, rows) => Found(st, rows) = Wanted(r, rows)
    BY <1>1, <1>4, PlainIs
<1>6. ASSUME NEW rows, IsTable(list, rows)
      PROVE  Sorted(Result(st, rows), order, rows, Users(rows))
  <2>1. Wanted(r, rows) = DOMAIN rows
      BY <1>3 DEF Wanted
  <2>2. Result(st, rows) = Ordered(order, rows, Users(rows))
      BY <1>1, <1>5, <1>6, <2>1 DEF Result, Users
  <2>3. IsFiniteSet(Users(rows)) /\ Users(rows) \subseteq Int
    <3>1. IsFiniteSet(DOMAIN rows) /\ \A id \in DOMAIN rows : rows[id].user_id \in Int
        BY <1>6 DEF IsTable, IsRow
    <3>2. IsFiniteSet({rows[id].user_id : id \in DOMAIN rows})
      <4> DEFINE D == DOMAIN rows
                 u(id) == rows[id].user_id
      <4>1. IsFiniteSet(D)
          BY <3>1
      <4> HIDE DEF D, u
      <4>2. IsFiniteSet({u(id) : id \in D})
        <5> DEFINE h == [id \in D |-> u(id)]
        <5>1. PICK T : T = {h[id] : id \in D}
            OBVIOUS
        <5>2. h \in Surjection(D, T)
            BY <5>1 DEF Surjection
        <5>3. IsFiniteSet(T)
            BY <4>1, <5>2, FS_Surjection
        <5> QED
            BY <5>1, <5>3
      <4> QED
          BY <4>2 DEF D, u
    <3> QED
        BY <3>1, <3>2 DEF Users
  <2>4. Comparable(order, rows, Users(rows))
      BY <1>1, <2>3 DEF Comparable
  <2> QED
      BY <2>2, <2>4, OrderedIs
<1> QED
    BY <1>1, <1>2, <1>5, <1>6

-------------------------------------------------------------------------------
(***************************************************************************)
(* The overview's seven statements.                                        *)
(***************************************************************************)
\* One statement more.
LEMMA OneMore ==
    ASSUME NEW V, NEW u \in Seq(V), NEW x \in V, NEW w, w = u \o <<x>>
    PROVE  /\ w \in Seq(V) /\ Len(w) = Len(u) + 1 /\ w[Len(w)] = x
           /\ \A i \in 1..Len(u) : w[i] = u[i]
<1>1. PICK t : t = <<x>>
    OBVIOUS
<1>2. t \in Seq(V) /\ Len(t) = 1 /\ t[1] = x
    BY <1>1
<1>3. /\ u \o t \in Seq(V) /\ Len(u \o t) = Len(u) + Len(t)
      /\ \A i \in 1..Len(u) : (u \o t)[i] = u[i]
      /\ \A j \in 1..Len(t) : (u \o t)[Len(u) + j] = t[j]
    BY <1>2, ConcatPlaces
<1>4. 1 \in 1..Len(t)
    BY <1>2
<1>5. w = u \o t
    BY <1>1
<1> QED
    BY <1>2, <1>3, <1>4, <1>5

\* A list of seven.
Seven(s, a, b, c, d, e, f, g) ==
    /\ Len(s) = 7 /\ s # <<>> /\ s[1] = a /\ s[2] = b /\ s[3] = c /\ s[4] = d
    /\ s[5] = e /\ s[6] = f /\ s[7] = g

\* Seven statements one after the other.
LEMMA SevenAre ==
    ASSUME NEW a, NEW b, NEW c, NEW d, NEW e, NEW f, NEW g, NEW s,
           s = <<a>> \o <<b>> \o <<c>> \o <<d>> \o <<e>> \o <<f>> \o <<g>>
    PROVE  Seven(s, a, b, c, d, e, f, g)
<1>0. PICK V : a \in V /\ b \in V /\ c \in V /\ d \in V /\ e \in V /\ f \in V /\ g \in V
  <2>1. \E V : V = {a, b, c, d, e, f, g}
      OBVIOUS
  <2> QED
      BY <2>1
<1>1. PICK s1, s2, s3, s4, s5, s6 :
        /\ s1 = <<a>> /\ s2 = s1 \o <<b>> /\ s3 = s2 \o <<c>> /\ s4 = s3 \o <<d>>
        /\ s5 = s4 \o <<e>> /\ s6 = s5 \o <<f>>
    OBVIOUS
<1>2. s1 \in Seq(V) /\ Len(s1) = 1 /\ s1[1] = a
    BY <1>0, <1>1
<1>3. /\ s2 \in Seq(V) /\ Len(s2) = 2 /\ s2[2] = b
      /\ \A i \in 1..1 : s2[i] = s1[i]
  <2>1. s1 \in Seq(V) /\ b \in V /\ s2 = s1 \o <<b>>
      BY <1>0, <1>1, <1>2
  <2>2. /\ s2 \in Seq(V) /\ Len(s2) = Len(s1) + 1 /\ s2[Len(s2)] = b
        /\ \A i \in 1..Len(s1) : s2[i] = s1[i]
      BY <2>1, OneMore
  <2> QED
      BY <1>2, <2>2
<1>4. /\ s3 \in Seq(V) /\ Len(s3) = 3 /\ s3[3] = c
      /\ \A i \in 1..2 : s3[i] = s2[i]
  <2>1. s2 \in Seq(V) /\ c \in V /\ s3 = s2 \o <<c>>
      BY <1>0, <1>1, <1>3
  <2>2. /\ s3 \in Seq(V) /\ Len(s3) = Len(s2) + 1 /\ s3[Len(s3)] = c
        /\ \A i \in 1..Len(s2) : s3[i] = s2[i]
      BY <2>1, OneMore
  <2> QED
      BY <1>3, <2>2
<1>5. /\ s4 \in Seq(V) /\ Len(s4) = 4 /\ s4[4] = d
      /\ \A i \in 1..3 : s4[i] = s3[i]
  <2>1. s3 \in Seq(V) /\ d \in V /\ s4 = s3 \o <<d>>
      BY <1>0, <1>1, <1>4
  <2>2. /\ s4 \in Seq(V) /\ Len(s4) = Len(s3) + 1 /\ s4[Len(s4)] = d
        /\ \A i \in 1..Len(s3) : s4[i] = s3[i]
      BY <2>1, OneMore
  <2> QED
      BY <1>4, <2>2
<1>6. /\ s5 \in Seq(V) /\ Len(s5) = 5 /\ s5[5] = e
      /\ \A i \in 1..4 : s5[i] = s4[i]
  <2>1. s4 \in Seq(V) /\ e \in V /\ s5 = s4 \o <<e>>
      BY <1>0, <1>1, <1>5
  <2>2. /\ s5 \in Seq(V) /\ Len(s5) = Len(s4) + 1 /\ s5[Len(s5)] = e
        /\ \A i \in 1..Len(s4) : s5[i] = s4[i]
      BY <2>1, OneMore
  <2> QED
      BY <1>5, <2>2
<1>7. /\ s6 \in Seq(V) /\ Len(s6) = 6 /\ s6[6] = f
      /\ \A i \in 1..5 : s6[i] = s5[i]
  <2>1. s5 \in Seq(V) /\ f \in V /\ s6 = s5 \o <<f>>
      BY <1>0, <1>1, <1>6
  <2>2. /\ s6 \in Seq(V) /\ Len(s6) = Len(s5) + 1 /\ s6[Len(s6)] = f
        /\ \A i \in 1..Len(s5) : s6[i] = s5[i]
      BY <2>1, OneMore
  <2> QED
      BY <1>6, <2>2
<1>8. PICK q : q = s
    OBVIOUS
<1>9. /\ q \in Seq(V) /\ Len(q) = 7 /\ q[7] = g
      /\ \A i \in 1..6 : q[i] = s6[i]
  <2>0. q = s6 \o <<g>>
      BY <1>1, <1>8, Zenon
  <2>1. s6 \in Seq(V) /\ g \in V
      BY <1>0, <1>7
  <2>2. /\ q \in Seq(V) /\ Len(q) = Len(s6) + 1 /\ q[Len(q)] = g
        /\ \A i \in 1..Len(s6) : q[i] = s6[i]
      BY <2>0, <2>1, OneMore
  <2> QED
      BY <1>7, <2>2
<1>10. q[6] = f /\ q[5] = e /\ q[4] = d
    BY <1>5, <1>6, <1>7, <1>9
<1>11. q[3] = c /\ q[2] = b /\ q[1] = a
    BY <1>2, <1>3, <1>4, <1>5, <1>6, <1>7, <1>9
<1>12. q # <<>>
  <2>1. Len(<<>>) = 0
      OBVIOUS
  <2>2. 7 # 0
      OBVIOUS
  <2> QED
      BY <1>9, <2>1, <2>2, Zenon
<1> QED
    BY <1>8, <1>9, <1>10, <1>11, <1>12, Zenon DEF Seven

\* A narrower statement finds some of the rows.
LEMMA NarrowerIs ==
    ASSUME NEW r, NEW C, Asks(C, r), NEW X, NEW N, IsConds(X, Values), IsConds(N, Values),
           \A row : Sat(X, row) => Sat(C, row),
           NEW shape, NEW order, NEW joined, NEW st,
           st = Statement(shape, X \o N, order, joined, <<>>)
    PROVE  /\ st.shape = shape /\ st.order = order
           /\ \A rows : IsTable(list, rows) => Found(st, rows) \subseteq Wanted(r, rows)
<1>1. IsConds(X \o N, Values) /\ \A row : Sat(X \o N, row) => Sat(C, row)
    BY SatConcat
<1>2. PICK D, more : D = X \o N /\ more = <<>>
    OBVIOUS
<1>3. /\ IsConds(D, Values) /\ more \in Seq(Values)
      /\ st = Statement(shape, D, order, joined, more)
    BY <1>1, <1>2, NoMore
<1>4. \A row : Selects(st, row) => Sat(C, row)
  <2>1. \A row : Selects(st, row) <=> Sat(D, row)
      BY <1>3, SelectsIs
  <2> QED
      BY <1>1, <1>2, <2>1
<1>5. ASSUME NEW rows, IsTable(list, rows) PROVE Found(st, rows) \subseteq Wanted(r, rows)
  <2>1. \A id \in DOMAIN rows : Sat(C, rows[id]) => Matching(r, rows[id])
      BY <1>5 DEF IsTable, Asks
  <2> QED
      BY <1>4, <2>1 DEF Found, Wanted, Matching
<1> QED
    BY <1>5 DEF Statement

\* The overview: seven statements about the events of a range of time.
OverviewPlan(p, r) ==
    /\ Len(p) = 7 /\ p # <<>>
    /\ p[1].shape = "sum" /\ p[2].shape = "by type"
    /\ \A i \in 3..7 : p[i].shape = "top" /\ p[i].order = "none"
    /\ \A rows : IsTable(list, rows) =>
         /\ \A i \in {1, 2, 5} : Found(p[i], rows) = Wanted(r, rows)
         /\ \A i \in 3..7 : Found(p[i], rows) \subseteq Wanted(r, rows)

\* The overview counts, groups and ranks the events of its request.
LEMMA OverviewIs ==
    ASSUME list = "overview", NEW r, NEW p, Planned(r, p)
    PROVE  OverviewPlan(p, r)
<1> DEFINE range == normalizeMonRange(r.created_at, OverviewSpan)
           f == [r EXCEPT !.created_at = range]
           R == monRangeWhere(f, {})
           blank(col) == Cond(col, "not blank", <<>>)
           X == Cond("created_at", ">=", <<f.created_at[1]>>)
                \o Cond("created_at", "<=", <<f.created_at[2]>>)
                \o NonEmpty(f, "env", "=")
           missing == placeholders("event_type", {<<"resource_error">>})
<1>0. IsRequest(list, r)
    BY DEF Planned
<1>1. DOMAIN r = {"created_at", "env", "page_index", "page_size"}
    BY <1>0 DEF IsRequest, FieldsOf, MonOverviewReq
<1>2. /\ range # Refused
      /\ p = SumMonEvents(f) \o GroupMonEventsByType(f)
             \o GroupMonEventsTop(f, {}, "ver")
             \o GroupMonEventsTop(f, {}, "device_model")
             \o GroupMonEventsByCvAsc(f)
             \o GroupMonEventsTop(f, {}, "route")
             \o GroupMonEventsTop(f, {<<"resource_error">>}, "src")
  <2>1. PICK fuzzy : p = Plan(r, fuzzy) /\ p # Refused
      BY DEF Planned
  <2>2. p = MonOverview(r)
      BY <2>1 DEF Plan, Overview
  <2> QED
      BY <2>1, <2>2 DEF MonOverview
<1>3. f.created_at = range /\ f.env = r.env
    BY <1>1
<1>4. Asks(R, r)
  <2>1. f.created_at = normalizeMonRange(r.created_at, Span) /\ f.created_at # Refused
      BY <1>2, <1>3 DEF Span
  <2> HIDE DEF f
  <2>2. \A row : IsRow(list, row) => Fits(R, r, row, DOMAIN Fields)
      BY <1>0, <1>3, <2>1, OverviewAsked
  <2> HIDE DEF R
  <2> QED
      BY <2>2, AsksFrom
<1>5. R = X
    BY DEF monRangeWhere, placeholders
<1>6. monRangeWhere(f, {<<"resource_error">>}) = X \o missing
    BY DEF monRangeWhere
<1>7. IsConds(missing, Values)
  <2>1. PICK S, q : S = {<<"resource_error">>} /\ q = SetToSeq(S)
      OBVIOUS
  <2>2. IsFiniteSet(S) /\ Cardinality(S) = 1
      BY <2>1, FS_Singleton
  <2>3. q \in [1..1 -> S]
      BY <2>1, <2>2, SetToSeqLists
  <2>4. q \in [1..1 -> Values]
      BY <2>1, <2>3 DEF Values
  <2>5. q \in Seq(Values)
      BY <2>4, ListIs
  <2>6. S # {} /\ missing = Cond("event_type", "in", q)
      BY <2>1 DEF placeholders
  <2> QED
      BY <2>5, <2>6, SatCond
<1>8. \A col : IsConds(blank(col), Values)
    BY BlankAsked
<1>9. PICK sum, types, vers, devices, chromes, routes, sources, order, joined :
        /\ order = "none" /\ joined = FALSE
        /\ sum = Statement("sum", R, order, joined, <<>>)
        /\ types = Statement("by type", R, order, joined, <<>>)
        /\ vers = Statement("top", R \o blank("ver"), order, joined, <<>>)
        /\ devices = Statement("top", R \o blank("device_model"), order, joined, <<>>)
        /\ chromes = Statement("top", R, order, joined, <<>>)
        /\ routes = Statement("top", R \o blank("route"), order, joined, <<>>)
        /\ sources = Statement("top", (R \o missing) \o blank("src"), order, joined, <<>>)
    OBVIOUS
<1>10. /\ SumMonEvents(f) = <<sum>> /\ GroupMonEventsByType(f) = <<types>>
       /\ GroupMonEventsByCvAsc(f) = <<chromes>>
    BY <1>9 DEF SumMonEvents, GroupMonEventsByType, GroupMonEventsByCvAsc, Aggregate
<1>11. /\ GroupMonEventsTop(f, {}, "ver") = <<vers>>
       /\ GroupMonEventsTop(f, {}, "device_model") = <<devices>>
       /\ GroupMonEventsTop(f, {}, "route") = <<routes>>
    BY <1>9 DEF GroupMonEventsTop, Aggregate
<1>12. GroupMonEventsTop(f, {<<"resource_error">>}, "src") = <<sources>>
    BY <1>5, <1>6, <1>9 DEF GroupMonEventsTop, Aggregate
<1> HIDE DEF range, f, R, X, missing, blank
<1>13. p = <<sum>> \o <<types>> \o <<vers>> \o <<devices>> \o <<chromes>> \o <<routes>>
           \o <<sources>>
    BY <1>2, <1>10, <1>11, <1>12
<1>14. /\ Len(p) = 7 /\ p # <<>> /\ p[1] = sum /\ p[2] = types /\ p[3] = vers
       /\ p[4] = devices /\ p[5] = chromes /\ p[6] = routes /\ p[7] = sources
  <2>1. Seven(p, sum, types, vers, devices, chromes, routes, sources)
      BY <1>13, SevenAre
  <2> QED
      BY <2>1 DEF Seven
<1>15. ASSUME NEW shape, NEW st, st = Statement(shape, R, order, joined, <<>>)
       PROVE  /\ st.shape = shape /\ st.order = order
              /\ \A rows : IsTable(list, rows) => Found(st, rows) = Wanted(r, rows)
    BY <1>4, <1>15, PlainIs
<1>16. IsConds(R, Values) /\ \A row : Sat(R, row) => Sat(R, row)
    BY <1>4 DEF Asks
<1>17. ASSUME NEW shape, NEW col, NEW st, st = Statement(shape, R \o blank(col), order, joined, <<>>)
       PROVE  /\ st.shape = shape /\ st.order = order
              /\ \A rows : IsTable(list, rows) => Found(st, rows) \subseteq Wanted(r, rows)
  <2>1. PICK N : N = blank(col)
      OBVIOUS
  <2>2. IsConds(N, Values) /\ st = Statement(shape, R \o N, order, joined, <<>>)
      BY <1>8, <1>17, <2>1
  <2> QED
      BY <1>4, <1>16, <2>2, NarrowerIs
<1>18. IsConds(R \o missing, Values) /\ \A row : Sat(R \o missing, row) => Sat(R, row)
    BY <1>7, <1>16, SatConcat
<1>19. /\ sources.shape = "top" /\ sources.order = order
       /\ \A rows : IsTable(list, rows) => Found(sources, rows) \subseteq Wanted(r, rows)
  <2>1. PICK N, Y, shape : N = blank("src") /\ Y = R \o missing /\ shape = "top"
      OBVIOUS
  <2>2. /\ IsConds(N, Values) /\ IsConds(Y, Values) /\ \A row : Sat(Y, row) => Sat(R, row)
        /\ sources = Statement(shape, Y \o N, order, joined, <<>>)
      BY <1>8, <1>9, <1>18, <2>1
  <2>3. /\ sources.shape = shape /\ sources.order = order
        /\ \A rows : IsTable(list, rows) => Found(sources, rows) \subseteq Wanted(r, rows)
      BY <1>4, <2>2, NarrowerIs
  <2> QED
      BY <2>1, <2>3
<1>20. /\ sum.shape = "sum" /\ types.shape = "by type" /\ chromes.shape = "top"
       /\ chromes.order = order
       /\ \A rows : IsTable(list, rows) =>
             /\ Found(sum, rows) = Wanted(r, rows) /\ Found(types, rows) = Wanted(r, rows)
             /\ Found(chromes, rows) = Wanted(r, rows)
    BY <1>9, <1>15
<1>21. ASSUME NEW st \in {vers, devices, routes}
       PROVE  /\ st.shape = "top" /\ st.order = order
              /\ \A rows : IsTable(list, rows) => Found(st, rows) \subseteq Wanted(r, rows)
  <2>1. PICK shape, col : /\ st = Statement(shape, R \o blank(col), order, joined, <<>>)
                          /\ shape = "top"
      BY <1>9
  <2> QED
      BY <1>17, <2>1
<1>22. \A i \in 3..7 : i = 3 \/ i = 4 \/ i = 5 \/ i = 6 \/ i = 7
    OBVIOUS
<1>23. \A i \in 3..7 : p[i].shape = "top" /\ p[i].order = "none"
  <2>1. order = "none"
      BY <1>9
  <2>2. \A st \in {vers, devices, chromes, routes, sources} : st.shape = "top" /\ st.order = order
      BY <1>19, <1>20, <1>21
  <2>3. \A i \in 3..7 : p[i] \in {vers, devices, chromes, routes, sources}
      BY <1>14, <1>22
  <2> QED
      BY <2>1, <2>2, <2>3
<1>24. ASSUME NEW rows, IsTable(list, rows)
       PROVE  /\ \A i \in {1, 2, 5} : Found(p[i], rows) = Wanted(r, rows)
              /\ \A i \in 3..7 : Found(p[i], rows) \subseteq Wanted(r, rows)
    BY <1>14, <1>19, <1>20, <1>21, <1>22, <1>24
<1> QED
    BY <1>14, <1>20, <1>23, <1>24 DEF OverviewPlan

-------------------------------------------------------------------------------
(***************************************************************************)
(* Plans and results are lists.                                            *)
(***************************************************************************)
\* What a plan has in common, whichever the list.
LEMMA PlansAre ==
    ASSUME list \in ListNames, NEW r, NEW p, Planned(r, p)
    PROVE  /\ Len(p) \in Nat \ {0} /\ p # <<>>
           /\ p[1].shape = "count" <=> list \in Pagers
           /\ list \in Pagers => PlanFits(p, r)
           /\ list \notin Pagers \cup {"overview"} => Len(p) = 1
           /\ list = "overview" => OverviewPlan(p, r)
<1>1. CASE list \in Pagers
  <2>1. PlanFits(p, r)
      BY <1>1, PagedPlans
  <2>2. Len(p) = 2 /\ p # <<>> /\ p[1].shape = "count"
      BY <2>1, PagesAre DEF Planned
  <2>3. list # "overview"
      BY <1>1 DEF Pagers
  <2> QED
      BY <1>1, <2>1, <2>2, <2>3
<1>2. CASE list \in {"catalog", "options", "moduleOptions"}
  <2>1. Len(p) = 1 /\ p # <<>> /\ p[1].shape = "all"
      BY <1>2, WholeIs
  <2> QED
      BY <1>2, <2>1 DEF Pagers
<1>3. CASE list \in {"teacherDetail", "eventDetail"}
  <2>1. Len(p) = 1 /\ p # <<>> /\ p[1].shape = "one"
      BY <1>3, OneIs
  <2> QED
      BY <1>3, <2>1 DEF Pagers
<1>4. CASE list = "boundUsers"
  <2>1. Len(p) = 1 /\ p # <<>> /\ p[1].shape = "distinct"
      BY <1>4, UsersAre
  <2> QED
      BY <1>4, <2>1 DEF Pagers
<1>5. CASE list = "overview"
  <2>1. OverviewPlan(p, r)
      BY <1>5, OverviewIs
  <2>2. Len(p) = 7 /\ p # <<>> /\ p[1].shape = "sum"
      BY <2>1 DEF OverviewPlan
  <2> QED
      BY <1>5, <2>1, <2>2 DEF Pagers
<1> QED
    BY <1>1, <1>2, <1>3, <1>4, <1>5 DEF ListNames

\* Finitely many rows have finitely many types.
LEMMA ValuesAreFinite ==
    ASSUME NEW D, IsFiniteSet(D), NEW rows
    PROVE  IsFiniteSet({rows[id].event_type : id \in D})
<1> DEFINE u(id) == rows[id].event_type
<1> HIDE DEF u
<1>1. IsFiniteSet({u(id) : id \in D})
  <2> DEFINE h == [id \in D |-> u(id)]
  <2>1. PICK T : T = {h[id] : id \in D}
      OBVIOUS
  <2>2. h \in Surjection(D, T)
      BY <2>1 DEF Surjection
  <2>3. IsFiniteSet(T)
      BY <2>2, FS_Surjection
  <2> QED
      BY <2>1, <2>3
<1> QED
    BY <1>1 DEF u

\* A sorted list is a list.
LEMMA SortedIsList ==
    ASSUME NEW q, NEW order, NEW rows, NEW ids, Sorted(q, order, rows, ids)
    PROVE  IsList(q)
BY DEF Sorted, IsList

\* A sequence is a list.
LEMMA SeqIsList == ASSUME NEW W, NEW q \in Seq(W) PROVE IsList(q)
BY LenProperties DEF IsList

\* What a valid statement returns is a list.
LEMMA ResultsAreLists ==
    ASSUME list \in ListNames, NEW r, NEW p, Planned(r, p), NEW i \in 1..Len(p),
           Valid(p[i]), NEW rows, IsTable(list, rows)
    PROVE  IsList(Result(p[i], rows))
<1>0. Len(p) \in Nat \ {0}
    BY PlansAre
<1>1. CASE list \in Pagers
  <2>1. PlanFits(p, r) /\ IsRequest(list, r)
      BY <1>1, PlansAre DEF Planned
  <2>2. PICK o \in Int :
          /\ Len(p) = 2 /\ p[1].shape = "count" /\ p[2].shape = "page"
          /\ OffsetOf(p[2]) = o
          /\ Result(p[1], rows) = <<Cardinality(Wanted(r, rows))>>
          /\ Result(p[2], rows) = Window(InOrder(r, rows), o, PageSize(r))
      BY <2>1, PagesAre
  <2>3. CASE i = 1
    <3>1. PICK c, q : c = Cardinality(Wanted(r, rows)) /\ q = <<c>>
        OBVIOUS
    <3>2. IsList(q)
        BY <3>1 DEF IsList
    <3> QED
        BY <2>2, <2>3, <3>1, <3>2
  <2>4. CASE i = 2
    <3>1. o >= 0
        BY <2>2, <2>4 DEF Valid
    <3>2. PICK ids, q : ids = {id \in Wanted(r, rows) : rows[id].joined} /\ q = InOrder(r, rows)
        OBVIOUS
    <3>3. Sorted(q, Order, rows, ids)
        BY <3>2, InOrderIs
    <3>4. q \in Seq(ids)
        BY <3>3, ListIs DEF Sorted
    <3>5. o \in Nat /\ PageSize(r) \in Nat
      <4>1. PageSize(r) \in 1..100
          BY <2>1, PageSizeIs
      <4> QED
          BY <2>2, <3>1, <4>1
    <3>6. Window(q, o, PageSize(r)) \in Seq(ids)
        BY <3>4, <3>5, WindowIs
    <3> QED
        BY <2>2, <2>4, <3>2, <3>6, SeqIsList
  <2> QED
      BY <2>2, <2>3, <2>4
<1>2. CASE list \in {"catalog", "options", "moduleOptions", "teacherDetail", "eventDetail"}
  <2>1. i = 1
      BY <1>0, <1>2, PlansAre DEF Pagers
  <2>2. Result(p[1], rows) = InOrder(r, rows)
      BY <1>2, WholeIs, OneIs
  <2>3. PICK ids, q : ids = {id \in Wanted(r, rows) : rows[id].joined} /\ q = InOrder(r, rows)
      OBVIOUS
  <2>4. Sorted(q, Order, rows, ids)
      BY <2>3, InOrderIs
  <2> QED
      BY <2>1, <2>2, <2>3, <2>4, SortedIsList
<1>3. CASE list = "boundUsers"
  <2>1. i = 1
      BY <1>0, <1>3, PlansAre DEF Pagers
  <2>2. Sorted(Result(p[1], rows), "oldest", rows, Users(rows))
      BY <1>3, UsersAre
  <2> QED
      BY <2>1, <2>2, SortedIsList
<1>4. CASE list = "overview"
  <2>1. OverviewPlan(p, r)
      BY <1>4, OverviewIs
  <2>2. CASE i = 1
    <3>1. p[i].shape = "sum"
        BY <2>1, <2>2 DEF OverviewPlan
    <3>2. \E x : Result(p[i], rows) = <<x>>
        BY <3>1 DEF Result
    <3>3. \A x, q : q = <<x>> => IsList(q)
        BY DEF IsList
    <3> QED
        BY <3>2, <3>3
  <2>3. CASE i = 2
    <3>1. p[i].shape = "by type"
        BY <2>1, <2>3 DEF OverviewPlan
    <3>2. PICK hits : hits = Found(p[i], rows)
        OBVIOUS
    <3>3. PICK T : T = {rows[id].event_type : id \in hits}
        OBVIOUS
    <3>4. PICK types : types = SetToSeq(T)
        OBVIOUS
    <3>5. PICK g : g = Result(p[i], rows)
        OBVIOUS
    <3>6. g = [k \in DOMAIN types |->
                 [type |-> types[k],
                  n |-> Cardinality({id \in hits : rows[id].event_type = types[k]})]]
        BY <3>1, <3>2, <3>3, <3>4, <3>5 DEF Result
    <3>7. DOMAIN g = DOMAIN types /\ g = [k \in DOMAIN types |-> g[k]]
        BY <3>6
    <3>8. \E n \in Nat : DOMAIN types = 1..n
      <4>1. IsFiniteSet(hits)
        <5>1. \A k \in {1, 2, 5} : Found(p[k], rows) = Wanted(r, rows)
            BY <2>1 DEF OverviewPlan
        <5>2. hits = Wanted(r, rows)
            BY <2>3, <3>2, <5>1
        <5> QED
            BY <5>2, WantedIs
      <4>2. IsFiniteSet(T)
          BY <3>3, <4>1, ValuesAreFinite
      <4>3. Cardinality(T) \in Nat /\ types \in [1..Cardinality(T) -> T]
          BY <3>4, <4>2, SetToSeqLists
      <4> QED
          BY <4>3
    <3> QED
        BY <3>5, <3>7, <3>8 DEF IsList
  <2>4. CASE i \in 3..7
    <3>1. p[i].shape = "top" /\ p[i].order = "none" /\ Found(p[i], rows) \subseteq Wanted(r, rows)
        BY <2>1, <2>4 DEF OverviewPlan
    <3>2. PICK ids, order : ids = Found(p[i], rows) /\ order = "none"
        OBVIOUS
    <3>3. Result(p[i], rows) = Ordered(order, rows, ids)
        BY <3>1, <3>2 DEF Result
    <3>4. IsFiniteSet(ids) /\ ids \subseteq Int
        BY <3>1, <3>2, WantedIs, FS_Subset DEF IsTable
    <3>5. Comparable(order, rows, ids)
        BY <3>2, <3>4 DEF Comparable
    <3> QED
        BY <3>3, <3>5, OrderedIs, SortedIsList
  <2>5. i = 1 \/ i = 2 \/ i \in 3..7
    <3>1. Len(p) = 7
        BY <2>1 DEF OverviewPlan
    <3> QED
        BY <3>1
  <2> QED
      BY <2>2, <2>3, <2>4, <2>5
<1> QED
    BY <1>1, <1>2, <1>3, <1>4 DEF ListNames

-------------------------------------------------------------------------------
(***************************************************************************)
(* A complete answer is what was due.                                      *)
(***************************************************************************)
\* What an answer consists of once every statement has returned.
Complete(r, p, rs, ts) ==
    /\ Planned(r, p)
    /\ \A i \in 1..Len(p) : IsTable(list, ts[i]) /\ rs[i] = Result(p[i], ts[i])

\* The page, and the two numbers that its length follows from.
LEMMA PageAnswer ==
    ASSUME list \in Pagers, NEW r, NEW p, NEW rs, NEW ts, Complete(r, p, rs, ts)
    PROVE  /\ IsTable(list, ts[1]) /\ IsTable(list, ts[2])
           /\ rs[1] = <<Cardinality(Wanted(r, ts[1]))>>
           /\ Skipped(r) <= MaxInt =>
                 rs[2] = Window(InOrder(r, ts[2]), Skipped(r), PageSize(r))
<1>0. list \in ListNames
    BY DEF ListNames
<1>1. IsRequest(list, r) /\ PlanFits(p, r)
    BY <1>0, PlansAre DEF Complete, Planned
<1>2. PICK o \in Int :
        /\ o = Int64(Skipped(r)) /\ Len(p) = 2
        /\ \A rows : IsTable(list, rows) =>
             /\ Result(p[1], rows) = <<Cardinality(Wanted(r, rows))>>
             /\ Result(p[2], rows) = Window(InOrder(r, rows), o, PageSize(r))
    BY <1>1, PagesAre
<1>3. \A i \in 1..2 : IsTable(list, ts[i]) /\ rs[i] = Result(p[i], ts[i])
    BY <1>2 DEF Complete
<1>4. Skipped(r) <= MaxInt => o = Skipped(r)
  <2>1. Skipped(r) \in Nat /\ MaxInt \in Nat
      BY <1>1, PageSizeIs, QueriesAssumption
  <2>2. Skipped(r) <= MaxInt => Skipped(r) \in 0..MaxInt
      BY <2>1
  <2> QED
      BY <1>2, <2>2, Int64Small
<1>5. 1 \in 1..2 /\ 2 \in 1..2
    OBVIOUS
<1>6. IsTable(list, ts[1]) /\ rs[1] = Result(p[1], ts[1])
    BY <1>3, <1>5
<1>7. IsTable(list, ts[2]) /\ rs[2] = Result(p[2], ts[2])
    BY <1>3, <1>5
<1>8. rs[1] = <<Cardinality(Wanted(r, ts[1]))>>
    BY <1>2, <1>6
<1>9. rs[2] = Window(InOrder(r, ts[2]), o, PageSize(r))
    BY <1>2, <1>7
<1> QED
    BY <1>4, <1>6, <1>7, <1>8, <1>9

\* An answer that is complete is due.
LEMMA CompleteIsDue ==
    ASSUME list \in ListNames, Complete(req, plan, results, seen)
    PROVE  PageIsDue
<1>0. Planned(req, plan)
    BY DEF Complete
<1>1. Len(plan) \in Nat \ {0} /\ plan # <<>> /\ (Paging <=> list \in Pagers)
    BY <1>0, PlansAre DEF Paging
<1>2. IsTable(list, seen[1]) /\ results[1] = Result(plan[1], seen[1])
    BY <1>1 DEF Complete
<1>3. CASE list \in Pagers
  <2>1. /\ results[1] = <<Cardinality(Wanted(req, seen[1]))>>
        /\ Skipped(req) <= MaxInt =>
              results[2] = Window(InOrder(req, seen[2]), Skipped(req), PageSize(req))
      BY <1>3, PageAnswer
  <2>2. Window(InOrder(req, seen[2]), Skipped(req), PageSize(req)) = Due(req, seen[2])
      BY DEF Window, Due
  <2>3. Paging /\ list # "boundUsers" /\ list # "overview"
      BY <1>1, <1>3 DEF Pagers
  <2> QED
      BY <2>1, <2>2, <2>3 DEF PageIsDue
<1>4. CASE list = "boundUsers"
  <2>1. ~Paging
      BY <1>1, <1>4 DEF Pagers
  <2>2. Sorted(results[1], "oldest", seen[1], Users(seen[1]))
      BY <1>0, <1>2, <1>4, UsersAre
  <2>3. PICK q, ids, order : q = results[1] /\ ids = Users(seen[1]) /\ order = "oldest"
      OBVIOUS
  <2>4. Sorted(q, order, seen[1], ids)
      BY <2>2, <2>3
  <2>5. PICK n \in Nat : /\ q \in [1..n -> ids] /\ \A x \in ids : \E i \in 1..n : q[i] = x
                         /\ \A i, j \in 1..n : q[i] = q[j] => i = j
      BY <2>4 DEF Sorted
  <2>6. ToSet(q) = ids
      BY <2>5 DEF ToSet
  <2>7. IsInjective(q)
      BY <2>5 DEF IsInjective
  <2>8. list # "overview"
      BY <1>4
  <2> QED
      BY <1>4, <2>1, <2>3, <2>6, <2>7, <2>8 DEF PageIsDue
<1>5. CASE list = "overview"
  <2>1. ~Paging /\ list # "boundUsers"
      BY <1>1, <1>5 DEF Pagers
  <2>2. plan[1].shape = "sum" /\ Found(plan[1], seen[1]) = Wanted(req, seen[1])
    <3>1. OverviewPlan(plan, req)
        BY <1>0, <1>5, OverviewIs
    <3>2. \A k \in {1, 2, 5} : Found(plan[k], seen[1]) = Wanted(req, seen[1])
        BY <1>2, <3>1 DEF OverviewPlan
    <3> QED
        BY <3>1, <3>2 DEF OverviewPlan
  <2>3. PICK e : results[1] = <<[total |-> Cardinality(Wanted(req, seen[1])), errors |-> e]>>
      BY <1>2, <2>2 DEF Result
  <2>4. results[1][1].total = Cardinality(Wanted(req, seen[1]))
      BY <2>3
  <2> QED
      BY <1>5, <2>1, <2>4 DEF PageIsDue
<1>6. CASE list \in {"catalog", "options", "moduleOptions", "teacherDetail", "eventDetail"}
  <2>1. ~Paging /\ list # "boundUsers" /\ list # "overview"
      BY <1>1, <1>6 DEF Pagers
  <2>2. results[1] = InOrder(req, seen[1])
      BY <1>0, <1>2, <1>6, WholeIs, OneIs
  <2> QED
      BY <2>1, <2>2 DEF PageIsDue
<1> QED
    BY <1>3, <1>4, <1>5, <1>6 DEF ListNames

-------------------------------------------------------------------------------
(***************************************************************************)
(* A complete answer adds up.                                              *)
(***************************************************************************)
\* The types of some events, one group for each, and the events in some groups.
TypesOf(rows, hits) == {rows[id].event_type : id \in hits}
OfType(rows, hits, type) == {id \in hits : rows[id].event_type = type}
GroupsOf(rows, hits, types) ==
    [i \in DOMAIN types |->
        [type |-> types[i], n |-> Cardinality(OfType(rows, hits, types[i]))]]
InGroups(rows, hits, types, S) ==
    {id \in hits : \E i \in S : rows[id].event_type = types[i]}
Numbers(groups) == [i \in DOMAIN groups |-> groups[i].n]
Errors(groups) == {i \in DOMAIN groups : groups[i].type \notin ErrorFree}

\* The groups of some of the types count the rows that have one of these types.
LEMMA GroupsCount ==
    ASSUME NEW rows, NEW hits, IsFiniteSet(hits),
           NEW T, T = TypesOf(rows, hits), NEW types, types = SetToSeq(T),
           NEW groups, groups = GroupsOf(rows, hits, types),
           NEW counts, counts = Numbers(groups), NEW S, S \subseteq DOMAIN groups
    PROVE  Sum(counts, S) = Cardinality(InGroups(rows, hits, types, S))
<1> DEFINE E == InGroups(rows, hits, types, S)
<1>1. IsFiniteSet(T)
    BY ValuesAreFinite DEF TypesOf
<1>2. PICK k \in Nat : k = Cardinality(T)
    BY <1>1, SetToSeqLists
<1>a. /\ T = {rows[id].event_type : id \in hits}
      /\ groups = [i \in DOMAIN types |->
                     [type |-> types[i], n |-> Cardinality(OfType(rows, hits, types[i]))]]
      /\ counts = [i \in DOMAIN groups |-> groups[i].n]
    BY DEF TypesOf, GroupsOf, Numbers
<1>3. types \in [1..k -> T] /\ \A x \in T : \E i \in 1..k : types[i] = x
    BY <1>1, <1>2, SetToSeqLists
<1>4. \A i, j \in 1..k : types[i] = types[j] => i = j
    BY <1>1, <1>3, SetToSeqLists DEF IsInjective
<1> DEFINE pos == [id \in hits |-> CHOOSE i \in 1..k : types[i] = rows[id].event_type]
<1>5. \A id \in hits : pos[id] \in 1..k /\ types[pos[id]] = rows[id].event_type
  <2> SUFFICES ASSUME NEW id \in hits
               PROVE  pos[id] \in 1..k /\ types[pos[id]] = rows[id].event_type
      OBVIOUS
  <2>1. \E i \in 1..k : types[i] = rows[id].event_type
      BY <1>3, <1>a
  <2> QED
      BY <2>1
<1>6. DOMAIN groups = 1..k /\ DOMAIN types = 1..k /\ IsFiniteSet(1..k)
    BY <1>3, <1>a, FS_Interval
<1>7. IsFiniteSet(S)
    BY <1>6, FS_Subset
<1>8. ASSUME NEW i \in S
      PROVE  counts[i] = Cardinality(OfType(rows, hits, types[i]))
  <2>1. i \in DOMAIN groups /\ i \in DOMAIN types
      BY <1>6
  <2>2. PICK n : n = Cardinality(OfType(rows, hits, types[i]))
      OBVIOUS
  <2>5. groups[i] = [type |-> types[i], n |-> n]
      BY <1>a, <2>1, <2>2, Zenon
  <2>3. groups[i].n = n
      BY <2>5
  <2>4. counts[i] = groups[i].n
      BY <1>a, <2>1
  <2> QED
      BY <2>2, <2>3, <2>4
<1> HIDE DEF pos
<1>9. ASSUME NEW i \in S PROVE counts[i] = Cardinality(Valued(hits, pos, {i}))
  <2>0. i \in 1..k
      BY <1>6
  <2>1. ASSUME NEW id \in hits PROVE rows[id].event_type = types[i] <=> pos[id] \in {i}
    <3>1. pos[id] \in 1..k /\ types[pos[id]] = rows[id].event_type
        BY <1>5
    <3>2. types[pos[id]] = types[i] <=> pos[id] = i
        BY <1>4, <2>0, <3>1
    <3> QED
        BY <3>1, <3>2
  <2>2. OfType(rows, hits, types[i]) = Valued(hits, pos, {i})
      BY <2>1 DEF Valued, OfType
  <2> QED
      BY <1>8, <2>2
<1>10. E = Valued(hits, pos, S)
  <2>1. ASSUME NEW id \in hits
        PROVE  (\E i \in S : rows[id].event_type = types[i]) <=> pos[id] \in S
    <3>1. pos[id] \in 1..k /\ types[pos[id]] = rows[id].event_type
        BY <1>5
    <3>2. ASSUME NEW i \in S PROVE types[pos[id]] = types[i] <=> pos[id] = i
      <4>1. i \in 1..k
          BY <1>6
      <4> QED
          BY <1>4, <3>1, <4>1
    <3> QED
        BY <3>1, <3>2
  <2> QED
      BY <2>1 DEF Valued, InGroups
<1>11. SumOf(counts, S) = Cardinality(Valued(hits, pos, S))
  <2>1. PICK v : v = pos
      OBVIOUS
  <2>2. \A x \in S : counts[x] = Cardinality(Valued(hits, v, {x}))
      BY <1>9, <2>1
  <2>3. PICK D, G, c : D = hits /\ G = S /\ c = counts
      OBVIOUS
  <2>4. IsFiniteSet(D) /\ IsFiniteSet(G) /\ \A x \in G : c[x] = Cardinality(Valued(D, v, {x}))
      BY <1>7, <2>2, <2>3
  <2>5. SumOf(c, G) = Cardinality(Valued(D, v, G))
      BY <2>4, CountByValue
  <2> QED
      BY <2>1, <2>3, <2>5
<1>12. Sum(counts, S) = SumOf(counts, S)
    BY DEF Sum, SumOf
<1> QED
    BY <1>10, <1>11, <1>12

\* Every statement of the plan ran on the same table.
OnOneTable(p, ts, rows) == \A i \in 1..Len(p) : ts[i] = rows

\* The overview's own two sums.
LEMMA OverviewAddsUp ==
    ASSUME list = "overview", NEW r, NEW p, NEW rs, NEW ts, Complete(r, p, rs, ts),
           NEW rows, OnOneTable(p, ts, rows),
           NEW counts, counts = Numbers(rs[2]), NEW errs, errs = Errors(rs[2])
    PROVE  /\ rs[1][1].total = Sum(counts, DOMAIN rs[2])
           /\ rs[1][1].errors = Sum(counts, errs)
           /\ \A i \in 3..7 : Len(rs[i]) <= rs[1][1].total
           /\ Len(rs[5]) = rs[1][1].total
<1>1. OverviewPlan(p, r)
    BY OverviewIs DEF Complete
<1>2. Len(p) = 7
    BY <1>1 DEF OverviewPlan
<1>3. \A i \in 1..7 : IsTable(list, ts[i]) /\ ts[i] = rows /\ rs[i] = Result(p[i], ts[i])
    BY <1>2 DEF Complete, OnOneTable
<1>4. 1 \in 1..7 /\ 2 \in 1..7 /\ 5 \in 1..7 /\ 5 \in 3..7 /\ \A i \in 3..7 : i \in 1..7
    OBVIOUS
<1>5. IsTable(list, rows) /\ \A i \in 1..7 : rs[i] = Result(p[i], rows)
  <2>1. IsTable(list, ts[1]) /\ ts[1] = rows
      BY <1>3, <1>4
  <2>2. IsTable(list, rows)
      BY <2>1
  <2> QED
      BY <1>3, <2>2
<1>6. PICK hits : hits = Wanted(r, rows)
    OBVIOUS
<1>7. IsFiniteSet(hits) /\ Cardinality(hits) \in Nat /\ hits \subseteq DOMAIN rows
    BY <1>5, <1>6, WantedIs
<1>8. \A i \in {1, 2, 5} : Found(p[i], rows) = hits
    BY <1>1, <1>5, <1>6 DEF OverviewPlan
<1>9. rs[1] = <<[total |-> Cardinality(hits),
                 errors |-> Cardinality({id \in hits : rows[id].event_type \notin ErrorFree})]>>
  <2>1. p[1].shape = "sum" /\ Found(p[1], rows) = hits /\ rs[1] = Result(p[1], rows)
      BY <1>1, <1>4, <1>5, <1>8 DEF OverviewPlan
  <2> QED
      BY <2>1 DEF Result
<1>10. /\ rs[1][1].total = Cardinality(hits)
       /\ rs[1][1].errors = Cardinality({id \in hits : rows[id].event_type \notin ErrorFree})
    BY <1>9
<1>11. PICK T : T = TypesOf(rows, hits)
    OBVIOUS
<1>12. PICK types : types = SetToSeq(T)
    OBVIOUS
<1>13. PICK groups : groups = rs[2]
    OBVIOUS
<1>14. groups = GroupsOf(rows, hits, types)
  <2>1. p[2].shape = "by type" /\ Found(p[2], rows) = hits /\ rs[2] = Result(p[2], rows)
      BY <1>1, <1>4, <1>5, <1>8 DEF OverviewPlan
  <2> QED
      BY <1>11, <1>12, <1>13, <2>1 DEF Result, TypesOf, OfType, GroupsOf
<1>15. counts = Numbers(groups)
    BY <1>13
<1>16. \A x \in T : \E i \in DOMAIN groups : types[i] = x
  <2>1. IsFiniteSet(T)
      BY <1>7, <1>11, ValuesAreFinite DEF TypesOf
  <2>2. types \in [1..Cardinality(T) -> T] /\ \A x \in T : \E i \in 1..Cardinality(T) : types[i] = x
      BY <1>12, <2>1, SetToSeqLists
  <2>3. DOMAIN groups = 1..Cardinality(T)
      BY <1>14, <2>2 DEF GroupsOf
  <2> QED
      BY <2>2, <2>3
<1>17. \A i \in DOMAIN groups : groups[i].type = types[i]
    BY <1>14 DEF GroupsOf
<1>18. ASSUME NEW S, S \subseteq DOMAIN groups
       PROVE  Sum(counts, S) = Cardinality(InGroups(rows, hits, types, S))
    BY <1>7, <1>11, <1>12, <1>14, <1>15, <1>18, GroupsCount
<1>19. Sum(counts, DOMAIN groups) = Cardinality(hits)
  <2>1. hits = InGroups(rows, hits, types, DOMAIN groups)
      BY <1>11, <1>16 DEF InGroups, TypesOf
  <2> QED
      BY <1>18, <2>1
<1>20. Sum(counts, errs) = rs[1][1].errors
  <2>1. PICK E : E = {id \in hits : rows[id].event_type \notin ErrorFree}
      OBVIOUS
  <2>2. errs \subseteq DOMAIN groups /\ \A i \in DOMAIN groups : i \in errs <=> types[i] \notin ErrorFree
      BY <1>13, <1>17 DEF Errors
  <2>3. \A id \in hits : rows[id].event_type \notin ErrorFree
                          <=> \E i \in errs : rows[id].event_type = types[i]
      BY <1>11, <1>16, <2>2 DEF TypesOf
  <2>4. E = InGroups(rows, hits, types, errs)
      BY <2>1, <2>3 DEF InGroups
  <2> QED
      BY <1>10, <1>18, <2>1, <2>2, <2>4
<1>21. ASSUME NEW i \in 3..7
       PROVE  /\ Len(rs[i]) <= Cardinality(hits)
              /\ Found(p[i], rows) = hits => Len(rs[i]) = Cardinality(hits)
  <2>1. /\ p[i].shape = "top" /\ p[i].order = "none" /\ Found(p[i], rows) \subseteq hits
        /\ rs[i] = Result(p[i], rows)
      BY <1>1, <1>4, <1>5, <1>6 DEF OverviewPlan
  <2>2. PICK ids, order, q : ids = Found(p[i], rows) /\ order = "none" /\ q = rs[i]
      OBVIOUS
  <2>3. q = Ordered(order, rows, ids)
      BY <2>1, <2>2 DEF Result
  <2>4. IsFiniteSet(ids) /\ Cardinality(ids) <= Cardinality(hits) /\ ids \subseteq Int
    <3>1. ids \subseteq hits /\ hits \subseteq Int
        BY <1>5, <1>7, <2>1, <2>2 DEF IsTable
    <3> QED
        BY <1>7, <3>1, FS_Subset
  <2>5. Comparable(order, rows, ids)
      BY <2>2, <2>4 DEF Comparable
  <2>6. Sorted(q, order, rows, ids)
      BY <2>3, <2>5, OrderedIs
  <2>7. Len(q) = Cardinality(ids)
      BY <2>6 DEF Sorted
  <2> QED
      BY <2>2, <2>4, <2>7
<1>22. Len(rs[5]) = Cardinality(hits)
    BY <1>4, <1>8, <1>21
<1>23. \A i \in 3..7 : Len(rs[i]) <= Cardinality(hits)
    BY <1>21
<1> QED
    BY <1>10, <1>13, <1>19, <1>20, <1>22, <1>23

\* The rows of a page: what the total leaves, at most a page.
LEMMA RestIs ==
    ASSUME NEW n \in Nat, NEW s \in Nat, NEW k \in Nat, NEW m \in Nat,
           m = (IF n <= k THEN 0 ELSE IF n - k <= s THEN n - k ELSE s)
    PROVE  m = Max({0, Min({s, n - k})})
<1>1. PICK d \in Int : d = n - k
    OBVIOUS
<1>2. PICK t \in Int : t = IF s <= d THEN s ELSE d
    OBVIOUS
<1>3. Min({s, d}) = t
  <2> DEFINE T == {s, d}
  <2>1. T \subseteq Int /\ T # {} /\ t \in T /\ \A y \in T : t <= y
      BY <1>1, <1>2
  <2> QED
      BY <2>1 DEF T, Min
<1>4. Max({0, t}) = m
  <2> DEFINE T == {0, t}
  <2>1. T \subseteq Int /\ T # {} /\ m \in T /\ \A y \in T : m >= y
      BY <1>1, <1>2
  <2> QED
      BY <2>1 DEF Max
<1> QED
    BY <1>1, <1>3, <1>4

\* An answer that is complete adds up.
LEMMA CompleteAddsUp ==
    ASSUME list \in ListNames, Complete(req, plan, results, seen),
           DOMAIN seen = 1..Len(plan)
    PROVE  AnswerAddsUp
<1>0. Planned(req, plan)
    BY DEF Complete
<1>1. Len(plan) \in Nat \ {0} /\ plan # <<>> /\ (Paging <=> list \in Pagers)
    BY <1>0, PlansAre DEF Paging
<1>2. PICK rows : rows = seen[1]
    OBVIOUS
<1>3. SUFFICES ASSUME Undisturbed PROVE AnswerAddsUp
    BY DEF AnswerAddsUp
<1>4. \A i \in 1..Len(plan) : seen[i] = rows
    BY <1>2, <1>3 DEF Undisturbed
<1>5. ASSUME list = "overview"
      PROVE  LET sum    == results[1][1]
                 groups == results[2]
                 counts == [i \in DOMAIN groups |-> groups[i].n]
                 errs   == {i \in DOMAIN groups : groups[i].type \notin ErrorFree}
             IN  /\ sum.total = Sum(counts, DOMAIN groups)
                 /\ sum.errors = Sum(counts, errs)
                 /\ \A i \in 3..7 : Len(results[i]) <= sum.total
                 /\ Len(results[5]) = sum.total
  <2>1. PICK counts : counts = Numbers(results[2])
      OBVIOUS
  <2>2. PICK errs : errs = Errors(results[2])
      OBVIOUS
  <2>4. PICK r, p, rs, ts : r = req /\ p = plan /\ rs = results /\ ts = seen
      OBVIOUS
  <2>5. Complete(r, p, rs, ts) /\ OnOneTable(p, ts, rows)
      BY <1>4, <2>4 DEF OnOneTable
  <2>6. counts = Numbers(rs[2]) /\ errs = Errors(rs[2])
      BY <2>1, <2>2, <2>4
  <2>7. /\ rs[1][1].total = Sum(counts, DOMAIN rs[2])
        /\ rs[1][1].errors = Sum(counts, errs)
        /\ \A i \in 3..7 : Len(rs[i]) <= rs[1][1].total
        /\ Len(rs[5]) = rs[1][1].total
      BY <1>5, <2>5, <2>6, OverviewAddsUp
  <2>3. /\ results[1][1].total = Sum(counts, DOMAIN results[2])
        /\ results[1][1].errors = Sum(counts, errs)
        /\ \A i \in 3..7 : Len(results[i]) <= results[1][1].total
        /\ Len(results[5]) = results[1][1].total
      BY <2>4, <2>7
  <2> QED
      BY <2>1, <2>2, <2>3 DEF Numbers, Errors
<1>6. ASSUME Paging, \A id \in DOMAIN rows : rows[id].joined, Skipped(req) <= MaxInt
      PROVE  Len(results[2]) = Max({0, Min({PageSize(req), results[1][1] - Skipped(req)})})
  <2>0. list \in Pagers
      BY <1>1, <1>6
  <2>1. /\ IsTable(list, seen[1]) /\ results[1] = <<Cardinality(Wanted(req, seen[1]))>>
        /\ results[2] = Window(InOrder(req, seen[2]), Skipped(req), PageSize(req))
      BY <1>6, <2>0, PageAnswer
  <2>2. Len(plan) = 2 /\ 2 \in 1..2
    <3>1. PlanFits(plan, req) /\ IsRequest(list, req)
        BY <1>0, <2>0, PagedPlans DEF Planned
    <3> QED
        BY <3>1, PagesAre
  <2>3. seen[2] = rows /\ IsTable(list, rows)
      BY <1>2, <1>4, <2>1, <2>2
  <2>4. PICK k \in Nat, s \in Nat : k = Skipped(req) /\ s = PageSize(req)
    <3>1. IsRequest(list, req)
        BY <1>0 DEF Planned
    <3> QED
        BY <3>1, PageSizeIs
  <2>5. PICK n \in Nat : n = Cardinality(Wanted(req, rows))
      BY <2>3, WantedIs
  <2>6. PICK ids : ids = {id \in Wanted(req, rows) : rows[id].joined}
      OBVIOUS
  <2>7. ids = Wanted(req, rows)
      BY <1>6, <2>3, <2>6, WantedIs
  <2>8. PICK q : q = InOrder(req, rows)
      OBVIOUS
  <2>9. Sorted(q, Order, rows, ids)
      BY <2>3, <2>6, <2>8, InOrderIs
  <2>10. Len(q) = n /\ q \in [1..n -> ids]
      BY <2>5, <2>7, <2>9 DEF Sorted
  <2>11. q \in Seq(ids)
      BY <2>10, SeqDef
  <2>12. PICK m \in Nat :
           /\ m = (IF Len(q) <= k THEN 0 ELSE IF Len(q) - k <= s THEN Len(q) - k ELSE s)
           /\ Len(Window(q, k, s)) = m
      BY <2>11, WindowIs
  <2>13. m = Max({0, Min({s, n - k})})
    <3>1. m = (IF n <= k THEN 0 ELSE IF n - k <= s THEN n - k ELSE s)
        BY <2>10, <2>12
    <3> QED
        BY <3>1, RestIs
  <2>14. results[1][1] = n /\ results[2] = Window(q, k, s)
      BY <1>2, <2>1, <2>3, <2>4, <2>5, <2>8
  <2> QED
      BY <2>4, <2>12, <2>13, <2>14
<1> QED
    BY <1>2, <1>5, <1>6 DEF AnswerAddsUp

-------------------------------------------------------------------------------
(***************************************************************************)
(* Lists that grow, requests that turn the page, tables that change.       *)
(***************************************************************************)
\* One more entry at the end of a list.
LEMMA AppendIs ==
    ASSUME NEW q, IsList(q), NEW e
    PROVE  /\ IsList(Append(q, e)) /\ Len(q) \in Nat /\ Len(Append(q, e)) = Len(q) + 1
           /\ Append(q, e)[Len(q) + 1] = e
           /\ \A i \in 1..Len(q) : Append(q, e)[i] = q[i]
<1>1. PICK n \in Nat : q = [i \in 1..n |-> q[i]]
    BY DEF IsList
<1>2. PICK W : W = {q[i] : i \in 1..n} \cup {e}
    OBVIOUS
<1>3. q \in [1..n -> W] /\ e \in W
    BY <1>1, <1>2
<1>4. q \in Seq(W) /\ Len(q) = n
    BY <1>3, ListIs
<1>5. PICK s : s = Append(q, e)
    OBVIOUS
<1>6. /\ s \in Seq(W) /\ Len(s) = n + 1 /\ s[n + 1] = e
      /\ \A i \in 1..n : s[i] = q[i]
    BY <1>3, <1>4, <1>5
<1>7. s = [i \in 1..(n + 1) |-> s[i]] /\ n + 1 \in Nat
    BY <1>6
<1> QED
    BY <1>4, <1>5, <1>6, <1>7 DEF IsList

\* The empty list.
LEMMA EmptyIsList == IsList(<<>>) /\ Len(<<>>) = 0
<1>1. <<>> = [i \in 1..0 |-> <<>>[i]]
    OBVIOUS
<1> QED
    BY <1>1 DEF IsList

\* A list is all of itself.
LEMMA WholeList ==
    ASSUME NEW q, IsList(q)
    PROVE  Len(q) \in Nat /\ SubSeq(q, 1, Len(q)) = q
<1>1. PICK n \in Nat : q = [i \in 1..n |-> q[i]]
    BY DEF IsList
<1>2. PICK W : W = {q[i] : i \in 1..n}
    OBVIOUS
<1>3. q \in [1..n -> W]
    BY <1>1, <1>2
<1>4. q \in Seq(W) /\ Len(q) = n
    BY <1>3, ListIs
<1>5. PICK s : s = SubSeq(q, 1, n)
    OBVIOUS
<1>6. s \in Seq(W) /\ Len(s) = n /\ \A i \in 1..n : s[i] = q[i]
    BY <1>4, <1>5
<1>7. s = q
    BY <1>4, <1>6
<1> QED
    BY <1>4, <1>5, <1>7

\* Which columns and fields have a meaning of their own.
LEMMA ColumnNames ==
    ASSUME NEW l \in ListNames
    PROVE  /\ {"sort_no", "user_id", "joined", "page_index", "page_size"}
                 \cap DOMAIN FieldsOf(l) = {}
           /\ "id" \in DOMAIN FieldsOf(l) => FieldsOf(l)["id"] \in {"key", "number"}
<1>1. CASE l \in {"products", "orders", "points", "notifications"}
    BY <1>1 DEF FieldsOf, ProductListReq, OrderListReq, PointsListReq, NotificationListReq
<1>2. CASE l = "teachers"
    BY <1>2 DEF FieldsOf, TeacherListReq
<1>3. CASE l \in {"sales", "resigns"}
    BY <1>3 DEF FieldsOf, ResignListReq
<1>4. CASE l = "diagnoses"
    BY <1>4 DEF FieldsOf, DiagnoseListReq
<1>5. CASE l = "events"
    BY <1>5 DEF FieldsOf, MonEventListReq
<1>6. CASE l \in {"adminUsers", "alerts", "overview"}
    BY <1>6 DEF FieldsOf, AdminUserListReq, MonAlertListReq, MonOverviewReq
<1>7. CASE l \in {"modules", "items", "teacherDetail", "eventDetail"}
    BY <1>7 DEF FieldsOf, AbModuleListReq, AbModuleItemListReq
<1>8. CASE l \in {"catalog", "options", "boundUsers", "moduleOptions"}
    BY <1>8 DEF FieldsOf, NoFields
<1> QED
    BY <1>1, <1>2, <1>3, <1>4, <1>5, <1>6, <1>7, <1>8 DEF ListNames, Pagers

\* The next page is asked for with the rest of the request as it was.
LEMMA TurnedIsRequest ==
    ASSUME list \in ListNames, NEW r, IsRequest(list, r), NEW n \in Int,
           NEW t, t = [r EXCEPT !.page_index = n]
    PROVE  IsRequest(list, t)
<1>1. {"page_index", "page_size"} \cap DOMAIN FieldsOf(list) = {}
    BY ColumnNames
<1>2. "page_index" \in DOMAIN r /\ DOMAIN t = DOMAIN r
    BY DEF IsRequest
<1>3. t.page_index = n /\ \A f \in DOMAIN r : f # "page_index" => t[f] = r[f]
    BY <1>2
<1>4. \A f \in DOMAIN FieldsOf(list) : t[f] = r[f]
    BY <1>1, <1>3 DEF IsRequest
<1>5. t.page_size = r.page_size
    BY <1>3 DEF IsRequest
<1> QED
    BY <1>2, <1>3, <1>4, <1>5 DEF IsRequest

\* A row that is put, under the key that it gets.
LEMMA PutIsTable ==
    ASSUME list \in ListNames, IsTable(list, table), NEW id \in Nat \ {0},
           NEW row, IsRow(list, row), NEW new, new = Put(id, row)
    PROVE  IsTable(list, new)
<1>1. PICK own : own = [c \in DOMAIN row |-> IF c = "id" THEN id ELSE row[c]]
    OBVIOUS
<1>2. new = [x \in DOMAIN table \cup {id} |-> IF x = id THEN own ELSE table[x]]
    BY <1>1 DEF Put
<1>3. IsRow(list, own)
  <2>1. /\ {"sort_no", "user_id", "joined"} \cap DOMAIN FieldsOf(list) = {}
        /\ "id" \in DOMAIN FieldsOf(list) => FieldsOf(list)["id"] \in {"key", "number"}
      BY ColumnNames
  <2>2. DOMAIN own = DOMAIN row /\ \A c \in DOMAIN row : c # "id" => own[c] = row[c]
      BY <1>1
  <2>3. "id" \in DOMAIN row => own.id = id
      BY <1>1
  <2>4. ASSUME NEW c \in DOMAIN FieldsOf(list) PROVE own[c] \in Column(FieldsOf(list)[c])
    <3>1. c \in DOMAIN row /\ row[c] \in Column(FieldsOf(list)[c])
        BY DEF IsRow
    <3>2. CASE c # "id"
        BY <2>2, <3>1, <3>2
    <3>3. CASE c = "id"
      <4>1. FieldsOf(list)[c] \in {"key", "number"} /\ own[c] = id
          BY <2>1, <2>3, <3>1, <3>3
      <4>2. id \in Int
          OBVIOUS
      <4> QED
          BY <4>1, <4>2 DEF Column
    <3> QED
        BY <3>2, <3>3
  <2>5. own.sort_no = row.sort_no /\ own.user_id = row.user_id /\ own.joined = row.joined
      BY <2>2 DEF IsRow
  <2> QED
      BY <2>2, <2>4, <2>5 DEF IsRow
<1>4. "id" \in DOMAIN own => own.id = id
    BY <1>1
<1>5. IsFiniteSet(DOMAIN table \cup {id}) /\ DOMAIN table \cup {id} \subseteq Nat \ {0}
    BY FS_AddElement DEF IsTable
<1>6. \A x \in DOMAIN table \cup {id} : new[x] = IF x = id THEN own ELSE table[x]
    BY <1>2
<1>7. DOMAIN new = DOMAIN table \cup {id}
    BY <1>2
<1> QED
    BY <1>3, <1>4, <1>5, <1>6, <1>7 DEF IsTable

\* Whatever the writer does to a table leaves a table.
LEMMA ChangesAreTables ==
    ASSUME list \in ListNames, IsTable(list, table),
           \A row \in scope.rows : IsRow(list, row), NEW new \in Changes
    PROVE  IsTable(list, new)
<1>1. IsFiniteSet(DOMAIN table) /\ DOMAIN table \subseteq Nat \ {0}
    BY DEF IsTable
<1>2. NextID \in Nat \ {0}
  <2>1. PICK T : T = DOMAIN table \cup {0}
      OBVIOUS
  <2>2. IsFiniteSet(T) /\ T \subseteq Int /\ 0 \in T /\ T \subseteq Nat
      BY <1>1, <2>1, FS_AddElement
  <2>3. Max(T) \in T
      BY <2>2, MaxIs
  <2> QED
      BY <2>1, <2>2, <2>3 DEF NextID
<1>3. CASE \E id \in DOMAIN table \cup {NextID}, row \in scope.rows : new = Put(id, row)
    BY <1>1, <1>2, <1>3, PutIsTable
<1>4. CASE \E id \in DOMAIN table : new = [x \in DOMAIN table \ {id} |-> table[x]]
  <2>1. PICK id \in DOMAIN table : new = [x \in DOMAIN table \ {id} |-> table[x]]
      BY <1>4
  <2>2. IsFiniteSet(DOMAIN table \ {id})
      BY <1>1, FS_RemoveElement
  <2>3. DOMAIN new = DOMAIN table \ {id} /\ \A x \in DOMAIN new : new[x] = table[x]
      BY <2>1
  <2> QED
      BY <2>2, <2>3 DEF IsTable
<1> QED
    BY <1>3, <1>4 DEF Changes

-------------------------------------------------------------------------------
(***************************************************************************)
(* Every step of the lists is a step of the wrapper's, or none.            *)
(***************************************************************************)
\* The lists' two callers are callers of the wrapper's.
LEMMA TwoCallers == Reader \in Callers /\ Writer \in Callers /\ Reader # Writer
BY ListsAssumption

\* Whatever the reader or the writer does, its call takes a step the wrapper allows.
LEMMA ListsStepTheLog ==
    ASSUME [Next]_vars
    PROVE  [SqlNext]_sqlVars
<1>1. Reader \in Callers /\ Writer \in Callers
    BY TwoCallers
<1>2. CASE UNCHANGED vars
    BY <1>2 DEF vars, sqlVars
<1>3. CASE Ask \/ TurnPage
    BY <1>3 DEF Ask, TurnPage
<1>4. CASE Leave
    BY <1>1, <1>4 DEF Leave, SqlNext
<1>5. CASE Issue
  <2>1. PICK args \in BOOLEAN : args = (Current.args # <<>>)
      OBVIOUS
  <2>2. Start(Reader, "query", args) /\ "query" \in Ops
      BY <1>5, <2>1 DEF Issue, Ops
  <2> QED
      BY <1>1, <2>2 DEF SqlNext
<1>6. CASE ReaderMoves \/ ReaderFaults \/ WriterMoves \/ WriterFaults
    BY <1>1, <1>6 DEF ReaderMoves, ReaderFaults, WriterMoves, WriterFaults, SqlNext
<1>7. CASE Rejected \/ QueryRuns \/ ReadRow \/ Return
    BY <1>1, <1>7 DEF Rejected, QueryRuns, ReadRow, Return, SqlNext, Faulty
<1>8. CASE ReadEnd \/ ReadBreaks
    BY <1>1, <1>8 DEF ReadEnd, ReadBreaks, SqlNext
<1>9. CASE WriteBegins \/ WriteInTx
  <2>1. /\ "exec" \in Ops /\ "BEGIN" \in Ops
        /\ Start(Writer, "exec", TRUE) \/ Start(Writer, "BEGIN", FALSE)
      BY <1>9 DEF WriteBegins, WriteInTx, Ops
  <2> QED
      BY <1>1, <2>1 DEF SqlNext
<1>10. CASE WriteRuns \/ WriteReturns
    BY <1>1, <1>10 DEF WriteRuns, WriteReturns, SqlNext
<1>11. CASE WriteCommits \/ WriteRollsBack
    BY <1>1, <1>11 DEF WriteCommits, WriteRollsBack, SqlNext
<1> QED
    BY <1>2, <1>3, <1>4, <1>5, <1>6, <1>7, <1>8, <1>9, <1>10, <1>11 DEF Next

\* The lists and their writer use the wrapper as its specification says: what is
\* proved of internal/database/sqllog.go for any callers holds of the handlers that
\* list and of the statements that change the table.
THEOREM ListsUseTheLog == Spec => SqlSpec
<1>1. Init => SqlInit
    BY DEF Init
<1> QED
    BY <1>1, ListsStepTheLog, PTL DEF Spec, SqlSpec

-------------------------------------------------------------------------------
(***************************************************************************)
(* Where a call goes in a step, and who it leaves alone.                   *)
(***************************************************************************)
\* A call starts.
LEMMA StartGoes ==
    ASSUME SqlTypeOK, NEW c \in Callers, NEW op, NEW args, Start(c, op, args)
    PROVE  /\ call[c].at = "idle" /\ call'[c].at \in Before1 /\ call'[c].op = op
           /\ \A d \in Callers \ {c} : call'[d] = call[d]
           /\ tx' = tx
<1>1. call' = [call EXCEPT ![c] =
         [NoCall EXCEPT !.at = IF tx[c] = "open" THEN "conn" ELSE "pool",
                        !.op = op, !.args = args]]
    BY DEF Start
<1>2. PICK next : next = [NoCall EXCEPT !.at = IF tx[c] = "open" THEN "conn" ELSE "pool",
                                        !.op = op, !.args = args]
    OBVIOUS
<1>3. next.at \in Before1 /\ next.op = op
    BY <1>2 DEF NoCall, Before1
<1>4. call' = [call EXCEPT ![c] = next]
    BY <1>1, <1>2
<1> QED
    BY <1>3, <1>4 DEF Start, SqlTypeOK

\* A call moves on towards the driver.
LEMMA QuietGoes ==
    ASSUME SqlTypeOK, NEW c \in Callers, Quiet(c)
    PROVE  /\ call[c].at \in Before1 /\ call'[c].at \in Before1 /\ call'[c].op = call[c].op
           /\ \A d \in Callers \ {c} : call'[d] = call[d]
           /\ tx' = tx
<1>1. call[c] \in CallType
    BY DEF SqlTypeOK
<1>2. PICK at \in Before1 : call' = [call EXCEPT ![c].at = at]
    BY DEF Quiet, Take, Connect, ErrSkip, PrepareContext, Older, Move, Before1
<1>3. call[c].at \in Before1
    BY DEF Quiet, Take, Connect, MustDial, ErrSkip, PrepareContext, Older, FallsBack, Before1
<1>4. tx' = tx
    BY DEF Quiet, Take, Connect, ErrSkip, PrepareContext, Older
<1> QED
    BY <1>1, <1>2, <1>3, <1>4 DEF SqlTypeOK, CallType

\* A call is retried or given up.
LEMMA FaultyGoes ==
    ASSUME SqlTypeOK, NEW c \in Callers, Faulty(c)
    PROVE  /\ call[c].at \in Before1 /\ call'[c].at \in {"pool", "failed", "lost"}
           /\ call'[c].op = call[c].op
           /\ \A d \in Callers \ {c} : call'[d] = call[d] /\ tx'[d] = tx[d]
           /\ tx[c] = "none" => tx'[c] = "none"
<1>1. call[c] \in CallType
    BY DEF SqlTypeOK
<1>2. call[c].at \in Before1
    BY DEF Faulty, Discard, ConnectFails, MustDial, PrepareFails, RunFails, BadConn, AtDriver,
           Before1
<1>3. /\ call'[c].at \in {"pool", "failed", "lost"} /\ call'[c].op = call[c].op
      /\ \A d \in Callers \ {c} : call'[d] = call[d]
  <2>1. CASE Discard(c)
      BY <1>1, <2>1 DEF Discard, SqlTypeOK, CallType
  <2>2. CASE ConnectFails(c) \/ PrepareFails(c)
      BY <1>1, <2>2 DEF ConnectFails, PrepareFails, Move, SqlTypeOK, CallType
  <2>3. CASE RunFails(c)
      BY <1>1, <2>3 DEF RunFails, SqlTypeOK, CallType
  <2>4. CASE BadConn(c)
      BY <1>1, <2>4 DEF BadConn, SqlTypeOK, CallType
  <2> QED
      BY <2>1, <2>2, <2>3, <2>4 DEF Faulty
<1>4. /\ \A d \in Callers \ {c} : tx'[d] = tx[d]
      /\ tx[c] = "none" => tx'[c] = "none"
  <2>1. CASE tx' = tx
      BY <2>1
  <2>2. CASE tx[c] = "open" /\ tx' = [tx EXCEPT ![c] = "broken"]
      BY <2>2 DEF SqlTypeOK
  <2> QED
      BY <2>1, <2>2 DEF Faulty, Discard, ConnectFails, PrepareFails, RunFails, BadConn
<1> QED
    BY <1>2, <1>3, <1>4

\* A statement runs.
LEMMA RunsGoes ==
    ASSUME SqlTypeOK, NEW c \in Callers, Runs(c)
    PROVE  /\ call[c].at \in Before1
           /\ call'[c].at = (IF call[c].op = "query" THEN "rows" ELSE "ok")
           /\ call'[c].op = call[c].op /\ call'[c].got = call[c].got
           /\ \A d \in Callers \ {c} : call'[d] = call[d] /\ tx'[d] = tx[d]
           /\ call[c].op # "BEGIN" => tx' = tx
<1>1. call[c] \in CallType
    BY DEF SqlTypeOK
<1>2. call[c].at \in Before1
    BY DEF Runs, AtDriver, Before1
<1>3. call' = [call EXCEPT ![c].at = IF call[c].op = "query" THEN "rows" ELSE "ok",
                           ![c].tries = @ + 1]
    BY DEF Runs
<1>4. /\ call'[c].at = (IF call[c].op = "query" THEN "rows" ELSE "ok")
      /\ call'[c].op = call[c].op /\ call'[c].got = call[c].got
      /\ \A d \in Callers \ {c} : call'[d] = call[d]
    BY <1>1, <1>3 DEF SqlTypeOK, CallType
<1>5. /\ \A d \in Callers \ {c} : tx'[d] = tx[d]
      /\ call[c].op # "BEGIN" => tx' = tx
    BY DEF Runs, SqlTypeOK
<1> QED
    BY <1>2, <1>4, <1>5

\* A row is read, or the set of rows is closed.
LEMMA RowsGo ==
    ASSUME SqlTypeOK, NEW c \in Callers, NEW broken \in BOOLEAN,
           NextRow(c) \/ CloseRows(c, broken)
    PROVE  /\ call[c].at = "rows"
           /\ call'[c].op = call[c].op
           /\ NextRow(c) => call'[c].at = "rows" /\ call'[c].got = call[c].got + 1
           /\ CloseRows(c, broken) =>
                 call'[c].at = (IF broken THEN "failed" ELSE "ok") /\ call'[c].got = call[c].got
           /\ \A d \in Callers \ {c} : call'[d] = call[d]
           /\ tx' = tx
<1>1. call[c] \in CallType
    BY DEF SqlTypeOK
<1>2. call[c].at = "rows" /\ tx' = tx
    BY DEF NextRow, CloseRows
<1>3. CASE NextRow(c)
  <2>1. /\ call'[c].at = "rows" /\ call'[c].got = call[c].got + 1
        /\ call'[c].op = call[c].op /\ \A d \in Callers \ {c} : call'[d] = call[d]
      BY <1>1, <1>2, <1>3 DEF NextRow, SqlTypeOK, CallType
  <2>2. CloseRows(c, broken) => FALSE
    <3>1. CloseRows(c, broken) => call'[c].at # "rows"
        BY <1>1, <1>2 DEF CloseRows, Move, SqlTypeOK, CallType
    <3> QED
        BY <2>1, <3>1
  <2> QED
      BY <1>2, <2>1, <2>2
<1>4. CASE CloseRows(c, broken)
  <2>1. /\ call'[c].at = (IF broken THEN "failed" ELSE "ok") /\ call'[c].got = call[c].got
        /\ call'[c].op = call[c].op /\ \A d \in Callers \ {c} : call'[d] = call[d]
      BY <1>1, <1>2, <1>4 DEF CloseRows, Move, SqlTypeOK, CallType
  <2>2. NextRow(c) => FALSE
    <3>1. NextRow(c) => call'[c].at = "rows"
        BY <1>1, <1>2 DEF NextRow, SqlTypeOK, CallType
    <3> QED
        BY <2>1, <3>1
  <2> QED
      BY <1>2, <2>1, <2>2
<1> QED
    BY <1>3, <1>4

\* A call returns.
LEMMA FinishGoes ==
    ASSUME SqlTypeOK, NEW c \in Callers, Finish(c)
    PROVE  /\ call[c].at \in {"ok", "failed", "lost"}
           /\ call'[c].at = "idle" /\ call'[c].op = "none"
           /\ \A d \in Callers \ {c} : call'[d] = call[d]
           /\ tx' = tx
BY DEF Finish, SqlTypeOK, NoCall

\* A transaction ends.
LEMMA EndTxGoes ==
    ASSUME SqlTypeOK, NEW c \in Callers, NEW op, EndTx(c, op)
    PROVE  /\ call[c].at = "idle" /\ call' = call
           /\ \A d \in Callers \ {c} : tx'[d] = tx[d]
BY DEF EndTx, SqlTypeOK

-------------------------------------------------------------------------------
(***************************************************************************)
(* The inductive invariant of the lists.                                   *)
(***************************************************************************)
IsChange(ch) == ch = [to |-> ch.to, ran |-> ch.ran] /\ IsTable(list, ch.to)

\* The table, and the table the writer's statement will make of it.
TablesOK ==
    /\ scope \in Scopes /\ IsTable(list, table)
    /\ change # Nil => IsChange(change)
    /\ call[Writer].at \in Before1 => IsChange(change)

\* The reader only queries, out of any transaction, while there is no answer yet.
ReaderOK ==
    /\ tx[Reader] = "none" /\ call[Reader].op \in {"query", "none"}
    /\ status # 0 \/ plan = <<>> => call[Reader].at = "idle"

\* Each result is its statement's, on a table that was there.
Returned ==
    \A i \in 1..Len(results) :
        IsTable(list, seen[i]) /\ results[i] = Result(plan[i], seen[i])

\* The rows of the statement that is under way.
Reading ==
    /\ Len(seen) = Len(results) + 1 /\ IsTable(list, seen[Len(results) + 1])
    /\ found = Result(Current, seen[Len(results) + 1])
    /\ call[Reader].got <= Len(found)
    /\ call[Reader].at = "ok" => call[Reader].got = Len(found)

\* A plan is its request's, its results come one by one, the tables they were
\* read from with them; and there is an answer when there are all.
AnswerOK ==
    /\ plan # <<>> => Planned(req, plan)
    /\ IsList(results) /\ IsList(seen) /\ IsList(found)
    /\ Returned
    /\ Running => Len(results) < Len(plan)
    /\ status = 200 => /\ plan # <<>>
                       /\ Len(results) = Len(plan) /\ Len(seen) = Len(results)
    /\ Running /\ call[Reader].at \in Before1 \cup {"idle"} => Len(seen) = Len(results)
    /\ call[Reader].at \in {"rows", "ok"} => Reading

\* The inductive invariant.
ListsInv == SqlInv /\ TablesOK /\ ReaderOK /\ AnswerOK

\* The tables, rows and requests that the instances choose from.
LEMMA ScopeIs ==
    ASSUME scope \in Scopes
    PROVE  /\ list \in ListNames
           /\ \A rows \in scope.tables : IsTable(list, rows)
           /\ \A row \in scope.rows : IsRow(list, row)
           /\ \A r \in Requests(scope) : r = Malformed \/ IsRequest(list, r)
BY ListsAssumption DEF list

\* A plan stays its request's while both stay.
LEMMA PlannedNext ==
    ASSUME scope' = scope, NEW r, NEW p, Planned(r, p), req' = r, plan' = p
    PROVE  Planned(req, plan)'
BY DEF Planned, Plan, MapOrders, list

\* The tables stay, whatever the reader does.
LEMMA ReaderKeepsTables ==
    ASSUME TablesOK, scope' = scope, table' = table, change' = change,
           call'[Writer] = call[Writer]
    PROVE  TablesOK'
BY DEF TablesOK, IsChange, list

\* The answer stays, whatever the writer does.
LEMMA WriterKeepsAnswer ==
    ASSUME ReaderOK, AnswerOK, scope' = scope, UNCHANGED readVars,
           call'[Reader] = call[Reader], tx'[Reader] = tx[Reader]
    PROVE  ReaderOK' /\ AnswerOK'
<1>1. /\ req' = req /\ plan' = plan /\ found' = found /\ results' = results
      /\ seen' = seen /\ status' = status
    BY DEF readVars
<1>2. ReaderOK'
    BY <1>1 DEF ReaderOK
<1>3. plan' # <<>> => Planned(req, plan)'
  <2>1. PICK r, p : r = req /\ p = plan
      OBVIOUS
  <2>2. plan # <<>> => Planned(r, p)
      BY <2>1 DEF AnswerOK
  <2> QED
      BY <1>1, <2>1, <2>2, PlannedNext
<1>4. Returned'
    BY <1>1 DEF AnswerOK, Returned, list
<1>5. call'[Reader].at \in {"rows", "ok"} => Reading'
    BY <1>1 DEF AnswerOK, Reading, Current, list
<1> QED
    BY <1>1, <1>2, <1>3, <1>4, <1>5 DEF AnswerOK, Running

\* A call of the reader moves before it runs, or is given up.
LEMMA MovesKeepAnswer ==
    ASSUME ReaderOK, AnswerOK, scope' = scope, UNCHANGED readVars,
           call[Reader].at \in Before1 \cup {"idle"},
           call'[Reader].at \in Before1 \cup {"failed", "lost"},
           call'[Reader].op \in {"query", "none"}, tx'[Reader] = "none", Running
    PROVE  ReaderOK' /\ AnswerOK'
<1>1. /\ req' = req /\ plan' = plan /\ found' = found /\ results' = results
      /\ seen' = seen /\ status' = status
    BY DEF readVars
<1>2. ReaderOK'
    BY <1>1 DEF ReaderOK, Running
<1>3. plan' # <<>> => Planned(req, plan)'
  <2>1. PICK r, p : r = req /\ p = plan
      OBVIOUS
  <2>2. plan # <<>> => Planned(r, p)
      BY <2>1 DEF AnswerOK
  <2> QED
      BY <1>1, <2>1, <2>2, PlannedNext
<1>4. Returned'
    BY <1>1 DEF AnswerOK, Returned, list
<1>5. call'[Reader].at \notin {"rows", "ok"}
    BY DEF Before1
<1> QED
    BY <1>1, <1>2, <1>3, <1>4, <1>5 DEF AnswerOK, Running

\* A request that is sent has its plan and no result yet.
LEMMA SendKeepsAnswer ==
    ASSUME list \in ListNames, scope' = scope, NEW r, r = Malformed \/ IsRequest(list, r),
           Send(r), call[Reader].at = "idle", call[Reader].op \in {"query", "none"},
           call'[Reader] = call[Reader], tx'[Reader] = "none"
    PROVE  ReaderOK' /\ AnswerOK'
<1>1. PICK fuzzy \in MapOrders(r) :
         LET p == Plan(r, fuzzy) IN
         /\ req' = r
         /\ plan' = IF p = Refused THEN <<>> ELSE p
         /\ status' = IF p = Refused THEN 400 ELSE 0
         /\ results' = <<>> /\ seen' = <<>> /\ found' = <<>>
    BY DEF Send
<1>2. PICK p : p = Plan(r, fuzzy)
    OBVIOUS
<1>3. /\ req' = r /\ results' = <<>> /\ seen' = <<>> /\ found' = <<>>
      /\ plan' = (IF p = Refused THEN <<>> ELSE p)
      /\ status' = (IF p = Refused THEN 400 ELSE 0)
    BY <1>1, <1>2
<1>4. /\ IsList(results)' /\ IsList(seen)' /\ IsList(found)'
      /\ Len(results') = 0 /\ Len(seen') = 0
    BY <1>3, EmptyIsList DEF IsList
<1>5. call'[Reader].at = "idle" /\ ReaderOK' /\ Returned'
    BY <1>4 DEF ReaderOK, Returned
<1>6. CASE p = Refused
  <2>1. plan' = <<>> /\ status' = 400
      BY <1>3, <1>6
  <2> QED
      BY <1>4, <1>5, <2>1 DEF AnswerOK, Running
<1>7. CASE p # Refused
  <2>1. plan' = p /\ status' = 0
      BY <1>3, <1>7
  <2>2. IsRequest(list, r)
      BY <1>2, <1>7 DEF Plan
  <2>3. Planned(r, p)
      BY <1>2, <1>7, <2>2 DEF Planned
  <2>4. Planned(req, plan)'
      BY <1>3, <2>1, <2>3, PlannedNext
  <2>5. Len(p) \in Nat \ {0}
      BY <2>3, PlansAre
  <2> QED
      BY <1>4, <1>5, <2>1, <2>4, <2>5 DEF AnswerOK, Running
<1> QED
    BY <1>6, <1>7

-------------------------------------------------------------------------------
(***************************************************************************)
(* The steps of the reader.                                                *)
(***************************************************************************)
\* A statement runs and its rows are those of the table as it is.
LEMMA QueryKeepsAnswer ==
    ASSUME ListsInv, QueryRuns
    PROVE  ReaderOK' /\ AnswerOK'
<1>1. SqlTypeOK /\ CallShape(Reader) /\ Reader \in Callers /\ list \in ListNames
    BY TwoCallers, ScopeIs DEF ListsInv, SqlInv, TablesOK
<1>2. /\ Running /\ call[Reader].at # "idle" /\ Valid(Current) /\ Runs(Reader)
      /\ found' = Result(Current, table) /\ seen' = Append(seen, table)
      /\ scope' = scope /\ req' = req /\ plan' = plan /\ results' = results
      /\ status' = status
    BY DEF QueryRuns
<1>3. call[Reader].op = "query"
    BY <1>1, <1>2 DEF ListsInv, ReaderOK, CallShape, Ops
<1>4. /\ call[Reader].at \in Before1 /\ call'[Reader].at = "rows"
      /\ call'[Reader].op = "query" /\ call'[Reader].got = call[Reader].got /\ tx' = tx
    BY <1>1, <1>2, <1>3, RunsGoes
<1>5. call'[Reader].got = 0
    BY <1>1, <1>4 DEF CallShape
<1>6. ReaderOK'
    BY <1>2, <1>4 DEF ListsInv, ReaderOK, Running
<1>7. Planned(req, plan)'
  <2>1. PICK r, p : r = req /\ p = plan
      OBVIOUS
  <2>2. Planned(r, p)
      BY <1>2, <2>1 DEF ListsInv, AnswerOK, Running
  <2> QED
      BY <1>2, <2>1, <2>2, PlannedNext
<1>8. PICK n : n = Len(results)
    OBVIOUS
<1>9. Len(seen) = n /\ n < Len(plan) /\ IsList(seen) /\ IsList(results)
    BY <1>2, <1>4, <1>8 DEF ListsInv, AnswerOK
<1>10. n \in Nat /\ Len(plan) \in Nat
  <2>1. PICK p : p = plan
      OBVIOUS
  <2>2. Planned(req, p)
      BY <1>2, <2>1 DEF ListsInv, AnswerOK, Running
  <2>3. Len(p) \in Nat
      BY <1>1, <2>2, PlansAre
  <2> QED
      BY <1>9, <2>1, <2>3, AppendIs
<1>11. /\ IsList(seen') /\ Len(seen') = n + 1 /\ seen'[n + 1] = table
       /\ \A i \in 1..n : seen'[i] = seen[i]
    BY <1>2, <1>9, AppendIs
<1>12. IsTable(list, table)
    BY DEF ListsInv, TablesOK
<1>13. Returned'
    BY <1>2, <1>8, <1>11 DEF ListsInv, AnswerOK, Returned, list
<1>14. IsList(found') /\ Len(found') \in Nat
  <2>1. PICK r, p, rows, i : r = req /\ p = plan /\ rows = table /\ i = n + 1
      OBVIOUS
  <2>2. Planned(r, p)
      BY <1>2, <2>1 DEF ListsInv, AnswerOK, Running
  <2>3. i \in 1..Len(p) /\ Current = p[i] /\ IsTable(list, rows)
      BY <1>8, <1>9, <1>10, <1>12, <2>1 DEF Current
  <2>4. IsList(Result(p[i], rows))
      BY <1>1, <1>2, <2>2, <2>3, ResultsAreLists
  <2>5. IsList(found')
      BY <1>2, <2>1, <2>3, <2>4
  <2> QED
      BY <2>5, WholeList
<1>15. Reading'
    BY <1>2, <1>4, <1>5, <1>8, <1>11, <1>12, <1>14 DEF Reading, Current, list
<1>16. IsList(seen)' /\ IsList(found)' /\ IsList(results)'
    BY <1>2, <1>9, <1>11, <1>14 DEF IsList
<1>17. call'[Reader].at \notin Before1 \cup {"idle"} /\ status' # 200
    BY <1>2, <1>4 DEF Before1, Running
<1> QED
    BY <1>2, <1>6, <1>7, <1>8, <1>9, <1>13, <1>15, <1>16, <1>17 DEF AnswerOK, Running

\* Reading the rows, to their end or until they break off.
LEMMA RowsKeepAnswer ==
    ASSUME ListsInv, scope' = scope, UNCHANGED readVars, NEW broken \in BOOLEAN,
           \/ NextRow(Reader) /\ call[Reader].got < Len(found)
           \/ CloseRows(Reader, broken) /\ (broken \/ call[Reader].got = Len(found))
    PROVE  ReaderOK' /\ AnswerOK'
<1>1. SqlTypeOK /\ CallShape(Reader) /\ Reader \in Callers
    BY TwoCallers DEF ListsInv, SqlInv
<1>2. /\ req' = req /\ plan' = plan /\ found' = found /\ results' = results
      /\ seen' = seen /\ status' = status
    BY DEF readVars
<1>3. NextRow(Reader) \/ CloseRows(Reader, broken)
    OBVIOUS
<1>4. /\ call[Reader].at = "rows" /\ call'[Reader].op = call[Reader].op /\ tx' = tx
      /\ NextRow(Reader) =>
            call'[Reader].at = "rows" /\ call'[Reader].got = call[Reader].got + 1
      /\ CloseRows(Reader, broken) =>
            /\ call'[Reader].at = (IF broken THEN "failed" ELSE "ok")
            /\ call'[Reader].got = call[Reader].got
    BY <1>1, <1>3, RowsGo
<1>5. status = 0 /\ plan # <<>> /\ Running /\ Reading
    BY <1>4 DEF ListsInv, ReaderOK, AnswerOK, Running
<1>6. ReaderOK'
    BY <1>2, <1>4, <1>5 DEF ListsInv, ReaderOK
<1>7. plan' # <<>> => Planned(req, plan)'
  <2>1. PICK r, p : r = req /\ p = plan
      OBVIOUS
  <2>2. Planned(r, p)
      BY <1>5, <2>1 DEF ListsInv, AnswerOK
  <2> QED
      BY <1>2, <2>1, <2>2, PlannedNext
<1>8. Returned'
    BY <1>2 DEF ListsInv, AnswerOK, Returned, list
<1>9. call[Reader].got \in Nat /\ Len(found) \in Nat
    BY <1>1, WholeList DEF SqlTypeOK, CallType, ListsInv, AnswerOK
<1>10. call'[Reader].at \in {"rows", "ok"} => Reading'
  <2>1. CASE NextRow(Reader) /\ call[Reader].got < Len(found)
      BY <1>2, <1>4, <1>5, <1>9, <2>1 DEF Reading, Current, list
  <2>2. CASE CloseRows(Reader, broken) /\ (broken \/ call[Reader].got = Len(found))
      BY <1>2, <1>4, <1>5, <1>9, <2>2 DEF Reading, Current, list
  <2> QED
      BY <2>1, <2>2
<1>11. call'[Reader].at \notin Before1 \cup {"idle"}
    BY <1>3, <1>4 DEF Before1
<1> QED
    BY <1>2, <1>5, <1>6, <1>7, <1>8, <1>10, <1>11 DEF ListsInv, AnswerOK, Running

\* A statement's rows are added to the results, unless they broke off.
LEMMA ReturnKeepsAnswer ==
    ASSUME ListsInv, Return
    PROVE  ReaderOK' /\ AnswerOK'
<1>1. SqlTypeOK /\ CallShape(Reader) /\ Reader \in Callers /\ list \in ListNames
    BY TwoCallers, ScopeIs DEF ListsInv, SqlInv, TablesOK
<1>2. PICK rows : rows = SubSeq(found, 1, call[Reader].got)
    OBVIOUS
<1>3. /\ Finish(Reader)
      /\ results' = (IF RowsErr THEN results ELSE Append(results, rows))
      /\ status' = (IF RowsErr THEN 500 ELSE Answered(rows))
      /\ found' = <<>> /\ scope' = scope /\ req' = req /\ plan' = plan /\ seen' = seen
    BY <1>2 DEF Return
<1>4. /\ call[Reader].at \in {"ok", "failed", "lost"}
      /\ call'[Reader].at = "idle" /\ call'[Reader].op = "none" /\ tx' = tx
    BY <1>1, <1>3, FinishGoes
<1>5. ReaderOK'
    BY <1>4 DEF ListsInv, ReaderOK
<1>6. status = 0 /\ plan # <<>> /\ Running
    BY <1>4 DEF ListsInv, ReaderOK, Running
<1>7. Planned(req, plan)'
  <2>1. PICK r, p : r = req /\ p = plan
      OBVIOUS
  <2>2. Planned(r, p)
      BY <1>6, <2>1 DEF ListsInv, AnswerOK
  <2> QED
      BY <1>3, <2>1, <2>2, PlannedNext
<1>8. PICK n : n = Len(results)
    OBVIOUS
<1>9. n < Len(plan) /\ IsList(seen) /\ IsList(results) /\ IsList(found)
    BY <1>6, <1>8 DEF ListsInv, AnswerOK
<1>10. n \in Nat /\ Len(plan) \in Nat
  <2>1. PICK p : p = plan
      OBVIOUS
  <2>2. Planned(req, p)
      BY <1>6, <2>1 DEF ListsInv, AnswerOK
  <2>3. Len(p) \in Nat
      BY <1>1, <2>2, PlansAre
  <2> QED
      BY <1>8, <1>9, <2>1, <2>3, WholeList
<1>11. /\ IsList(seen)' /\ IsList(found)' /\ call'[Reader].at \notin {"rows", "ok"}
    BY <1>3, <1>4, <1>9, EmptyIsList DEF IsList
<1>12. CASE RowsErr
  <2>1. results' = results /\ status' = 500
      BY <1>3, <1>12
  <2>2. IsList(results)'
      BY <1>9, <2>1 DEF IsList
  <2>3. Returned'
      BY <1>3, <2>1 DEF ListsInv, AnswerOK, Returned, list
  <2> QED
      BY <1>5, <1>7, <1>11, <2>1, <2>2, <2>3 DEF AnswerOK, Running
<1>13. CASE ~RowsErr
  <2>1. call[Reader].at = "ok"
      BY <1>13 DEF RowsErr
  <2>2. /\ Len(seen) = n + 1 /\ IsTable(list, seen[n + 1])
        /\ found = Result(plan[n + 1], seen[n + 1]) /\ call[Reader].got = Len(found)
      BY <1>8, <2>1 DEF ListsInv, AnswerOK, Reading, Current
  <2>3. rows = found
      BY <1>2, <1>9, <2>2, WholeList
  <2>4. results' = Append(results, found) /\ status' = Answered(found)
      BY <1>3, <1>13, <2>3
  <2>5. /\ IsList(results') /\ Len(results') = n + 1 /\ results'[n + 1] = found
        /\ \A i \in 1..n : results'[i] = results[i]
      BY <1>8, <1>9, <2>4, AppendIs
  <2>6. Returned'
    <3>1. \A i \in 1..n : IsTable(list, seen[i]) /\ results[i] = Result(plan[i], seen[i])
        BY <1>8 DEF ListsInv, AnswerOK, Returned
    <3>2. \A i \in 1..(n + 1) : i \in 1..n \/ i = n + 1
        BY <1>10
    <3>3. \A i \in 1..(n + 1) : IsTable(list, seen[i]) /\ results'[i] = Result(plan[i], seen[i])
        BY <2>2, <2>5, <3>1, <3>2
    <3> QED
        BY <1>3, <2>5, <3>3 DEF Returned, list
  <2>7. /\ status' = 0 => n + 1 < Len(plan)
        /\ status' = 200 => n + 1 = Len(plan)
      BY <1>8, <1>9, <1>10, <2>4 DEF Answered
  <2>8. IsList(results)'
      BY <2>5 DEF IsList
  <2> QED
      BY <1>3, <1>5, <1>6, <1>7, <1>11, <2>2, <2>5, <2>6, <2>7, <2>8 DEF AnswerOK, Running
<1> QED
    BY <1>12, <1>13

\* The console leaves an answer behind.
LEMMA LeaveKeepsAnswer ==
    ASSUME ListsInv, Leave
    PROVE  ReaderOK' /\ AnswerOK'
<1>1. /\ plan' = <<>> /\ results' = <<>> /\ seen' = <<>> /\ found' = <<>> /\ status' = 0
      /\ call' = call /\ tx' = tx /\ call[Reader].at = "idle"
    BY DEF Leave, StartOver
<1>2. IsList(results)' /\ IsList(seen)' /\ IsList(found)' /\ Len(results') = 0
    BY <1>1, EmptyIsList DEF IsList
<1>3. ReaderOK'
    BY <1>1 DEF ListsInv, ReaderOK
<1> QED
    BY <1>1, <1>2, <1>3 DEF AnswerOK, Running, Returned

-------------------------------------------------------------------------------
(***************************************************************************)
(* The steps of the writer, and all of them together.                      *)
(***************************************************************************)
\* What the writer's steps do to the tables.
LEMMA WriterKeepsTables ==
    ASSUME ListsInv,
           \/ WriteBegins \/ WriteInTx \/ WriterMoves \/ WriterFaults
           \/ WriteRuns \/ WriteReturns \/ WriteCommits \/ WriteRollsBack
    PROVE  TablesOK'
<1>1. SqlTypeOK /\ CallShape(Writer) /\ Writer \in Callers /\ list \in ListNames
    BY TwoCallers, ScopeIs DEF ListsInv, SqlInv, TablesOK
<1>2. TablesOK
    BY DEF ListsInv
<1>3. CASE WriteBegins
  <2>1. PICK new \in Changes : change' = [to |-> new, ran |-> FALSE]
      BY <1>3 DEF WriteBegins
  <2>2. IsTable(list, new)
      BY <1>1, <1>2, ScopeIs, ChangesAreTables DEF TablesOK
  <2>3. IsChange(change)'
      BY <1>3, <2>1, <2>2 DEF WriteBegins, IsChange, list
  <2> QED
      BY <1>2, <1>3, <2>3 DEF WriteBegins, TablesOK, list
<1>4. CASE WriteInTx
  <2>1. IsChange(change) /\ scope' = scope /\ table' = table /\ change' = change
      BY <1>2, <1>4 DEF WriteInTx, TablesOK, listVars
  <2> QED
      BY <1>2, <2>1 DEF TablesOK, IsChange, list
<1>5. CASE WriterMoves \/ WriterFaults
  <2>1. call[Writer].at \in Before1 /\ scope' = scope /\ table' = table /\ change' = change
      BY <1>1, <1>5, QuietGoes, FaultyGoes DEF WriterMoves, WriterFaults, listVars
  <2> QED
      BY <1>2, <2>1 DEF TablesOK, IsChange, list
<1>6. CASE WriteRuns
  <2>1. Runs(Writer) /\ scope' = scope
      BY <1>6 DEF WriteRuns, Commits, listVars
  <2>2. call[Writer].at \in Before1 /\ call'[Writer].at \in {"rows", "ok"}
      BY <1>1, <2>1, RunsGoes
  <2>3. IsChange(change) /\ call'[Writer].at \notin Before1
      BY <1>2, <2>2 DEF TablesOK, Before1
  <2>4. CASE Commits
      BY <1>2, <2>1, <2>3, <2>4 DEF TablesOK, Commits, IsChange, list
  <2>5. CASE change' = [change EXCEPT !.ran = TRUE] /\ table' = table
    <3>1. change'.to = change.to /\ change' = [to |-> change'.to, ran |-> change'.ran]
        BY <2>3, <2>5 DEF IsChange
    <3> QED
        BY <1>2, <2>1, <2>3, <2>5, <3>1 DEF TablesOK, IsChange, list
  <2>6. CASE UNCHANGED listVars
      BY <1>2, <2>3, <2>6 DEF TablesOK, IsChange, list, listVars
  <2> QED
      BY <1>6, <2>4, <2>5, <2>6 DEF WriteRuns
<1>7. CASE WriteReturns
  <2>1. /\ call'[Writer].at = "idle" /\ scope' = scope /\ table' = table
        /\ change' = change \/ change' = Nil
      BY <1>1, <1>7, FinishGoes DEF WriteReturns
  <2> QED
      BY <1>2, <2>1 DEF TablesOK, IsChange, Before1, list
<1>8. CASE WriteCommits
  <2>1. /\ call' = call /\ call[Writer].at = "idle" /\ scope' = scope
        /\ table' = change.to /\ change' = Nil /\ change # Nil
      BY <1>1, <1>8, EndTxGoes DEF WriteCommits, Commits
  <2> QED
      BY <1>2, <2>1 DEF TablesOK, IsChange, Before1, list
<1>9. CASE WriteRollsBack
  <2>1. call' = call /\ scope' = scope /\ table' = table /\ change' = change
      BY <1>1, <1>9, EndTxGoes DEF WriteRollsBack, listVars
  <2> QED
      BY <1>2, <2>1 DEF TablesOK, IsChange, list
<1> QED
    BY <1>3, <1>4, <1>5, <1>6, <1>7, <1>8, <1>9

\* The writer's steps are its own.
LEMMA WriterLeavesReader ==
    ASSUME ListsInv,
           \/ WriteBegins \/ WriteInTx \/ WriterMoves \/ WriterFaults
           \/ WriteRuns \/ WriteReturns \/ WriteCommits \/ WriteRollsBack
    PROVE  /\ scope' = scope /\ UNCHANGED readVars
           /\ call'[Reader] = call[Reader] /\ tx'[Reader] = tx[Reader]
<1>1. SqlTypeOK /\ Writer \in Callers /\ Reader \in Callers \ {Writer}
    BY TwoCallers DEF ListsInv, SqlInv
<1>2. scope' = scope /\ UNCHANGED readVars
    BY DEF WriteBegins, WriteInTx, WriterMoves, WriterFaults, WriteRuns, WriteReturns,
           WriteCommits, WriteRollsBack, Commits, listVars
<1>3. CASE WriteBegins \/ WriteInTx
    BY <1>1, <1>2, <1>3, StartGoes DEF WriteBegins, WriteInTx
<1>4. CASE WriterMoves \/ WriterFaults
    BY <1>1, <1>2, <1>4, QuietGoes, FaultyGoes DEF WriterMoves, WriterFaults
<1>5. CASE WriteRuns \/ WriteReturns
    BY <1>1, <1>2, <1>5, RunsGoes, FinishGoes DEF WriteRuns, WriteReturns
<1>6. CASE WriteCommits \/ WriteRollsBack
    BY <1>1, <1>2, <1>6, EndTxGoes DEF WriteCommits, WriteRollsBack
<1> QED
    BY <1>3, <1>4, <1>5, <1>6

\* The reader's steps leave the writer, and the tables, alone.
LEMMA ReaderLeavesWriter ==
    ASSUME ListsInv,
           \/ Ask \/ TurnPage \/ Leave \/ Issue \/ ReaderMoves \/ ReaderFaults \/ Rejected
           \/ QueryRuns \/ ReadRow \/ ReadEnd \/ ReadBreaks \/ Return
    PROVE  /\ scope' = scope /\ table' = table /\ change' = change
           /\ call'[Writer] = call[Writer]
<1>1. SqlTypeOK /\ Reader \in Callers /\ Writer \in Callers \ {Reader}
    BY TwoCallers DEF ListsInv, SqlInv
<1>2. scope' = scope /\ table' = table /\ change' = change
    BY DEF Ask, TurnPage, Leave, Issue, ReaderMoves, ReaderFaults, Rejected, QueryRuns,
           ReadRow, ReadEnd, ReadBreaks, Return, listVars
<1>3. CASE Ask \/ TurnPage \/ Leave
    BY <1>2, <1>3 DEF Ask, TurnPage, Leave, StartOver, sqlVars
<1>4. CASE Issue
    BY <1>1, <1>2, <1>4, StartGoes DEF Issue
<1>5. CASE ReaderMoves \/ ReaderFaults \/ Rejected
    BY <1>1, <1>2, <1>5, QuietGoes, FaultyGoes DEF ReaderMoves, ReaderFaults, Rejected, Faulty
<1>6. CASE QueryRuns \/ Return
    BY <1>1, <1>2, <1>6, RunsGoes, FinishGoes DEF QueryRuns, Return
<1>7. CASE ReadRow
    BY <1>1, <1>2, <1>7, RowsGo DEF ReadRow
<1>8. CASE ReadEnd \/ ReadBreaks
  <2>1. PICK broken \in BOOLEAN : CloseRows(Reader, broken)
      BY <1>8 DEF ReadEnd, ReadBreaks
  <2> QED
      BY <1>1, <1>2, <2>1, RowsGo
<1> QED
    BY <1>3, <1>4, <1>5, <1>6, <1>7, <1>8

\* Whatever the reader does.
LEMMA ReaderKeepsAnswer ==
    ASSUME ListsInv,
           \/ Ask \/ TurnPage \/ Leave \/ Issue \/ ReaderMoves \/ ReaderFaults \/ Rejected
           \/ QueryRuns \/ ReadRow \/ ReadEnd \/ ReadBreaks \/ Return
    PROVE  ReaderOK' /\ AnswerOK'
<1>1. SqlTypeOK /\ CallShape(Reader) /\ Reader \in Callers /\ list \in ListNames
    BY TwoCallers, ScopeIs DEF ListsInv, SqlInv, TablesOK
<1>2. ReaderOK /\ AnswerOK
    BY DEF ListsInv
<1>3. CASE Ask
  <2>1. PICK r \in Requests(scope) : Send(r)
      BY <1>3 DEF Ask
  <2>2. r = Malformed \/ IsRequest(list, r)
      BY ScopeIs DEF ListsInv, TablesOK
  <2>3. scope' = scope /\ call[Reader].at = "idle" /\ call' = call /\ tx' = tx
      BY <1>2, <1>3 DEF Ask, Idle, ReaderOK, sqlVars
  <2> QED
      BY <1>1, <1>2, <2>1, <2>2, <2>3, SendKeepsAnswer DEF ReaderOK
<1>4. CASE TurnPage
  <2>1. PICK r0, n, t : r0 = req /\ n = PageIndex(r0) + 1 /\ t = [r0 EXCEPT !.page_index = n]
      OBVIOUS
  <2>2. /\ Send(t) /\ scope' = scope /\ status = 200 /\ plan # <<>>
        /\ call[Reader].at = "idle" /\ call' = call /\ tx' = tx
      BY <1>2, <1>4, <2>1 DEF TurnPage, Paging, ReaderOK, sqlVars
  <2>3. IsRequest(list, r0)
      BY <1>2, <2>1, <2>2 DEF AnswerOK, Planned
  <2>4. n \in Int
      BY <2>1, <2>3, PageSizeIs
  <2>5. IsRequest(list, t)
      BY <1>1, <2>1, <2>3, <2>4, TurnedIsRequest
  <2> QED
      BY <1>1, <1>2, <2>2, <2>5, SendKeepsAnswer DEF ReaderOK
<1>5. CASE Leave
    BY <1>5, LeaveKeepsAnswer
<1>6. CASE Issue
  <2>1. Running /\ scope' = scope /\ UNCHANGED readVars
      BY <1>6 DEF Issue, listVars
  <2>2. PICK args : Start(Reader, "query", args)
      BY <1>6 DEF Issue
  <2>3. /\ call[Reader].at = "idle" /\ call'[Reader].at \in Before1
        /\ call'[Reader].op = "query" /\ tx' = tx
      BY <1>1, <2>2, StartGoes
  <2> QED
      BY <1>2, <2>1, <2>3, MovesKeepAnswer DEF ReaderOK
<1>7. CASE ReaderMoves \/ ReaderFaults \/ Rejected
  <2>1. scope' = scope /\ UNCHANGED readVars /\ (Quiet(Reader) \/ Faulty(Reader))
      BY <1>7 DEF ReaderMoves, ReaderFaults, Rejected, listVars, Faulty
  <2>2. /\ call[Reader].at \in Before1 /\ call'[Reader].at \in Before1 \cup {"failed", "lost"}
        /\ call'[Reader].op = call[Reader].op /\ tx'[Reader] = "none"
      BY <1>1, <1>2, <2>1, QuietGoes, FaultyGoes DEF Before1, ReaderOK
  <2>3. Running
      BY <1>2, <2>2 DEF ReaderOK, Running, Before1
  <2> QED
      BY <1>2, <2>1, <2>2, <2>3, MovesKeepAnswer DEF ReaderOK
<1>8. CASE QueryRuns
    BY <1>8, QueryKeepsAnswer
<1>9. CASE ReadRow \/ ReadEnd \/ ReadBreaks
  <2>1. /\ scope' = scope /\ UNCHANGED readVars
        /\ \E broken \in BOOLEAN :
              \/ NextRow(Reader) /\ call[Reader].got < Len(found)
              \/ CloseRows(Reader, broken) /\ (broken \/ call[Reader].got = Len(found))
      BY <1>9 DEF ReadRow, ReadEnd, ReadBreaks, listVars
  <2> QED
      BY <2>1, RowsKeepAnswer
<1>10. CASE Return
    BY <1>10, ReturnKeepsAnswer
<1> QED
    BY <1>3, <1>4, <1>5, <1>6, <1>7, <1>8, <1>9, <1>10

\* The invariant that every step keeps.
LEMMA ListsInvInit ==
    ASSUME Init PROVE ListsInv
<1>1. SqlInv
    BY SqlInvInit DEF Init
<1>2. TablesOK
  <2>1. \A rows \in scope.tables : IsTable(list, rows)
      BY ScopeIs DEF Init
  <2>2. call[Writer].at = "idle"
      BY TwoCallers DEF Init, SqlInit, NoCall
  <2> QED
      BY <2>1, <2>2 DEF Init, TablesOK, Before1
<1>3. ReaderOK
    BY TwoCallers DEF Init, SqlInit, NoCall, ReaderOK
<1>4. AnswerOK
  <2>1. call[Reader].at = "idle"
      BY TwoCallers DEF Init, SqlInit, NoCall
  <2> QED
      BY <2>1, EmptyIsList DEF Init, AnswerOK, Returned, Running
<1> QED
    BY <1>1, <1>2, <1>3, <1>4 DEF ListsInv

\* Every step keeps the invariant.
LEMMA ListsInvStep ==
    ASSUME ListsInv, [Next]_vars PROVE ListsInv'
<1>1. SqlInv'
    BY ListsStepTheLog, SqlInvStep DEF ListsInv
<1>2. CASE UNCHANGED vars
  <2>1. /\ UNCHANGED readVars /\ scope' = scope /\ table' = table /\ change' = change
        /\ call' = call /\ tx' = tx
      BY <1>2 DEF vars, listVars, sqlVars
  <2> QED
      BY <1>1, <2>1, ReaderKeepsTables, WriterKeepsAnswer DEF ListsInv
<1>3. CASE \/ Ask \/ TurnPage \/ Leave \/ Issue \/ ReaderMoves \/ ReaderFaults \/ Rejected
           \/ QueryRuns \/ ReadRow \/ ReadEnd \/ ReadBreaks \/ Return
    BY <1>1, <1>3, ReaderLeavesWriter, ReaderKeepsTables, ReaderKeepsAnswer DEF ListsInv
<1>4. CASE \/ WriteBegins \/ WriteInTx \/ WriterMoves \/ WriterFaults
           \/ WriteRuns \/ WriteReturns \/ WriteCommits \/ WriteRollsBack
    BY <1>1, <1>4, WriterLeavesReader, WriterKeepsTables, WriterKeepsAnswer DEF ListsInv
<1> QED
    BY <1>2, <1>3, <1>4 DEF Next

-------------------------------------------------------------------------------
(***************************************************************************)
(* The theorems.                                                           *)
(***************************************************************************)
\* Behind every answer that is under way or complete there is, for each statement,
\* a table that was there when it ran (internal/repository, internal/database).
THEOREM ListsInvariant == Spec => []ListsInv
BY ListsInvInit, ListsInvStep, PTL DEF Spec

\* A complete answer.
LEMMA AnswerIsComplete ==
    ASSUME ListsInv, status = 200
    PROVE  Complete(req, plan, results, seen) /\ DOMAIN seen = 1..Len(plan)
<1>1. PICK n : n = Len(plan)
    OBVIOUS
<1>2. /\ plan # <<>> /\ Planned(req, plan) /\ IsList(seen)
      /\ Len(results) = n /\ Len(seen) = n /\ Returned
    BY <1>1 DEF ListsInv, AnswerOK
<1>3. DOMAIN seen = 1..n
  <2>1. PICK m \in Nat : seen = [i \in 1..m |-> seen[i]]
      BY <1>2 DEF IsList
  <2>2. PICK W : W = {seen[i] : i \in 1..m}
      OBVIOUS
  <2>3. seen \in [1..m -> W]
      BY <2>1, <2>2
  <2>4. Len(seen) = m
      BY <2>3, ListIs
  <2> QED
      BY <1>2, <2>3, <2>4
<1> QED
    BY <1>1, <1>2, <1>3 DEF Complete, Returned

\* An answer with status 200 is what its request asked for, for every table, every
\* request, every writer beside it and every fault: the total counts the rows wanted
\* and the page is the due stretch of them (the ...Where builders, normalizePage and
\* List... of internal/repository, with internal/service and internal/handler).
THEOREM PagesAreDue == Spec => []PageIsDue
<1>1. ListsInv => PageIsDue
  <2> SUFFICES ASSUME ListsInv, status = 200 PROVE PageIsDue
      BY DEF PageIsDue
  <2>1. list \in ListNames
      BY ScopeIs DEF ListsInv, TablesOK
  <2> QED
      BY <2>1, AnswerIsComplete, CompleteIsDue
<1> QED
    BY <1>1, ListsInvariant, PTL

\* When nobody wrote between its statements, a page has as many rows as its total
\* says are left, and the overview's parts add up (internal/service/mon_event.go).
THEOREM AnswersAddUp == Spec => []AnswerAddsUp
<1>1. ListsInv => AnswerAddsUp
  <2> SUFFICES ASSUME ListsInv, status = 200 PROVE AnswerAddsUp
      BY DEF AnswerAddsUp
  <2>1. list \in ListNames
      BY ScopeIs DEF ListsInv, TablesOK
  <2> QED
      BY <2>1, AnswerIsComplete, CompleteAddsUp
<1> QED
    BY <1>1, ListsInvariant, PTL

-------------------------------------------------------------------------------
(***************************************************************************)
(* Turning the pages while somebody writes: what a scan has shown, and the *)
(* rows that moved meanwhile.                                              *)
(***************************************************************************)
\* A list of ids without repetition.
Once(q) ==
    \E n \in Nat : /\ Len(q) = n /\ q \in [1..n -> Nat]
                   /\ \A i, j \in 1..n : q[i] = q[j] => i = j

\* What comes before x in it.
UpTo(q, x) ==
    {q[i] : i \in {k \in DOMAIN q : \E j \in DOMAIN q : q[j] = x /\ k < j}}

\* The number of those before x is its place less one.
LEMMA PlaceIs ==
    ASSUME NEW q, Once(q), NEW x \in ToSet(q)
    PROVE  \E j \in 1..Len(q) :
             /\ Len(q) \in Nat /\ q[j] = x /\ UpTo(q, x) = {q[i] : i \in 1..(j - 1)}
             /\ IsFiniteSet(UpTo(q, x)) /\ Cardinality(UpTo(q, x)) = j - 1
<1>1. PICK n \in Nat : /\ Len(q) = n /\ q \in [1..n -> Nat]
                       /\ \A i, j \in 1..n : q[i] = q[j] => i = j
    BY DEF Once
<1>2. DOMAIN q = 1..n
    BY <1>1
<1>3. PICK j \in 1..n : q[j] = x
    BY <1>2 DEF ToSet
<1>4. {k \in DOMAIN q : \E l \in DOMAIN q : q[l] = x /\ k < l} = 1..(j - 1)
  <2>1. ASSUME NEW k \in 1..n PROVE (\E l \in 1..n : q[l] = x /\ k < l) <=> k < j
      BY <1>1, <1>3
  <2> QED
      BY <1>2, <2>1
<1>5. UpTo(q, x) = {q[i] : i \in 1..(j - 1)}
    BY <1>4 DEF UpTo
<1>6. PICK m \in Nat : m = j - 1
    OBVIOUS
<1>7. \A a, b \in 1..m : q[a] = q[b] => a = b
    BY <1>1, <1>6
<1>8. IsFiniteSet({q[i] : i \in 1..m}) /\ Cardinality({q[i] : i \in 1..m}) = m
  <2>1. PICK f : f = q
      OBVIOUS
  <2>2. \A c, d \in 1..m : f[c] = f[d] => c = d
      BY <1>7, <2>1
  <2>3. IsFiniteSet({f[i] : i \in 1..m}) /\ Cardinality({f[i] : i \in 1..m}) = m
      BY <2>2, CountInjective
  <2> QED
      BY <2>1, <2>3
<1> QED
    BY <1>1, <1>3, <1>5, <1>6, <1>8

\* How often x was shown.
Often(shown, x) == Cardinality({i \in DOMAIN shown : shown[i] = x})

\* A page adds one to this for the rows that are in it.
LEMMA OftenGrows ==
    ASSUME NEW shown \in Seq(Nat), NEW page \in Seq(Nat), NEW x, Once(page)
    PROVE  /\ Often(shown, x) \in Nat /\ shown \o page \in Seq(Nat)
           /\ x \in ToSet(page) => Often(shown \o page, x) = Often(shown, x) + 1
           /\ x \notin ToSet(page) => Often(shown \o page, x) = Often(shown, x)
<1> DEFINE A == {i \in DOMAIN shown : shown[i] = x}
<1>1. PICK a \in Nat : a = Len(shown) /\ DOMAIN shown = 1..a
    BY LenProperties
<1>2. PICK b \in Nat : b = Len(page) /\ DOMAIN page = 1..b
    BY LenProperties
<1>3. PICK w \in Seq(Nat) : w = shown \o page
    BY ConcatPlaces
<1> DEFINE B == {i \in DOMAIN w : w[i] = x}
<1>4. /\ DOMAIN w = 1..(a + b)
      /\ \A i \in 1..a : w[i] = shown[i]
      /\ \A j \in 1..b : w[a + j] = page[j]
  <2>1. /\ Len(w) = a + b
        /\ \A i \in 1..a : w[i] = shown[i]
        /\ \A j \in 1..b : w[a + j] = page[j]
      BY <1>1, <1>2, <1>3, ConcatPlaces
  <2>2. DOMAIN w = 1..Len(w)
      BY LenProperties
  <2> QED
      BY <2>1, <2>2
<1>5. IsFiniteSet(A) /\ Cardinality(A) \in Nat
  <2>1. A \subseteq 1..a /\ IsFiniteSet(1..a)
      BY <1>1, FS_Interval
  <2> QED
      BY <2>1, FS_Subset, FS_CardinalityType
<1>6. \A i \in 1..(a + b) : i \in 1..a \/ \E j \in 1..b : i = a + j
  <2> SUFFICES ASSUME NEW i \in 1..(a + b), i \notin 1..a PROVE \E j \in 1..b : i = a + j
      OBVIOUS
  <2>1. i - a \in 1..b /\ i = a + (i - a)
      OBVIOUS
  <2> QED
      BY <2>1
<1>7. CASE x \notin ToSet(page)
  <2>1. \A j \in 1..b : page[j] # x
      BY <1>2, <1>7 DEF ToSet
  <2>2. \A i : i \in B <=> i \in A
    <3>1. ASSUME NEW i \in B PROVE i \in A
      <4>1. i \in 1..(a + b) /\ w[i] = x
          BY <1>4
      <4>2. i \in 1..a
          BY <1>4, <1>6, <2>1, <4>1
      <4> QED
          BY <1>1, <1>4, <4>1, <4>2
    <3>2. ASSUME NEW i \in A PROVE i \in B
        BY <1>1, <1>3, <1>4
    <3> QED
        BY <3>1, <3>2
  <2>3. A = B
    <3> HIDE DEF A, B
    <3> QED
        BY <2>2
  <2> QED
      BY <1>3, <1>5, <1>7, <2>3 DEF Often
<1>8. CASE x \in ToSet(page)
  <2>1. PICK j \in 1..b : page[j] = x
      BY <1>2, <1>8 DEF ToSet
  <2>2. \A l \in 1..b : page[l] = x => l = j
      BY <1>2, <2>1 DEF Once
  <2>3. \A i : i \in B <=> i \in A \cup {a + j}
    <3>1. ASSUME NEW i \in B PROVE i \in A \cup {a + j}
      <4>1. i \in 1..(a + b) /\ w[i] = x
          BY <1>4
      <4>2. i \in 1..a \/ i = a + j
          BY <1>4, <1>6, <2>2, <4>1
      <4> QED
          BY <1>1, <1>4, <4>1, <4>2
    <3>2. ASSUME NEW i \in A \cup {a + j} PROVE i \in B
      <4>1. a + j \in 1..(a + b) /\ w[a + j] = x
        <5>1. w[a + j] = page[j]
            BY <1>4
        <5> QED
            BY <2>1, <5>1
      <4>2. \A k \in A : k \in 1..(a + b) /\ w[k] = x
          BY <1>1, <1>4
      <4> QED
          BY <1>3, <1>4, <4>1, <4>2
    <3> QED
        BY <3>1, <3>2
  <2>4. a + j \notin A
      BY <1>1
  <2>5. B = A \cup {a + j}
    <3> HIDE DEF A, B
    <3> QED
        BY <2>3
  <2>6. Cardinality(B) = Cardinality(A) + 1
    <3> HIDE DEF A, B
    <3> QED
        BY <1>5, <2>4, <2>5, FS_AddElement
  <2> QED
      BY <1>3, <1>5, <1>8, <2>6 DEF Often
<1> QED
    BY <1>7, <1>8

\* A scan has shown the first k places, but for what moved: a row that is still to
\* come and did not slide up is not among the first k, and one that was not pushed
\* down was shown once at most, and is then among the first k.
KeptAt(sc, all, k, x) ==
    /\ x \notin sc.slid /\ Often(sc.shown, x) = 0 => Cardinality(UpTo(all, x)) >= k
    /\ x \notin sc.pushed =>
         \/ Often(sc.shown, x) = 0
         \/ Often(sc.shown, x) = 1 /\ Cardinality(UpTo(all, x)) < k

\* Of the rows that stayed, all are in the list and keep to this.
Kept(sc, all, k) ==
    /\ sc.stayed \subseteq ToSet(all)
    /\ \A x \in sc.stayed : KeptAt(sc, all, k, x)

\* No row came in before one that stayed since the total was taken, unless noted.
Since(sc, all, first) ==
    \A x \in sc.stayed \ sc.late : x \in ToSet(first) /\ UpTo(all, x) \subseteq UpTo(first, x)

\* A scan starts with nothing shown and nothing moved.
LEMMA NothingShown ==
    ASSUME NEW all, Once(all), NEW sc, sc.stayed = ToSet(all), sc.shown = <<>>
    PROVE  Kept(sc, all, 0)
<1>1. ASSUME NEW x PROVE Often(<<>>, x) = 0
  <2>1. {i \in DOMAIN <<>> : <<>>[i] = x} = {}
      OBVIOUS
  <2> QED
      BY <2>1, FS_EmptySet DEF Often
<1>2. ASSUME NEW x \in sc.stayed PROVE Cardinality(UpTo(all, x)) >= 0
  <2>1. \E j \in 1..Len(all) : Len(all) \in Nat /\ Cardinality(UpTo(all, x)) = j - 1
      BY PlaceIs
  <2> QED
      BY <2>1
<1> QED
    BY <1>1, <1>2 DEF Kept, KeptAt

\* What comes where in a window.
LEMMA WindowShows ==
    ASSUME NEW W, NEW q \in Seq(W), NEW o \in Nat, NEW l \in Nat,
           NEW w, w = Window(q, o, l), NEW i \in 1..Len(w)
    PROVE  w[i] = q[o + i]
<1>1. PICK n \in Nat : n = Len(q)
    OBVIOUS
<1>2. PICK k : k = Min({Len(q), o + l})
    OBVIOUS
<1>3. k \in Nat /\ k <= n
  <2> DEFINE T == {Len(q), o + l}
  <2>1. T \subseteq 0..(n + o + l) /\ T # {} /\ n + o + l \in Nat /\ n \in T
      BY <1>1
  <2> HIDE DEF T
  <2>2. PICK t : t = Min(T)
      OBVIOUS
  <2>3. t \in T /\ \A y \in T : t <= y
      BY <2>1, <2>2, MinIs
  <2>4. t \in Nat /\ t <= n
      BY <2>1, <2>3
  <2> QED
      BY <1>2, <2>2, <2>4 DEF T
<1>4. w = SubSeq(q, o + 1, k)
    BY <1>2 DEF Window
<1>5. CASE k <= o
    BY <1>3, <1>4, <1>5
<1>6. CASE o < k
  <2>1. Len(w) = k - o
      BY <1>1, <1>3, <1>4, <1>6
  <2>2. i \in 1..(k - (o + 1) + 1) /\ (o + 1) + i - 1 = o + i
      BY <1>3, <1>6, <2>1
  <2> QED
      BY <1>1, <1>3, <1>4, <1>6, <2>2
<1> QED
    BY <1>3, <1>5, <1>6

\* The page w is the next s of the n entries of all after the first k.
Follows(w, all, k, s, n) ==
    \E m \in Nat : /\ m = (IF n <= k THEN 0 ELSE IF n - k <= s THEN n - k ELSE s)
                   /\ w \in Seq(Nat) /\ Len(w) = m
                   /\ k + m <= n \/ m = 0
                   /\ \A i \in 1..m : w[i] = all[k + i]

\* A window is the next page.
LEMMA NextPage ==
    ASSUME NEW n \in Nat, NEW all \in [1..n -> Nat], NEW k \in Nat, NEW s \in Nat
    PROVE  Follows(Window(all, k, s), all, k, s, n)
<1>1. all \in Seq(Nat) /\ Len(all) = n
    BY ListIs
<1>2. PICK W, q, o, l : W = Nat /\ q = all /\ o = k /\ l = s
    OBVIOUS
<1>3. q \in Seq(W) /\ o \in Nat /\ l \in Nat
    BY <1>1, <1>2
<1>4. PICK w : w = Window(q, o, l)
    OBVIOUS
<1>5. PICK m \in Nat :
        /\ m = (IF Len(q) <= o THEN 0 ELSE IF Len(q) - o <= l THEN Len(q) - o ELSE l)
        /\ Len(Window(q, o, l)) = m
    BY <1>3, WindowIs
<1>6. Window(q, o, l) \in Seq(W)
    BY <1>3, WindowIs
<1>7. w \in Seq(W) /\ Len(w) = m
    BY <1>4, <1>5, <1>6
<1>8. PICK a \in Nat : a = Len(q)
    BY <1>1, <1>2
<1>9. o + m <= a \/ m = 0
    BY <1>3, <1>5, <1>8
<1>10. ASSUME NEW i \in 1..m PROVE w[i] = q[o + i]
  <2>1. i \in 1..Len(w)
      BY <1>7
  <2>2. PICK j : j = i
      OBVIOUS
  <2>3. j \in 1..Len(w)
      BY <2>1, <2>2
  <2>4. w[j] = q[o + j]
      BY <1>3, <1>4, <2>3, WindowShows
  <2> QED
      BY <2>2, <2>4
<1>11. Follows(w, all, k, s, n)
    BY <1>1, <1>2, <1>5, <1>10, <1>7, <1>8, <1>9 DEF Follows
<1> QED
    BY <1>2, <1>4, <1>11

\* A page that is shown takes the scan s places further.
LEMMA PageKeeps ==
    ASSUME NEW sc, sc.shown \in Seq(Nat), NEW all, Once(all), NEW k \in Nat, NEW s \in Nat,
           Kept(sc, all, k), NEW page, page = Window(all, k, s),
           NEW sd, sd.stayed = sc.stayed, sd.slid = sc.slid, sd.pushed = sc.pushed,
           sd.shown = sc.shown \o page
    PROVE  Kept(sd, all, k + s) /\ sd.shown \in Seq(Nat)
<1>1. PICK n \in Nat : /\ Len(all) = n /\ all \in [1..n -> Nat]
                       /\ \A i, j \in 1..n : all[i] = all[j] => i = j
    BY DEF Once
<1>2. all \in Seq(Nat)
    BY <1>1, ListIs
<1>3. PICK m \in Nat :
        /\ m = (IF n <= k THEN 0 ELSE IF n - k <= s THEN n - k ELSE s)
        /\ page \in Seq(Nat) /\ Len(page) = m
        /\ k + m <= n \/ m = 0
        /\ \A i \in 1..m : page[i] = all[k + i]
  <2>1. Follows(page, all, k, s, n)
      BY <1>1, NextPage
  <2> QED
      BY <2>1 DEF Follows
<1>4. DOMAIN page = 1..m
    BY <1>3, LenProperties
<1>5. Once(page)
  <2>1. ASSUME NEW i \in 1..m, NEW j \in 1..m, page[i] = page[j] PROVE i = j
    <3>1. k + i \in 1..n /\ k + j \in 1..n
      <4>1. k + m <= n \/ m = 0
          BY <1>3
      <4> QED
          BY <4>1
    <3>2. page[i] = all[k + i] /\ page[j] = all[k + j]
        BY <1>3
    <3>3. k + i = k + j
        BY <1>1, <2>1, <3>1, <3>2
    <3> QED
        BY <3>3
  <2>2. page \in [1..m -> Nat]
      BY <1>3, <1>4, ElementOfSeq
  <2> QED
      BY <1>3, <2>1, <2>2 DEF Once
<1>6. sc.stayed \subseteq ToSet(all)
    BY DEF Kept
<1>7. ASSUME NEW x \in sc.stayed
      PROVE  KeptAt(sd, all, k + s, x)
  <2>1. PICK j \in 1..n : all[j] = x /\ Cardinality(UpTo(all, x)) = j - 1
      BY <1>1, <1>6, PlaceIs
  <2>2. /\ x \notin sc.slid /\ Often(sc.shown, x) = 0 => j - 1 >= k
        /\ x \notin sc.pushed =>
             Often(sc.shown, x) = 0 \/ (Often(sc.shown, x) = 1 /\ j - 1 < k)
    <3>1. KeptAt(sc, all, k, x)
        BY DEF Kept
    <3> QED
        BY <2>1, <3>1 DEF KeptAt
  <2>3. /\ Often(sc.shown, x) \in Nat
        /\ x \in ToSet(page) => Often(sd.shown, x) = Often(sc.shown, x) + 1
        /\ x \notin ToSet(page) => Often(sd.shown, x) = Often(sc.shown, x)
      BY <1>3, <1>5, OftenGrows
  <2>4. x \in ToSet(page) <=> j > k /\ j <= k + s
    <3>1. ASSUME x \in ToSet(page) PROVE j > k /\ j <= k + s
      <4>1. PICK i \in 1..m : page[i] = x
          BY <1>4, <3>1 DEF ToSet
      <4>2. k + i \in 1..n /\ all[k + i] = x
          BY <1>3, <4>1
      <4>3. j = k + i
          BY <1>1, <2>1, <4>2
      <4> QED
          BY <1>3, <4>1, <4>3
    <3>2. ASSUME j > k, j <= k + s PROVE x \in ToSet(page)
      <4>1. j - k \in 1..m /\ k + (j - k) = j
          BY <1>3, <3>2
      <4>2. page[j - k] = x
          BY <1>3, <2>1, <4>1
      <4> QED
          BY <1>4, <4>1, <4>2 DEF ToSet
    <3> QED
        BY <3>1, <3>2
  <2> QED
      BY <2>1, <2>2, <2>3, <2>4 DEF KeptAt
<1>8. sd.shown \in Seq(Nat)
    BY <1>3, ConcatProperties
<1> QED
    BY <1>6, <1>7, <1>8 DEF Kept

\* A change of the table moves rows, and those that it moves are noted.
LEMMA ChangeKeeps ==
    ASSUME NEW all, Once(all), NEW new, Once(new), NEW k \in Nat,
           NEW sc, Kept(sc, all, k), NEW sd,
           sd.stayed = sc.stayed \cap ToSet(new), sd.shown = sc.shown,
           \A x \in sd.stayed \ sd.slid : x \notin sc.slid /\ UpTo(all, x) \subseteq UpTo(new, x),
           \A x \in sd.stayed \ sd.pushed : x \notin sc.pushed /\ UpTo(new, x) \subseteq UpTo(all, x)
    PROVE  Kept(sd, new, k)
<1>1. ASSUME NEW x \in sd.stayed
      PROVE  KeptAt(sd, new, k, x)
  <2>1. x \in ToSet(all) /\ x \in ToSet(new) /\ x \in sc.stayed
      BY DEF Kept
  <2>2. /\ IsFiniteSet(UpTo(all, x)) /\ Cardinality(UpTo(all, x)) \in Nat
        /\ IsFiniteSet(UpTo(new, x)) /\ Cardinality(UpTo(new, x)) \in Nat
      BY <2>1, PlaceIs, FS_CardinalityType
  <2>3. /\ x \notin sc.slid /\ Often(sc.shown, x) = 0 => Cardinality(UpTo(all, x)) >= k
        /\ x \notin sc.pushed =>
             Often(sc.shown, x) = 0 \/ (Often(sc.shown, x) = 1 /\ Cardinality(UpTo(all, x)) < k)
    <3>1. KeptAt(sc, all, k, x)
        BY <2>1 DEF Kept
    <3> QED
        BY <3>1 DEF KeptAt
  <2>4. UpTo(all, x) \subseteq UpTo(new, x)
           => Cardinality(UpTo(all, x)) <= Cardinality(UpTo(new, x))
      BY <2>2, FS_Subset
  <2>5. UpTo(new, x) \subseteq UpTo(all, x)
           => Cardinality(UpTo(new, x)) <= Cardinality(UpTo(all, x))
      BY <2>2, FS_Subset
  <2> QED
      BY <2>2, <2>3, <2>4, <2>5 DEF KeptAt
<1> QED
    BY <1>1 DEF Kept

\* When the places shown are no fewer than the rows that the total counted, the scan
\* has shown what it should.
LEMMA ScanIsOver ==
    ASSUME NEW all, Once(all), NEW first, Once(first), NEW k \in Nat,
           NEW sc, Kept(sc, all, k), Since(sc, all, first), Len(first) <= k
    PROVE  \A x \in sc.stayed : /\ Often(sc.shown, x) = 0 => x \in sc.slid \cup sc.late
                                /\ Often(sc.shown, x) > 1 => x \in sc.pushed
<1> SUFFICES ASSUME NEW x \in sc.stayed
             PROVE  /\ Often(sc.shown, x) = 0 => x \in sc.slid \cup sc.late
                    /\ Often(sc.shown, x) > 1 => x \in sc.pushed
    OBVIOUS
<1>1. /\ x \in ToSet(all)
      /\ x \notin sc.slid /\ Often(sc.shown, x) = 0 => Cardinality(UpTo(all, x)) >= k
      /\ x \notin sc.pushed => Often(sc.shown, x) = 0 \/ Often(sc.shown, x) = 1
    BY DEF Kept, KeptAt
<1>2. ASSUME x \notin sc.late PROVE Cardinality(UpTo(all, x)) < k
  <2>1. x \in ToSet(first) /\ UpTo(all, x) \subseteq UpTo(first, x)
      BY <1>2 DEF Since
  <2>2. PICK j \in 1..Len(first) :
          /\ Len(first) \in Nat /\ IsFiniteSet(UpTo(first, x))
          /\ Cardinality(UpTo(first, x)) = j - 1
      BY <2>1, PlaceIs
  <2>3. IsFiniteSet(UpTo(all, x)) /\ Cardinality(UpTo(all, x)) \in Nat
      BY <1>1, PlaceIs, FS_CardinalityType
  <2>4. Cardinality(UpTo(all, x)) <= Cardinality(UpTo(first, x))
      BY <2>1, <2>2, FS_Subset
  <2> QED
      BY <2>2, <2>3, <2>4
<1>3. Cardinality(UpTo(all, x)) \in Nat
    BY <1>1, PlaceIs, FS_CardinalityType
<1> QED
    BY <1>1, <1>2, <1>3

\* How many pages the scan has shown.
PagesShown(r, ts) == IF Len(ts) < 2 THEN PageIndex(r) - 1 ELSE PageIndex(r)

\* What has been shown of a scan, and since its last total; its offsets have not
\* wrapped round so far.
FollowedOn(r, rows, sc, ts) ==
    /\ sc.shown \in Seq(Nat)
    /\ Kept(sc, InOrder(r, rows), PagesShown(r, ts) * PageSize(r))
    /\ Len(ts) >= 1 => Since(sc, InOrder(r, rows), InOrder(r, ts[1]))
    /\ PageIndex(r) > 1 => Skipped(r) - PageSize(r) <= MaxInt
    /\ Len(ts) = 2 => Skipped(r) <= MaxInt

\* A scan is followed that began at the first page and met no error.
Following == Paging /\ scan.whole /\ status \in {0, 200}

\* The inductive invariant of the scan, beside ListsInv.
ScanInv ==
    /\ DOMAIN scan = {"stayed", "slid", "pushed", "late", "shown", "whole"}
    /\ Following => FollowedOn(req, table, scan, seen)

\* The list, and so its order and its rows, stay the same for a whole behaviour.
LEMMA InOrderNext ==
    ASSUME scope' = scope, NEW r, NEW rows
    PROVE  InOrder(r, rows)' = InOrder(r, rows) /\ PageSize(r)' = PageSize(r)
<1>1. list' = list
    BY DEF list
<1>2. PageSize(r)' = PageSize(r)
    BY <1>1 DEF PageSize
<1>3. Order' = Order
    BY <1>1 DEF Order
<1>4. PICK F : F = Fields
    OBVIOUS
<1>5. Fields' = F
    BY <1>1, <1>4 DEF Fields
<1>6. PICK s : s = Span
    OBVIOUS
<1>7. Span' = s
    BY <1>1, <1>6 DEF Span
<1>8. ASSUME NEW kind, NEW field, NEW v PROVE Wants(kind, field, v)' <=> Wants(kind, field, v)
    BY <1>6, <1>7 DEF Wants
<1>9. Wanted(r, rows)' = Wanted(r, rows)
  <2>1. ASSUME NEW id \in DOMAIN rows, NEW f \in DOMAIN F
        PROVE  Wants(F[f], r[f], rows[id][f])' <=> Wants(F[f], r[f], rows[id][f])
      BY <1>8
  <2>2. \A id \in DOMAIN rows :
          (\A f \in DOMAIN F : Wants(F[f], r[f], rows[id][f])')
             <=> (\A f \in DOMAIN F : Wants(F[f], r[f], rows[id][f]))
      BY <2>1
  <2>3. Wanted(r, rows)' =
          {id \in DOMAIN rows : \A f \in DOMAIN F : Wants(F[f], r[f], rows[id][f])'}
      BY <1>5 DEF Wanted
  <2>4. Wanted(r, rows) =
          {id \in DOMAIN rows : \A f \in DOMAIN F : Wants(F[f], r[f], rows[id][f])}
      BY <1>4 DEF Wanted
  <2> QED
      BY <2>2, <2>3, <2>4
<1> QED
    BY <1>2, <1>3, <1>9 DEF InOrder

\* FollowedOn depends on the state through its arguments, and on the list.
FollowedHere ==
    \A r, rows, sc, ts : r = req /\ rows = table /\ sc = scan /\ ts = seen =>
        (FollowedOn(req, table, scan, seen) <=> FollowedOn(r, rows, sc, ts))

\* That holds in a state,
LEMMA FollowedIs == FollowedHere
BY DEF FollowedHere
\* and in the state after a step.
LEMMA FollowedThen == FollowedHere'
BY FollowedIs, PTL

\* So what is followed of the values after a step is followed after the step.
LEMMA FollowedNext ==
    ASSUME scope' = scope, NEW r, r = req', NEW rows, rows = table', NEW sc, sc = scan',
           NEW ts, ts = seen', FollowedOn(r, rows, sc, ts)
    PROVE  FollowedOn(req, table, scan, seen)'
<1>1. PICK one : one = ts[1]
    OBVIOUS
<1>2. /\ InOrder(r, rows)' = InOrder(r, rows) /\ PageSize(r)' = PageSize(r)
      /\ InOrder(r, one)' = InOrder(r, one)
    BY InOrderNext
<1>3. Skipped(r)' = Skipped(r)
    BY <1>2 DEF Skipped
<1>4. FollowedOn(r, rows, sc, ts)'
    BY <1>1, <1>2, <1>3 DEF FollowedOn
<1>5. (\A a, b, c, d : a = req /\ b = table /\ c = scan /\ d = seen =>
        (FollowedOn(req, table, scan, seen) <=> FollowedOn(a, b, c, d)))'
    BY FollowedThen DEF FollowedHere
<1> QED
    BY <1>4, <1>5

\* The next page of a request is of the same rows.
LEMMA TurnedInOrder ==
    ASSUME list \in ListNames, NEW r, IsRequest(list, r), NEW n \in Int,
           NEW t, t = [r EXCEPT !.page_index = n], NEW rows
    PROVE  /\ InOrder(t, rows) = InOrder(r, rows) /\ PageSize(t) = PageSize(r)
           /\ t.page_index = n
<1>1. "page_index" \notin DOMAIN Fields
    BY ColumnNames DEF Fields
<1>2. "page_index" \in DOMAIN r /\ "page_size" \in DOMAIN r
    BY DEF IsRequest
<1>3. t.page_index = n /\ t.page_size = r.page_size
    BY <1>2
<1>4. \A f \in DOMAIN Fields : t[f] = r[f]
  <2>1. \A f \in DOMAIN r : f # "page_index" => t[f] = r[f]
      OBVIOUS
  <2>2. DOMAIN Fields \subseteq DOMAIN r
      BY DEF Fields, IsRequest
  <2> QED
      BY <1>1, <2>1, <2>2
<1>5. Wanted(t, rows) = Wanted(r, rows)
    BY <1>4 DEF Wanted
<1> QED
    BY <1>3, <1>5 DEF InOrder, PageSize

\* The rows of a list come once each.
LEMMA OnceInOrder ==
    ASSUME NEW r, NEW rows, IsTable(list, rows)
    PROVE  Once(InOrder(r, rows))
<1>1. PICK q : q = InOrder(r, rows)
    OBVIOUS
<1>2. PICK ids : ids = {id \in Wanted(r, rows) : rows[id].joined}
    OBVIOUS
<1>3. Sorted(q, Order, rows, ids)
    BY <1>1, <1>2, InOrderIs
<1>4. ids \subseteq Nat
    BY <1>2 DEF Wanted, IsTable
<1>5. PICK n \in Nat : /\ Len(q) = n /\ q \in [1..n -> ids]
                       /\ \A i, j \in 1..n : q[i] = q[j] => i = j
    BY <1>3 DEF Sorted
<1>6. q \in [1..n -> Nat]
    BY <1>4, <1>5
<1> QED
    BY <1>1, <1>5, <1>6 DEF Once

\* There are no more rows to page through than the total says: the page joins, the
\* count does not (teacher.go and ab_module.go of internal/repository).
LEMMA TotalCovers ==
    ASSUME NEW r, NEW rows, IsTable(list, rows)
    PROVE  /\ Cardinality(Wanted(r, rows)) \in Nat /\ Len(InOrder(r, rows)) \in Nat
           /\ Len(InOrder(r, rows)) <= Cardinality(Wanted(r, rows))
<1>1. PICK q : q = InOrder(r, rows)
    OBVIOUS
<1>2. PICK ids : ids = {id \in Wanted(r, rows) : rows[id].joined}
    OBVIOUS
<1>3. Sorted(q, Order, rows, ids)
    BY <1>1, <1>2, InOrderIs
<1>4. Len(q) = Cardinality(ids) /\ Len(q) \in Nat
    BY <1>3 DEF Sorted
<1>5. IsFiniteSet(Wanted(r, rows)) /\ Cardinality(Wanted(r, rows)) \in Nat
    BY WantedIs
<1>6. ids \subseteq Wanted(r, rows)
    BY <1>2
<1>7. Cardinality(ids) <= Cardinality(Wanted(r, rows))
    BY <1>5, <1>6, FS_Subset
<1> QED
    BY <1>1, <1>4, <1>5, <1>7

\* An offset that is beyond the largest int by a page at most wraps round to a
\* negative one, which the server rejects: it is never passed for a smaller one.
LEMMA WrapsOnce ==
    ASSUME NEW n \in Nat, NEW s \in 1..100, n - s <= MaxInt, Int64(n) >= 0
    PROVE  n <= MaxInt /\ Int64(n) = n
<1>1. PICK m \in Nat : m = MaxInt /\ m >= 100
    BY QueriesAssumption
<1>2. CASE n <= m
    BY <1>1, <1>2, Int64Small
<1>3. CASE n > m
  <2>1. PICK d \in Nat \ {0} : d = 2 * (m + 1)
      OBVIOUS
  <2>2. PICK y \in 0..(d - 1) : y = n - m - 1
      BY <1>1, <1>3, <2>1
  <2>3. PICK x \in Nat : x = n + m + 1 /\ x = d + y
      BY <2>1, <2>2
  <2>4. x % d = y
      BY <2>1, <2>2, <2>3
  <2>5. Int64(n) = y - (m + 1)
      BY <1>1, <2>1, <2>3, <2>4 DEF Int64
  <2>6. y - (m + 1) < 0
      BY <1>1, <1>3, <2>2
  <2> QED
      BY <2>5, <2>6
<1> QED
    BY <1>1, <1>2, <1>3

\* A step that leaves the request, its tables and the scan alone.
LEMMA ScanStays ==
    ASSUME ScanInv, scope' = scope, req' = req, plan' = plan, table' = table, seen' = seen,
           scan' = scan, status' \in {0, 200} => status \in {0, 200}
    PROVE  ScanInv'
<1>1. ASSUME Following' PROVE FollowedOn(req, table, scan, seen)'
  <2>1. Following
      BY <1>1 DEF Following, Paging
  <2>2. PICK r, rows, sc, ts : r = req /\ rows = table /\ sc = scan /\ ts = seen
      OBVIOUS
  <2>3. FollowedOn(r, rows, sc, ts)
      BY <2>1, <2>2 DEF ScanInv
  <2> QED
      BY <2>2, <2>3, FollowedNext
<1> QED
    BY <1>1 DEF ScanInv

\* What is known while a list with pages is read.
LEMMA FollowedFacts ==
    ASSUME ListsInv, Paging
    PROVE  /\ list \in Pagers /\ list \in ListNames /\ IsRequest(list, req) /\ PlanFits(plan, req)
           /\ Len(plan) = 2 /\ plan # <<>> /\ IsTable(list, table)
           /\ plan[1].shape = "count" /\ plan[2].shape = "page"
           /\ status = 200 => Len(results) = 2 /\ Len(seen) = 2
<1>1. list \in ListNames /\ IsTable(list, table)
    BY ScopeIs DEF ListsInv, TablesOK
<1>2. AnswerOK
    BY DEF ListsInv
<1>3. Planned(req, plan)
    BY <1>2 DEF AnswerOK, Paging
<1>4. list \in Pagers
    BY <1>1, <1>3, PlansAre DEF Paging
<1>5. PlanFits(plan, req) /\ IsRequest(list, req)
    BY <1>3, <1>4, PagedPlans DEF Planned
<1>6. /\ Len(plan) = 2 /\ plan # <<>>
      /\ plan[1].shape = "count" /\ plan[2].shape = "page"
    BY <1>5, PagesAre
<1> QED
    BY <1>1, <1>2, <1>4, <1>5, <1>6 DEF AnswerOK

\* A scan that begins has shown nothing.
LEMMA AskScans ==
    ASSUME ListsInv, Ask
    PROVE  ScanInv'
<1>0. list \in ListNames /\ IsTable(list, table)
    BY ScopeIs DEF ListsInv, TablesOK
<1>1. PICK r \in Requests(scope) : Send(r) /\ scan' = NewScan(r)
    BY DEF Ask
<1>2. scope' = scope /\ table' = table /\ req' = r /\ seen' = <<>>
    BY <1>1 DEF Ask, Send
<1>3. PICK sc, rows : sc = scan' /\ rows = table'
    OBVIOUS
<1>4. DOMAIN sc = {"stayed", "slid", "pushed", "late", "shown", "whole"}
    BY <1>1, <1>3 DEF NewScan
<1>5. ASSUME Following' PROVE FollowedOn(req, table, scan, seen)'
  <2>1. sc.whole
      BY <1>3, <1>5 DEF Following
  <2>2. r # Malformed /\ r.page_index <= 1
      BY <1>1, <1>3, <2>1 DEF NewScan
  <2>3. IsRequest(list, r)
      BY <2>2, ScopeIs DEF ListsInv, TablesOK
  <2>4. PICK all : all = InOrder(r, rows)
      OBVIOUS
  <2>5. sc.stayed = ToSet(all) /\ sc.shown = <<>>
      BY <1>1, <1>2, <1>3, <2>2, <2>4 DEF NewScan
  <2>6. Once(all)
      BY <1>0, <1>2, <1>3, <2>4, OnceInOrder
  <2>7. Kept(sc, all, 0)
      BY <2>5, <2>6, NothingShown
  <2>8. PageIndex(r) = 1 /\ PageSize(r) \in 1..100
    <3>1. PageIndex(r) = 1
      <4>1. r.page_index \in Int
          BY <2>3 DEF IsRequest
      <4> QED
          BY <2>2, <4>1 DEF PageIndex
    <3> QED
        BY <2>3, <3>1, PageSizeIs
  <2>9. PICK ts : ts = <<>>
      OBVIOUS
  <2>10. Len(ts) = 0
      BY <2>9
  <2>11. PagesShown(r, ts) * PageSize(r) = 0
    <3>1. PagesShown(r, ts) = 0
        BY <2>8, <2>10 DEF PagesShown
    <3>2. PICK s \in Nat : s = PageSize(r)
        BY <2>8
    <3>3. 0 * s = 0
        OBVIOUS
    <3> QED
        BY <3>1, <3>2, <3>3
  <2>12. sc.shown \in Seq(Nat)
      BY <2>5
  <2>13. FollowedOn(r, rows, sc, ts)
      BY <2>4, <2>7, <2>8, <2>10, <2>11, <2>12 DEF FollowedOn
  <2> QED
      BY <1>2, <1>3, <2>9, <2>13, FollowedNext
<1> QED
    BY <1>3, <1>4, <1>5 DEF ScanInv

\* The next request goes on where the page before it ended.
LEMMA TurnScans ==
    ASSUME ListsInv, ScanInv, TurnPage
    PROVE  ScanInv'
<1>1. /\ list \in ListNames /\ IsRequest(list, req) /\ Len(seen) = 2
    BY FollowedFacts DEF TurnPage
<1>2. PICK r, n, t, rows, sc, ts :
        /\ r = req /\ n = PageIndex(r) + 1 /\ t = [r EXCEPT !.page_index = n]
        /\ rows = table /\ sc = scan /\ ts = seen
    OBVIOUS
<1>3. /\ scope' = scope /\ table' = rows /\ scan' = sc /\ status = 200 /\ Paging
      /\ req' = t /\ seen' = <<>>
    BY <1>2 DEF TurnPage, Send
<1>4. ASSUME Following' PROVE FollowedOn(req, table, scan, seen)'
  <2>1. Following
      BY <1>2, <1>3, <1>4 DEF Following
  <2>2. FollowedOn(r, rows, sc, ts)
      BY <1>2, <2>1 DEF ScanInv
  <2>3. /\ PageSize(r) \in 1..100 /\ PageIndex(r) \in Nat \ {0} /\ Skipped(r) \in Nat
        /\ PageIndex(r) * PageSize(r) = Skipped(r) + PageSize(r) /\ n \in Int
      BY <1>1, <1>2, PageSizeIs
  <2>4. InOrder(t, rows) = InOrder(r, rows) /\ PageSize(t) = PageSize(r) /\ t.page_index = n
      BY <1>1, <1>2, <2>3, TurnedInOrder
  <2>5. PageIndex(t) = PageIndex(r) + 1
      BY <1>2, <2>3, <2>4 DEF PageIndex
  <2>6. PICK es : es = <<>>
      OBVIOUS
  <2>7. Len(es) = 0 /\ Len(ts) = 2
      BY <1>1, <1>2, <2>6
  <2>8. PagesShown(r, ts) = PageIndex(r) /\ PagesShown(t, es) = PageIndex(r)
      BY <2>3, <2>5, <2>7 DEF PagesShown
  <2>9. Skipped(t) = PageIndex(r) * PageSize(r)
    <3>1. PICK i \in Nat, s \in Nat : i = PageIndex(r) /\ s = PageSize(r)
        BY <2>3
    <3>2. (i + 1) - 1 = i
        OBVIOUS
    <3> QED
        BY <2>4, <2>5, <3>1, <3>2 DEF Skipped
  <2>10. Skipped(t) - PageSize(t) = Skipped(r) /\ Skipped(r) <= MaxInt
    <3>1. Skipped(r) <= MaxInt
        BY <2>2, <2>7 DEF FollowedOn
    <3> QED
        BY <2>3, <2>4, <2>9, <3>1
  <2>11. FollowedOn(t, rows, sc, es)
      BY <2>2, <2>4, <2>7, <2>8, <2>10 DEF FollowedOn
  <2> QED
      BY <1>2, <1>3, <2>6, <2>11, FollowedNext
<1> QED
    BY <1>2, <1>3, <1>4 DEF ScanInv

\* The writer's change moves rows of the scan, and they are noted.
LEMMA CommitScans ==
    ASSUME ListsInv, ScanInv, scope' = scope, UNCHANGED readVars, NEW new, IsTable(list, new),
           table' = new, scan' = IF Paging THEN Watch(new) ELSE scan
    PROVE  ScanInv'
<1>1. /\ req' = req /\ plan' = plan /\ found' = found /\ results' = results
      /\ seen' = seen /\ status' = status
    BY DEF readVars
<1>2. CASE ~Paging
  <2>1. scan' = scan /\ ~Following'
      BY <1>1, <1>2 DEF Following, Paging
  <2> QED
      BY <2>1 DEF ScanInv
<1>3. CASE Paging
  <2>1. PICK r, rows, sc, sd, ts :
          r = req /\ rows = table /\ sc = scan /\ sd = scan' /\ ts = seen
      OBVIOUS
  <2>2. PICK all, next : all = InOrder(r, rows) /\ next = InOrder(r, new)
      OBVIOUS
  <2>3. sd = Watch(new)
      BY <1>3, <2>1
  <2>4. DOMAIN sc = {"stayed", "slid", "pushed", "late", "shown", "whole"}
      BY <2>1 DEF ScanInv
  <2>5. PICK came, went :
          /\ came = {x \in sc.stayed \cap ToSet(next) : ~(UpTo(next, x) \subseteq UpTo(all, x))}
          /\ went = {x \in sc.stayed \cap ToSet(next) : ~(UpTo(all, x) \subseteq UpTo(next, x))}
      OBVIOUS
  <2>6. sd = [sc EXCEPT !.stayed = sc.stayed \cap ToSet(next), !.slid = @ \cup went,
                        !.pushed = @ \cup came, !.late = @ \cup came]
      BY <2>1, <2>2, <2>3, <2>5 DEF Watch, Above, UpTo
  <2>7. /\ DOMAIN sd = DOMAIN sc
        /\ sd.stayed = sc.stayed \cap ToSet(next) /\ sd.slid = sc.slid \cup went
        /\ sd.pushed = sc.pushed \cup came /\ sd.late = sc.late \cup came
        /\ sd.shown = sc.shown /\ sd.whole = sc.whole
      BY <2>4, <2>6
  <2>8. ASSUME Following' PROVE FollowedOn(req, table, scan, seen)'
    <3>1. Following
        BY <1>1, <2>1, <2>7, <2>8 DEF Following, Paging
    <3>2. FollowedOn(r, rows, sc, ts)
        BY <2>1, <3>1 DEF ScanInv
    <3>3. Once(all) /\ Once(next)
        BY <1>3, <2>1, <2>2, FollowedFacts, OnceInOrder
    <3>4. PICK k \in Nat : k = PagesShown(r, ts) * PageSize(r)
      <4>1. PageSize(r) \in 1..100 /\ PageIndex(r) \in Nat \ {0}
          BY <1>3, <2>1, FollowedFacts, PageSizeIs
      <4>2. PagesShown(r, ts) \in Nat
          BY <4>1 DEF PagesShown
      <4>3. PICK i \in Nat, s \in Nat : i = PagesShown(r, ts) /\ s = PageSize(r)
          BY <4>1, <4>2
      <4>4. i * s \in Nat
          OBVIOUS
      <4> QED
          BY <4>3, <4>4
    <3>5. Kept(sc, all, k)
        BY <2>2, <3>2, <3>4 DEF FollowedOn
    <3>6. /\ \A x \in sd.stayed \ sd.slid : x \notin sc.slid /\ UpTo(all, x) \subseteq UpTo(next, x)
          /\ \A x \in sd.stayed \ sd.pushed : x \notin sc.pushed /\ UpTo(next, x) \subseteq UpTo(all, x)
        BY <2>5, <2>7
    <3>7. Kept(sd, next, k)
        BY <2>7, <3>3, <3>5, <3>6, ChangeKeeps
    <3>8. ASSUME Len(ts) >= 1 PROVE Since(sd, next, InOrder(r, ts[1]))
      <4>1. PICK first : first = InOrder(r, ts[1])
          OBVIOUS
      <4>2. Since(sc, all, first)
          BY <2>2, <3>2, <3>8, <4>1 DEF FollowedOn
      <4>3. ASSUME NEW x \in sd.stayed \ sd.late
            PROVE  x \in ToSet(first) /\ UpTo(next, x) \subseteq UpTo(first, x)
        <5>1. x \in sc.stayed \ sc.late /\ UpTo(next, x) \subseteq UpTo(all, x)
            BY <2>5, <2>7
        <5>2. x \in ToSet(first) /\ UpTo(all, x) \subseteq UpTo(first, x)
            BY <4>2, <5>1 DEF Since
        <5> QED
            BY <5>1, <5>2
      <4> QED
          BY <4>1, <4>3 DEF Since
    <3>9. FollowedOn(r, new, sd, ts)
        BY <2>2, <2>7, <3>2, <3>4, <3>7, <3>8 DEF FollowedOn
    <3> QED
        BY <1>1, <2>1, <3>9, FollowedNext
  <2> QED
      BY <2>1, <2>4, <2>7, <2>8 DEF ScanInv
<1> QED
    BY <1>2, <1>3

\* The count starts anew what is late; the page is shown.
LEMMA QueryScans ==
    ASSUME ListsInv, ScanInv, QueryRuns
    PROVE  ScanInv'
<1>1. PICK r, rows, sc, sd, ts, td, page :
        /\ r = req /\ rows = table /\ sc = scan /\ sd = scan' /\ ts = seen /\ td = seen'
        /\ page = found'
    OBVIOUS
<1>2. /\ scope' = scope /\ table' = rows /\ req' = r /\ plan' = plan /\ status' = status
      /\ Running /\ Valid(Current) /\ page = Result(Current, rows) /\ td = Append(ts, rows)
      /\ sd = CASE Current.shape = "count" -> [sc EXCEPT !.late = {}]
                [] Current.shape = "page"  -> [sc EXCEPT !.shown = @ \o page]
                [] OTHER                   -> sc
    BY <1>1 DEF QueryRuns
<1>3. DOMAIN sc = {"stayed", "slid", "pushed", "late", "shown", "whole"}
    BY <1>1 DEF ScanInv
<1>4. DOMAIN sd = DOMAIN sc /\ sd.whole = sc.whole
    BY <1>2, <1>3
<1>5. ASSUME Following' PROVE FollowedOn(req, table, scan, seen)'
  <2>1. Following /\ Paging
      BY <1>1, <1>2, <1>4, <1>5 DEF Following, Paging
  <2>2. FollowedOn(r, rows, sc, ts)
      BY <1>1, <2>1 DEF ScanInv
  <2>3. /\ list \in Pagers /\ IsRequest(list, r) /\ PlanFits(plan, r)
        /\ Len(plan) = 2 /\ IsTable(list, rows)
        /\ plan[1].shape = "count" /\ plan[2].shape = "page"
      BY <1>1, <2>1, FollowedFacts
  <2>4. IsList(ts) /\ IsList(results) /\ Len(ts) = Len(results) /\ Len(results) < 2
    <3>1. SqlTypeOK /\ Reader \in Callers /\ AnswerOK
        BY TwoCallers DEF ListsInv, SqlInv
    <3>2. call[Reader].at \in Before1
        BY <3>1, RunsGoes DEF QueryRuns
    <3> QED
        BY <1>1, <1>2, <2>3, <3>1, <3>2 DEF AnswerOK
  <2>5. PICK l \in 0..1 : l = Len(ts)
    <3>1. Len(ts) \in Nat
        BY <2>4, AppendIs
    <3> QED
        BY <2>4, <3>1
  <2>6. Len(td) = l + 1 /\ td[l + 1] = rows /\ (l = 1 => td[1] = ts[1])
      BY <1>2, <2>4, <2>5, AppendIs
  <2>7. Current = plan[l + 1]
      BY <2>4, <2>5 DEF Current
  <2>8. PICK all : all = InOrder(r, rows)
      OBVIOUS
  <2>9. /\ PageSize(r) \in 1..100 /\ PageIndex(r) \in Nat \ {0} /\ Skipped(r) \in Nat
        /\ Skipped(r) = (PageIndex(r) - 1) * PageSize(r)
        /\ PageIndex(r) * PageSize(r) = Skipped(r) + PageSize(r)
      BY <2>3, PageSizeIs
  <2>10. CASE l = 0
    <3>1. sd = [sc EXCEPT !.late = {}]
        BY <1>2, <2>3, <2>7, <2>10
    <3>2. /\ sd.stayed = sc.stayed /\ sd.slid = sc.slid /\ sd.pushed = sc.pushed
          /\ sd.shown = sc.shown /\ sd.late = {}
        BY <1>3, <3>1
    <3>3. PagesShown(r, td) = PagesShown(r, ts)
        BY <2>5, <2>6, <2>10 DEF PagesShown
    <3>4. PICK k : k = PagesShown(r, ts) * PageSize(r)
        OBVIOUS
    <3>5. Kept(sc, all, k)
        BY <2>2, <2>8, <3>4 DEF FollowedOn
    <3>6. Kept(sd, all, k)
        BY <3>2, <3>5 DEF Kept, KeptAt
    <3>7. Since(sd, all, all)
        BY <3>2, <3>6 DEF Since, Kept
    <3>8. FollowedOn(r, rows, sd, td)
        BY <2>2, <2>6, <2>8, <2>10, <3>2, <3>3, <3>4, <3>6, <3>7 DEF FollowedOn
    <3> QED
        BY <1>1, <1>2, <3>8, FollowedNext
  <2>11. CASE l = 1
    <3>1. sd = [sc EXCEPT !.shown = @ \o page]
        BY <1>2, <2>3, <2>7, <2>11
    <3>2. /\ sd.stayed = sc.stayed /\ sd.slid = sc.slid /\ sd.pushed = sc.pushed
          /\ sd.shown = sc.shown \o page /\ sd.late = sc.late
        BY <1>3, <3>1
    <3>3. PICK k \in Nat, s \in 1..100 : k = Skipped(r) /\ s = PageSize(r)
        BY <2>9
    <3>4. PagesShown(r, ts) * PageSize(r) = k /\ PagesShown(r, td) * PageSize(r) = k + s
        BY <2>5, <2>6, <2>9, <2>11, <3>3 DEF PagesShown
    <3>5. PICK o \in Int : o = Int64(k) /\ OffsetOf(plan[2]) = o
                           /\ Result(plan[2], rows) = Window(all, o, s)
        BY <2>3, <2>8, <3>3, PagesAre
    <3>6. o >= 0
        BY <1>2, <2>3, <2>7, <2>11, <3>5 DEF Valid
    <3>7. k - s <= MaxInt
      <4>1. CASE PageIndex(r) > 1
          BY <2>2, <3>3, <4>1 DEF FollowedOn
      <4>2. CASE PageIndex(r) = 1
        <5>1. k = 0
          <6>1. (1 - 1) * s = 0
              OBVIOUS
          <6> QED
              BY <2>9, <3>3, <4>2, <6>1
        <5> QED
            BY <5>1, QueriesAssumption
      <4> QED
          BY <2>9, <4>1, <4>2
    <3>8. k <= MaxInt /\ o = k
        BY <3>5, <3>6, <3>7, WrapsOnce
    <3>9. page = Window(all, k, s)
        BY <1>2, <2>7, <2>11, <3>5, <3>8
    <3>10. Once(all)
        BY <2>3, <2>8, OnceInOrder
    <3>11. Kept(sc, all, k) /\ sc.shown \in Seq(Nat)
        BY <2>2, <2>8, <3>4 DEF FollowedOn
    <3>12. Kept(sd, all, k + s) /\ sd.shown \in Seq(Nat)
      <4>1. s \in Nat
          OBVIOUS
      <4> QED
          BY <3>2, <3>9, <3>10, <3>11, <4>1, PageKeeps
    <3>13. Since(sd, all, InOrder(r, td[1]))
      <4>1. PICK first : first = InOrder(r, ts[1])
          OBVIOUS
      <4>2. Since(sc, all, first)
          BY <2>2, <2>5, <2>8, <2>11, <4>1 DEF FollowedOn
      <4>3. Since(sd, all, first)
          BY <3>2, <4>2 DEF Since
      <4> QED
          BY <2>6, <2>11, <4>1, <4>3
    <3>14. FollowedOn(r, rows, sd, td)
        BY <2>2, <2>8, <3>3, <3>4, <3>8, <3>12, <3>13 DEF FollowedOn
    <3> QED
        BY <1>1, <1>2, <3>14, FollowedNext
  <2> QED
      BY <2>5, <2>10, <2>11
<1> QED
    BY <1>1, <1>3, <1>4, <1>5 DEF ScanInv

\* At first nothing is scanned.
LEMMA ScanInvInit ==
    ASSUME Init PROVE ScanInv
BY DEF Init, ScanInv, NewScan, Following, Paging

\* Whatever the writer does.
LEMMA WriterScans ==
    ASSUME ListsInv, ScanInv,
           \/ WriteBegins \/ WriteInTx \/ WriterMoves \/ WriterFaults
           \/ WriteRuns \/ WriteReturns \/ WriteCommits \/ WriteRollsBack
    PROVE  ScanInv'
<1>1. scope' = scope /\ UNCHANGED readVars
    BY WriterLeavesReader
<1>2. SqlTypeOK /\ Writer \in Callers /\ TablesOK
    BY TwoCallers DEF ListsInv, SqlInv
<1>3. ASSUME Commits, WriteRuns \/ WriteCommits PROVE ScanInv'
  <2>1. IsChange(change)
    <3>1. CASE WriteRuns
        BY <1>2, <3>1, RunsGoes DEF WriteRuns, TablesOK
    <3>2. CASE WriteCommits
        BY <1>2, <3>2 DEF WriteCommits, TablesOK
    <3> QED
        BY <1>3, <3>1, <3>2
  <2>2. PICK new : new = change.to
      OBVIOUS
  <2>3. IsTable(list, new) /\ table' = new /\ scan' = IF Paging THEN Watch(new) ELSE scan
      BY <1>3, <2>1, <2>2 DEF IsChange, Commits
  <2> QED
      BY <1>1, <2>3, CommitScans
<1>4. ASSUME table' = table, scan' = scan PROVE ScanInv'
  <2>1. req' = req /\ plan' = plan /\ seen' = seen /\ status' = status
      BY <1>1 DEF readVars
  <2> QED
      BY <1>1, <1>4, <2>1, ScanStays
<1>5. CASE \/ WriteBegins \/ WriteInTx \/ WriterMoves \/ WriterFaults
           \/ WriteReturns \/ WriteRollsBack
  <2>1. table' = table /\ scan' = scan
      BY <1>5 DEF WriteBegins, WriteInTx, WriterMoves, WriterFaults, WriteReturns,
                  WriteRollsBack, listVars
  <2> QED
      BY <1>4, <2>1
<1>6. CASE WriteRuns
  <2>1. Commits \/ (table' = table /\ scan' = scan)
      BY <1>6 DEF WriteRuns, listVars
  <2> QED
      BY <1>3, <1>4, <1>6, <2>1
<1>7. CASE WriteCommits
  <2>1. Commits
      BY <1>7 DEF WriteCommits
  <2> QED
      BY <1>3, <1>7, <2>1
<1> QED
    BY <1>5, <1>6, <1>7

\* Whatever the reader does.
LEMMA ReaderScans ==
    ASSUME ListsInv, ScanInv,
           \/ Ask \/ TurnPage \/ Leave \/ Issue \/ ReaderMoves \/ ReaderFaults \/ Rejected
           \/ QueryRuns \/ ReadRow \/ ReadEnd \/ ReadBreaks \/ Return
    PROVE  ScanInv'
<1>1. CASE Ask
    BY <1>1, AskScans
<1>2. CASE TurnPage
    BY <1>2, TurnScans
<1>3. CASE Leave
  <2>1. scan' = NewScan(Malformed) /\ plan' = <<>>
      BY <1>3 DEF Leave
  <2> QED
      BY <2>1 DEF ScanInv, NewScan, Following, Paging
<1>4. CASE Issue \/ ReaderMoves \/ ReaderFaults \/ Rejected \/ ReadRow \/ ReadEnd \/ ReadBreaks
  <2>1. /\ scope' = scope /\ req' = req /\ plan' = plan /\ table' = table /\ seen' = seen
        /\ scan' = scan /\ status' = status
      BY <1>4 DEF Issue, ReaderMoves, ReaderFaults, Rejected, ReadRow, ReadEnd, ReadBreaks,
                  listVars, readVars
  <2> QED
      BY <2>1, ScanStays
<1>5. CASE QueryRuns
    BY <1>5, QueryScans
<1>6. CASE Return
  <2>1. /\ scope' = scope /\ req' = req /\ plan' = plan /\ table' = table /\ seen' = seen
        /\ scan' = scan
      BY <1>6 DEF Return
  <2>2. status = 0
    <3>1. SqlTypeOK /\ Reader \in Callers /\ ReaderOK
        BY TwoCallers DEF ListsInv, SqlInv
    <3>2. call[Reader].at \in {"ok", "failed", "lost"}
        BY <1>6, <3>1, FinishGoes DEF Return
    <3> QED
        BY <3>1, <3>2 DEF ReaderOK
  <2> QED
      BY <2>1, <2>2, ScanStays
<1> QED
    BY <1>1, <1>2, <1>3, <1>4, <1>5, <1>6

\* Every step keeps the invariant of the scan.
LEMMA ScanInvStep ==
    ASSUME ListsInv, ScanInv, [Next]_vars PROVE ScanInv'
<1>1. CASE UNCHANGED vars
  <2>1. /\ scope' = scope /\ req' = req /\ plan' = plan /\ table' = table /\ seen' = seen
        /\ scan' = scan /\ status' = status
      BY <1>1 DEF vars, listVars, readVars
  <2> QED
      BY <2>1, ScanStays
<1>2. CASE \/ Ask \/ TurnPage \/ Leave \/ Issue \/ ReaderMoves \/ ReaderFaults \/ Rejected
           \/ QueryRuns \/ ReadRow \/ ReadEnd \/ ReadBreaks \/ Return
    BY <1>2, ReaderScans
<1>3. CASE \/ WriteBegins \/ WriteInTx \/ WriterMoves \/ WriterFaults
           \/ WriteRuns \/ WriteReturns \/ WriteCommits \/ WriteRollsBack
    BY <1>3, WriterScans
<1> QED
    BY <1>1, <1>2, <1>3 DEF Next

\* However the writer's changes come between the statements of a scan, what it has
\* shown so far is the first places of the list, but for the rows that moved
\* (CountAndPage of internal/repository, called once for each page).
THEOREM ScanInvariant == Spec => []ScanInv
BY ListsInvariant, ScanInvInit, ScanInvStep, PTL DEF Spec

\* At the end of a scan.
LEMMA ScanMisses ==
    ASSUME ListsInv, ScanInv, ScanEnds, scan.whole
    PROVE  \A x \in scan.stayed : /\ Times(x) = 0 => x \in scan.slid \cup scan.late
                                  /\ Times(x) > 1 => x \in scan.pushed
<1>1. Paging /\ status = 200 /\ PageIndex(req) * PageSize(req) >= results[1][1]
    BY DEF ScanEnds
<1>2. FollowedOn(req, table, scan, seen)
    BY <1>1 DEF ScanInv, Following
<1>3. /\ list \in Pagers /\ IsRequest(list, req) /\ IsTable(list, table) /\ Len(seen) = 2
    BY <1>1, FollowedFacts
<1>4. Complete(req, plan, results, seen)
    BY <1>1, AnswerIsComplete
<1>5. IsTable(list, seen[1]) /\ results[1] = <<Cardinality(Wanted(req, seen[1]))>>
    BY <1>3, <1>4, PageAnswer
<1>6. PICK all, first, rows : all = InOrder(req, table) /\ first = InOrder(req, rows)
                              /\ rows = seen[1]
    OBVIOUS
<1>7. Once(all) /\ Once(first)
    BY <1>3, <1>5, <1>6, OnceInOrder
<1>8. PICK k \in Nat : k = PageIndex(req) * PageSize(req)
  <2>1. PageIndex(req) * PageSize(req) = Skipped(req) + PageSize(req)
        /\ Skipped(req) \in Nat /\ PageSize(req) \in 1..100
      BY <1>3, PageSizeIs
  <2> QED
      BY <2>1
<1>9. PagesShown(req, seen) = PageIndex(req)
    BY <1>3 DEF PagesShown
<1>10. Kept(scan, all, k) /\ Since(scan, all, first)
    BY <1>2, <1>3, <1>6, <1>8, <1>9 DEF FollowedOn
<1>11. Len(first) <= k
  <2>1. /\ Cardinality(Wanted(req, rows)) \in Nat /\ Len(first) \in Nat
        /\ Len(first) <= Cardinality(Wanted(req, rows))
      BY <1>5, <1>6, TotalCovers
  <2>2. results[1][1] = Cardinality(Wanted(req, rows))
      BY <1>5, <1>6
  <2> QED
      BY <1>1, <1>8, <2>1, <2>2
<1>12. PICK sc : sc = scan
    OBVIOUS
<1>13. \A x \in sc.stayed : /\ Often(sc.shown, x) = 0 => x \in sc.slid \cup sc.late
                            /\ Often(sc.shown, x) > 1 => x \in sc.pushed
    BY <1>7, <1>10, <1>11, <1>12, ScanIsOver
<1> QED
    BY <1>12, <1>13 DEF Times, Often

\* A console that turns the pages to the end, while rows are added, changed and
\* deleted, misses no row it could see throughout unless it moved up or was pushed
\* down after the last total, and shows none twice unless it was pushed down: for
\* every table, list, request, page size and number of writes.
THEOREM ScansMissOnlyMoved == Spec => []ScanMissesOnlyMoved
<1>1. ListsInv /\ ScanInv => ScanMissesOnlyMoved
    BY ScanMisses DEF ScanMissesOnlyMoved
<1> QED
    BY <1>1, ListsInvariant, ScanInvariant, PTL

\* What the SQL log says of the statements of lists and writers is what happened to
\* them (internal/database/sqllog.go).
THEOREM ListsLogMatches == Spec => []LogMatchesOutcome
BY ListsUseTheLog, LogAlwaysMatches, PTL
===============================================================================
