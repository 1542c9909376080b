----------------------------- MODULE PagedLists -------------------------------
(***************************************************************************)
(* The management console reads a list page by page while somebody else    *)
(* writes to its table, both through the logging wrapper.  A page is two   *)
(* statements, the count and the page itself, outside of any transaction;  *)
(* an overview is seven.  Nothing ties the statements of one answer, or    *)
(* the pages of one scan, to one state of the table.                       *)
(***************************************************************************)
EXTENDS ListQueries, SqlLog

CONSTANTS Reader, Writer,  \* the two callers
          Malformed,       \* a request that does not bind
          Scopes,          \* what the runs range over: a list, its tables at
                           \* first, the rows a writer may put, how many writes
                           \* and faults, the drivers
          Requests(_)      \* the requests of a scope

VARIABLES
  scope,    \* which of the scopes this behaviour is in
  table,    \* the list's table: a row for each id
  req,      \* the request being answered, Nil when there is none
  plan,     \* its statements
  found,    \* the rows the running statement found
  results,  \* what the statements before it returned
  seen,     \* the table each statement ran on
  status,   \* the answer's status, 0 while there is none
  scan,     \* what happened since the first page of this scan
  change,   \* the writer's change: the table it makes and whether its
            \* statement ran; Nil when there is none
  writes, faults   \* how many are left

readVars == <<req, plan, found, results, seen, status>>
listVars == <<scope, table, readVars, scan, change, writes, faults>>
vars == <<listVars, sqlVars>>

list == scope.list

-------------------------------------------------------------------------------
(***************************************************************************)
(* What a request asks for, field by field and without any SQL.            *)
(***************************************************************************)
NoFields == [f \in {} |-> Nil]
FieldsOf(l) ==
    CASE l = "products"       -> ProductListReq
      [] l = "orders"         -> OrderListReq
      [] l = "points"         -> PointsListReq
      [] l = "notifications"  -> NotificationListReq
      [] l = "teachers"       -> TeacherListReq
      [] l = "sales"          -> [teacher_id |-> "key"]
      [] l = "resigns"        -> ResignListReq
      [] l = "diagnoses"      -> DiagnoseListReq
      [] l = "adminUsers"     -> AdminUserListReq
      [] l = "events"         -> MonEventListReq
      [] l = "alerts"         -> MonAlertListReq
      [] l = "overview"       -> MonOverviewReq
      [] l = "modules"        -> AbModuleListReq
      [] l = "items"          -> AbModuleItemListReq
      [] l \in {"teacherDetail", "eventDetail"} -> [id |-> "key"]
      [] OTHER                   -> NoFields
Fields == FieldsOf(list)

Pagers == {"products", "orders", "points", "notifications", "teachers", "sales",
           "resigns", "diagnoses", "adminUsers", "events", "alerts", "modules",
           "items"}
ListNames == Pagers \cup {"catalog", "options", "boundUsers", "teacherDetail",
                         "eventDetail", "overview", "moduleOptions"}

(***************************************************************************)
(* The rows a table may have and the bodies that bind to a request.  NULL  *)
(* is no value of a column that is NOT NULL, and an id is its row's key.   *)
(***************************************************************************)
Texts == Seq(STRING)
Column(kind) ==
    CASE kind \in {"like", "trimmed", "equal", "prefix", "oneOf"} -> Texts
      [] kind = "all"                -> (SUBSET Texts) \ {Nil}
      [] kind \in {"span", "period"} -> Int
      [] OTHER                       -> Int \cup {Nil}
Said(kind) ==
    CASE kind \in {"like", "trimmed", "equal", "prefix"} -> Texts
      [] kind \in {"oneOf", "all"}          -> {s \in SUBSET Texts : IsFiniteSet(s)}
      [] kind \in {"days", "span", "period"} -> (Int \cup {Nil}) \X (Int \cup {Nil})
      [] OTHER                              -> Int \cup {Nil}

IsRow(l, row) ==
    /\ DOMAIN FieldsOf(l) \cup {"sort_no", "user_id", "joined"} \subseteq DOMAIN row
    /\ \A c \in DOMAIN FieldsOf(l) : row[c] \in Column(FieldsOf(l)[c])
    /\ row.sort_no \in Int /\ row.user_id \in Int
    /\ row.joined \in BOOLEAN /\ (l \notin {"sales", "items"} => row.joined)
IsTable(l, rows) ==
    /\ IsFiniteSet(DOMAIN rows) /\ DOMAIN rows \subseteq Nat \ {0}
    /\ \A id \in DOMAIN rows :
          IsRow(l, rows[id]) /\ ("id" \in DOMAIN rows[id] => rows[id].id = id)
IsRequest(l, r) ==
    /\ DOMAIN r = DOMAIN FieldsOf(l) \cup {"page_index", "page_size"}
    /\ \A f \in DOMAIN FieldsOf(l) : r[f] \in Said(FieldsOf(l)[f])
    /\ r.page_index \in Int /\ r.page_size \in Int

ASSUME ListsAssumption ==
    /\ Reader # Writer /\ {Reader, Writer} \subseteq Callers
    /\ Nil \notin Int \cup Texts
    /\ \A s \in Scopes :
          /\ s.list \in ListNames
          /\ \A rows \in s.tables : IsTable(s.list, rows)
          /\ \A row \in s.rows : IsRow(s.list, row)
          /\ \A r \in Requests(s) : r = Malformed \/ IsRequest(s.list, r)

\* A range left open reaches back from the time of the request.
Span == IF list = "overview" THEN OverviewSpan ELSE EventSpan

Wants(kind, field, v) ==
    CASE kind = "like"    -> HasPart(v, field)
      [] kind = "trimmed" -> HasPart(v, TrimSpace(field))
      [] kind = "equal"   -> field \in {<<>>, v}
      [] kind = "prefix"  -> IsPrefix(field, v)
      [] kind = "key"     -> field \in {Nil, 0, v}
      [] kind = "positive" -> field \in {Nil, v} \/ field <= 0
      [] kind = "number"  -> field \in {Nil, v}
      [] kind = "state"   -> field \in {Nil, -1, v}
      [] kind = "flag"    -> field = Nil \/ field <= 0 \/ v = 1
      [] kind = "oneOf"   -> field = {} \/ v \in field
      [] kind = "all"     -> field \subseteq v
      [] kind = "days"    -> \/ Nil \in {field[1], field[2]}
                             \/ v # Nil /\ v \div 2 \in field[1]..field[2]
      [] kind = "span"    -> /\ v >= (IF field[1] = Nil THEN Now - Span ELSE field[1])
                             /\ v <= (IF field[2] = Nil THEN Now ELSE field[2])
      [] kind = "period"  -> /\ field[1] # Nil => v >= field[1]
                             /\ field[2] # Nil => v <= field[2]

Wanted(r, rows) ==
    {id \in DOMAIN rows : \A f \in DOMAIN Fields : Wants(Fields[f], r[f], rows[id][f])}

Order == CASE list \in {"modules", "moduleOptions", "items"} -> "sorted"
           [] list \in {"teachers", "options", "catalog", "sales"} -> "oldest"
           [] OTHER -> "newest"

\* The rows of a table that the pages of the list should show, in order.
InOrder(r, rows) ==
    Ordered(Order, rows, {id \in Wanted(r, rows) : rows[id].joined})

PageSize(r) ==
    LET default == CASE list = "sales" -> 5 [] list = "events" -> 20 [] OTHER -> 10
    IN  IF r.page_size < 1 THEN default
        ELSE IF r.page_size > 100 THEN 100 ELSE r.page_size
PageIndex(r) == IF r.page_index < 1 THEN 1 ELSE r.page_index
Skipped(r) == (PageIndex(r) - 1) * PageSize(r)

Due(r, rows) ==
    LET all == InOrder(r, rows)
    IN  SubSeq(all, Skipped(r) + 1, Min({Len(all), Skipped(r) + PageSize(r)}))

-------------------------------------------------------------------------------
(***************************************************************************)
(* The request and its statements.                                         *)
(***************************************************************************)
Plan(r, fuzzy) ==
    IF r = Malformed THEN Refused ELSE
    CASE list = "products"      -> ProductList(r)
      [] list = "catalog"       -> Products
      [] list = "orders"        -> OrdersList(r)
      [] list = "points"        -> PointsList(r)
      [] list = "notifications" -> NotificationsList(r)
      [] list = "teachers"      -> TeachersList(r, fuzzy)
      [] list = "options"       -> Options
      [] list = "boundUsers"    -> BoundUserIds
      [] list = "teacherDetail" -> TeacherDetail(r)
      [] list = "sales"         -> SalesList(r)
      [] list = "resigns"       -> ResignsList(r)
      [] list = "diagnoses"     -> DiagnosesList(r)
      [] list = "adminUsers"    -> AdminUsersList(r)
      [] list = "events"        -> EventList(r)
      [] list = "eventDetail"   -> EventDetail(r)
      [] list = "overview"      -> Overview(r)
      [] list = "alerts"        -> AlertList(r)
      [] list = "modules"       -> ModuleList(r)
      [] list = "moduleOptions" -> ModuleOptions
      [] list = "items"         -> ItemList(r)

ErrorFree == {<<"boot">>, <<"device">>, <<"device_info">>}

\* The rows a statement returns, each reduced to what the answer takes from it.
Result(stmt, rows) ==
    LET hits == Found(stmt, rows) IN
    CASE stmt.shape = "count"    -> <<Cardinality(hits)>>
      [] stmt.shape = "page"     -> PageOf(stmt, rows)
      [] stmt.shape = "distinct" ->
            Ordered(stmt.order, rows, {rows[id].user_id : id \in hits})
      [] stmt.shape = "sum"      ->
            <<[total  |-> Cardinality(hits),
               errors |-> Cardinality({id \in hits :
                                         rows[id].event_type \notin ErrorFree})]>>
      [] stmt.shape = "by type"  ->
            LET types == SetToSeq({rows[id].event_type : id \in hits})
            IN  [i \in DOMAIN types |->
                   [type |-> types[i],
                    n |-> Cardinality({id \in hits : rows[id].event_type = types[i]})]]
      [] OTHER                   -> Ordered(stmt.order, rows, hits)

Paging == plan # <<>> /\ plan[1].shape = "count"
Current == plan[Len(results) + 1]

NewScan(r) == [stayed |-> IF r = Malformed THEN {} ELSE ToSet(InOrder(r, table)),
               slid |-> {}, pushed |-> {}, late |-> {}, shown |-> <<>>,
               whole |-> r # Malformed /\ r.page_index <= 1]

\* The orders in which a map range may come to the fuzzy columns in use.
MapOrders(r) ==
    IF list # "teachers" \/ r = Malformed THEN {<<>>}
    ELSE SetToSeqs({col \in teacherFuzzy : r[col] # <<>>})

Send(r) ==
    \E fuzzy \in MapOrders(r) :
        LET p == Plan(r, fuzzy) IN
        /\ req' = r
        /\ plan' = IF p = Refused THEN <<>> ELSE p
        /\ status' = IF p = Refused THEN 400 ELSE 0
        /\ results' = <<>> /\ seen' = <<>> /\ found' = <<>>

Idle == plan = <<>> /\ status = 0

Ask ==
    /\ Idle
    /\ \E r \in Requests(scope) : Send(r) /\ scan' = NewScan(r)
    /\ UNCHANGED <<scope, table, change, writes, faults, sqlVars>>

\* The console goes on while the count says that there is more.
TurnPage ==
    /\ status = 200 /\ Paging
    /\ PageIndex(req) * PageSize(req) < results[1][1]
    /\ Send([req EXCEPT !.page_index = PageIndex(req) + 1])
    /\ UNCHANGED <<scope, table, scan, change, writes, faults, sqlVars>>

Leave ==
    /\ status # 0
    /\ req' = Nil /\ status' = 0
    /\ plan' = <<>> /\ results' = <<>> /\ seen' = <<>> /\ found' = <<>>
    /\ scan' = NewScan(Malformed)
    /\ StartOver(Reader)
    /\ UNCHANGED <<scope, table, change, writes, faults>>

-------------------------------------------------------------------------------
(***************************************************************************)
(* Running the statements.                                                 *)
(***************************************************************************)
Running == status = 0 /\ plan # <<>>

Issue ==
    /\ Running
    /\ Start(Reader, "query", Current.args # <<>>)
    /\ UNCHANGED listVars

ReaderMoves == Running /\ Quiet(Reader) /\ UNCHANGED listVars

\* The connection, the server or the request's context gives out.
ReaderFaults ==
    /\ faults > 0 /\ faults' = faults - 1
    /\ Faulty(Reader)
    /\ UNCHANGED <<scope, table, readVars, scan, change, writes>>

\* A negative LIMIT or OFFSET is an error of the server.
Rejected ==
    /\ Running /\ call[Reader].at # "idle" /\ ~Valid(Current)
    /\ RunFails(Reader)
    /\ UNCHANGED listVars

\* The statement takes its rows from the table as it is now.
QueryRuns ==
    /\ Running /\ call[Reader].at # "idle" /\ Valid(Current)
    /\ Runs(Reader)
    /\ found' = Result(Current, table)
    /\ seen' = Append(seen, table)
    /\ scan' = CASE Current.shape = "count" -> [scan EXCEPT !.late = {}]
                 [] Current.shape = "page"  -> [scan EXCEPT !.shown = @ \o found']
                 [] OTHER                   -> scan
    /\ UNCHANGED <<scope, table, req, plan, results, status, change, writes, faults>>

ReadRow ==
    /\ call[Reader].got < Len(found)
    /\ NextRow(Reader)
    /\ UNCHANGED listVars

ReadEnd ==
    /\ call[Reader].got = Len(found)
    /\ CloseRows(Reader, FALSE)
    /\ UNCHANGED listVars

\* Rows that break off end the loop over them like their end does.
ReadBreaks ==
    /\ faults > 0 /\ faults' = faults - 1
    /\ CloseRows(Reader, TRUE)
    /\ UNCHANGED <<scope, table, readVars, scan, change, writes>>

\* rows.Err: the error of a loop that broke off; 500 for any error.
RowsErr == call[Reader].at # "ok"
Answered(rows) ==
    IF Len(results) + 1 < Len(plan) THEN 0
    ELSE IF Current.shape = "one" /\ rows = <<>> THEN 404 ELSE 200

Return ==
    LET rows == SubSeq(found, 1, call[Reader].got) IN
    /\ Finish(Reader)
    /\ results' = IF RowsErr THEN results ELSE Append(results, rows)
    /\ status' = IF RowsErr THEN 500 ELSE Answered(rows)
    /\ found' = <<>>
    /\ UNCHANGED <<scope, table, req, plan, seen, scan, change, writes, faults>>

-------------------------------------------------------------------------------
(***************************************************************************)
(* The writer: one statement, by itself or in a transaction.               *)
(***************************************************************************)
NextID == Max(DOMAIN table \cup {0}) + 1
Put(id, row) ==
    [x \in DOMAIN table \cup {id} |->
        IF x = id THEN [c \in DOMAIN row |-> IF c = "id" THEN id ELSE row[c]]
        ELSE table[x]]
Changes ==
    {Put(id, row) : id \in DOMAIN table \cup {NextID}, row \in scope.rows}
    \cup {[x \in DOMAIN table \ {id} |-> table[x]] : id \in DOMAIN table}

WriterIdle == call[Writer].at = "idle"

WriteBegins ==
    /\ writes > 0 /\ writes' = writes - 1
    /\ WriterIdle /\ tx[Writer] = "none"
    /\ \E new \in Changes \ {table} : change' = [to |-> new, ran |-> FALSE]
    /\ \/ Start(Writer, "exec", TRUE)
       \/ Start(Writer, "BEGIN", FALSE)
    /\ UNCHANGED <<scope, table, readVars, scan, faults>>

WriteInTx ==
    /\ tx[Writer] = "open" /\ change # Nil /\ ~change.ran
    /\ Start(Writer, "exec", TRUE)
    /\ UNCHANGED listVars

WriterMoves == Quiet(Writer) /\ UNCHANGED listVars

WriterFaults ==
    /\ faults > 0 /\ faults' = faults - 1
    /\ Faulty(Writer)
    /\ UNCHANGED <<scope, table, readVars, scan, change, writes>>

\* The rows above row x in the order of the pages.
Above(rows, x) ==
    LET all == InOrder(req, rows)
    IN  {all[i] : i \in {k \in DOMAIN all : \E j \in DOMAIN all : all[j] = x /\ k < j}}

\* What a change of the table does to the rows of the scan that is under way.
Watch(new) ==
    LET stayed == scan.stayed \cap ToSet(InOrder(req, new))
        came == {x \in stayed : ~(Above(new, x) \subseteq Above(table, x))}
        went == {x \in stayed : ~(Above(table, x) \subseteq Above(new, x))}
    IN  [scan EXCEPT !.stayed = stayed, !.slid = @ \cup went,
                     !.pushed = @ \cup came, !.late = @ \cup came]

Commits ==
    /\ table' = change.to /\ change' = Nil
    /\ scan' = IF Paging THEN Watch(change.to) ELSE scan
    /\ UNCHANGED <<scope, readVars, writes, faults>>

WriteRuns ==
    /\ Runs(Writer)
    /\ IF call[Writer].op = "exec"
       THEN IF tx[Writer] = "none" THEN Commits
            ELSE /\ change' = [change EXCEPT !.ran = TRUE]
                 /\ UNCHANGED <<scope, table, readVars, scan, writes, faults>>
       ELSE UNCHANGED listVars

\* A statement that failed leaves nothing, in a transaction only the rollback.
WriteReturns ==
    /\ Finish(Writer)
    /\ change' = IF call[Writer].at = "ok" THEN change ELSE Nil
    /\ UNCHANGED <<scope, table, readVars, scan, writes, faults>>

WriteCommits ==
    /\ change # Nil /\ change.ran
    /\ EndTx(Writer, "COMMIT")
    /\ Commits

WriteRollsBack ==
    /\ change = Nil
    /\ EndTx(Writer, "ROLLBACK")
    /\ UNCHANGED listVars

-------------------------------------------------------------------------------
Init ==
    /\ SqlInit
    /\ scope \in Scopes
    /\ inner \in scope.inners /\ debug \in scope.debugs
    /\ table \in scope.tables
    /\ req = Nil /\ plan = <<>> /\ found = <<>> /\ results = <<>> /\ seen = <<>>
    /\ status = 0 /\ scan = NewScan(Malformed)
    /\ change = Nil
    /\ writes = scope.writes /\ faults = scope.faults

Next ==
    \/ Ask \/ TurnPage \/ Leave
    \/ Issue \/ ReaderMoves \/ ReaderFaults \/ Rejected \/ QueryRuns
    \/ ReadRow \/ ReadEnd \/ ReadBreaks \/ Return
    \/ WriteBegins \/ WriteInTx \/ WriterMoves \/ WriterFaults
    \/ WriteRuns \/ WriteReturns \/ WriteCommits \/ WriteRollsBack

Spec == Init /\ [][Next]_vars

-------------------------------------------------------------------------------
(***************************************************************************)
(* An answer with status 200 is what its request asked for, statement by   *)
(* statement: the total is the number of rows that match, field by field,  *)
(* and the page is the due part of them in the list's order, each on the   *)
(* table its statement ran on.  So every argument reaches the placeholder  *)
(* of its own condition, whichever conditions are there and in whichever   *)
(* order a Go map yields them, and rows that broke off are never passed    *)
(* for a whole page.  Only an offset that overflows an int is left out.    *)
(***************************************************************************)
Users(rows) == {rows[id].user_id : id \in DOMAIN rows}

PageIsDue ==
    status = 200 =>
        CASE Paging ->
               /\ results[1] = <<Cardinality(Wanted(req, seen[1]))>>
               /\ Skipped(req) <= MaxInt => results[2] = Due(req, seen[2])
          [] list = "boundUsers" ->
               ToSet(results[1]) = Users(seen[1]) /\ IsInjective(results[1])
          [] list = "overview" ->
               results[1][1].total = Cardinality(Wanted(req, seen[1]))
          [] OTHER -> results[1] = InOrder(req, seen[1])

(***************************************************************************)
(* A console that turns the pages from the first to the last, while rows   *)
(* are added, changed and deleted, misses no row it could see throughout,  *)
(* except one that moved up meanwhile or was pushed down after the last    *)
(* total, and it shows no row twice except one that was pushed down.       *)
(***************************************************************************)
ScanEnds ==
    status = 200 /\ Paging /\ PageIndex(req) * PageSize(req) >= results[1][1]
Times(x) == Cardinality({i \in DOMAIN scan.shown : scan.shown[i] = x})

ScanMissesOnlyMoved ==
    ScanEnds /\ scan.whole =>
        \A x \in scan.stayed :
            /\ Times(x) = 0 => x \in scan.slid \cup scan.late
            /\ Times(x) > 1 => x \in scan.pushed

(***************************************************************************)
(* When nobody wrote between its statements an answer adds up: a page has  *)
(* as many rows as its total says are left, and the overview's total is    *)
(* the sum over its types, of which the errors are all but the types that  *)
(* are no error, and every ranking is about the same events.               *)
(***************************************************************************)
Undisturbed == \A i \in DOMAIN seen : seen[i] = seen[1]
Sum(counts, which) == MapThenSumSet(LAMBDA i : counts[i], which)

AnswerAddsUp ==
    status = 200 /\ Undisturbed =>
        /\ list = "overview" =>
             LET sum    == results[1][1]
                 groups == results[2]
                 counts == [i \in DOMAIN groups |-> groups[i].n]
                 errs   == {i \in DOMAIN groups : groups[i].type \notin ErrorFree}
             IN  /\ sum.total = Sum(counts, DOMAIN groups)
                 /\ sum.errors = Sum(counts, errs)
                 /\ \A i \in 3..7 : Len(results[i]) <= sum.total
                 /\ Len(results[5]) = sum.total
        /\ Paging /\ (\A id \in DOMAIN seen[1] : seen[1][id].joined)
             /\ Skipped(req) <= MaxInt =>
             Len(results[2]) = Max({0, Min({PageSize(req), results[1][1] - Skipped(req)})})
===============================================================================
