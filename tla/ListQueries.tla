----------------------------- MODULE ListQueries ------------------------------
(***************************************************************************)
(* The queries behind the management console's lists.  A request goes      *)
(* through its handler, the service and the repository, one operator each, *)
(* and comes out as the statements it sends, or is Refused with 400.  A    *)
(* statement is the text of its conditions and, apart from it, one list of *)
(* arguments that the placeholders take from left to right; what MySQL     *)
(* makes of the two is at the end.  Pure definitions.                      *)
(*                                                                         *)
(* A text is a sequence of letters, "" is <<>>.  A time counts half days,  *)
(* a date picked in the console counts days.  A row is a function of its   *)
(* columns.                                                                *)
(***************************************************************************)
EXTENDS Integers, FiniteSets, SequencesExt, FiniteSetsExt

CONSTANTS Nil,       \* null, or a field left out of the request
          Refused,   \* what a request that is answered 400 comes out as
          Now,       \* the time of the request
          EventSpan, OverviewSpan,   \* the longest range of time: 31 and 7 days
          MaxInt     \* the largest int of the build, no smaller than a page

ASSUME QueriesAssumption ==
    /\ {Now, EventSpan, OverviewSpan} \subseteq Nat
    /\ MaxInt \in Nat /\ MaxInt >= 100

-------------------------------------------------------------------------------
(***************************************************************************)
(* The request bodies: which fields there are and how each is to match.    *)
(* page_index and page_size are in every one of the lists with pages.      *)
(***************************************************************************)
ProductListReq == [product_name |-> "trimmed"]
OrderListReq == [order_no |-> "equal", product_name |-> "like",
                 status |-> "number"]
PointsListReq == [order_no |-> "equal"]
NotificationListReq == [title |-> "like"]
TeacherListReq == [dept_id |-> "key", id |-> "key", account |-> "like",
                   nickname |-> "like", name |-> "like", title |-> "like",
                   qualification |-> "equal", bind_sales_count |-> "number",
                   status |-> "state", update_by |-> "like",
                   updated_at |-> "days"]
ResignListReq == [original_teacher_dept_id |-> "key",
                  original_teacher_name |-> "like",
                  replace_teacher_name |-> "like", salesman_name |-> "like",
                  transfer_time |-> "days"]
DiagnoseListReq == [id |-> "number", user_nick_name |-> "like",
                    user_name |-> "like", stock_code |-> "like",
                    stock_name |-> "like", buy_price |-> "number",
                    buy_num |-> "number", teacher_name |-> "like",
                    status |-> "number", submit_time |-> "days",
                    report_submit_time |-> "days"]
AdminUserListReq == [username |-> "trimmed"]
MonEventListReq == [project |-> "equal", created_at |-> "span",
                    event_type |-> "oneOf", env |-> "equal", ver |-> "prefix",
                    chrome_ver |-> "positive", session_id |-> "equal",
                    device_model |-> "like", capbad |-> "all",
                    cap_syntax |-> "flag", route |-> "like", msg |-> "like",
                    src |-> "like"]
MonOverviewReq == [created_at |-> "span", env |-> "equal"]
MonAlertListReq == [status |-> "equal", project |-> "equal",
                    rule_code |-> "equal", level |-> "equal", env |-> "equal",
                    created_at |-> "period"]
AbModuleListReq == [module_key |-> "trimmed", module_name |-> "trimmed"]
AbModuleItemListReq == [module_id |-> "positive", item_key |-> "trimmed"]

-------------------------------------------------------------------------------
(***************************************************************************)
(* Pages.                                                                  *)
(***************************************************************************)
maxPageSize == 100
defaultListPageSize == 10
defaultSalesPageSize == 5
defaultEventPageSize == 20

\* The build's int wraps round.
Int64(n) == ((n + MaxInt + 1) % (2 * (MaxInt + 1))) - (MaxInt + 1)

normalizePage(req, defaultPageSize) ==
    [index |-> IF req.page_index < 1 THEN 1 ELSE req.page_index,
     size  |-> CASE req.page_size < 1           -> defaultPageSize
                 [] req.page_size > maxPageSize -> maxPageSize
                 [] OTHER                       -> req.page_size]

\* mutant: the offset of the page after
LimitsOfNext(req, defaultPageSize) ==
    LET page == normalizePage(req, defaultPageSize)
    IN  [limit |-> page.size, offset |-> Int64(page.index * page.size)]
Limits(req, defaultPageSize) ==
    LET page == normalizePage(req, defaultPageSize)
    IN  [limit |-> page.size, offset |-> Int64((page.index - 1) * page.size)]

-------------------------------------------------------------------------------
(***************************************************************************)
(* Conditions with the arguments of their placeholders.                    *)
(***************************************************************************)
Cond(col, op, args) == <<[col |-> col, op |-> op, args |-> args]>>

NonEmpty(f, col, op) ==
    IF f[col] = <<>> THEN <<>> ELSE Cond(col, op, <<f[col]>>)
AllNonEmpty(f, cols, op) ==
    FlattenSeq([i \in DOMAIN cols |-> NonEmpty(f, cols[i], op)])
NonZero(f, col) == IF f[col] = 0 THEN <<>> ELSE Cond(col, "number", <<f[col]>>)
Positive(f, col) ==
    IF f[col] <= 0 THEN <<>> ELSE Cond(col, "number", <<f[col]>>)
NonNil(f, col) == IF f[col] = Nil THEN <<>> ELSE Cond(col, "number", <<f[col]>>)
\* col >= ? AND col < DATE_ADD(?, INTERVAL 1 DAY), when both ends are given
BothEnds(f, col) ==
    IF Nil \in {f[col][1], f[col][2]} THEN <<>> ELSE Cond(col, "days", f[col])

orderWhere(f) ==
    NonEmpty(f, "order_no", "=") \o NonEmpty(f, "product_name", "like")
    \o NonZero(f, "status")

\* The fuzzy columns are the keys of a Go map: each call runs through them in
\* an order of its own.
teacherWhere(f, fuzzy) ==
    NonZero(f, "dept_id") \o NonZero(f, "id") \o AllNonEmpty(f, fuzzy, "like")
    \o NonEmpty(f, "qualification", "=") \o NonNil(f, "bind_sales_count")
    \o NonNil(f, "status") \o BothEnds(f, "updated_at")
teacherFuzzy == {"account", "nickname", "name", "title", "update_by"}

resignWhere(f) ==
    NonZero(f, "original_teacher_dept_id")
    \o AllNonEmpty(f, <<"original_teacher_name", "replace_teacher_name",
                        "salesman_name">>, "like")
    \o BothEnds(f, "transfer_time")

diagnoseWhere(f) ==
    NonNil(f, "id")
    \o AllNonEmpty(f, <<"user_nick_name", "user_name", "stock_code",
                        "stock_name", "teacher_name">>, "like")
    \o NonNil(f, "buy_price") \o NonNil(f, "buy_num") \o NonNil(f, "status")
    \o BothEnds(f, "submit_time") \o BothEnds(f, "report_submit_time")

adminUserWhere(f) == NonEmpty(f, "username", "like")

\* col IN (?, ?, ...), with as many placeholders as values
placeholders(col, values) ==
    IF values = {} THEN <<>> ELSE Cond(col, "in", SetToSeq(values))
Each(col, values) ==
    LET s == SetToSeq(values)
    IN  [i \in DOMAIN s |-> [col |-> col, op |-> "find_in_set", args |-> <<s[i]>>]]

monEventWhere(f) ==
    Cond("created_at", ">=", <<f.created_at[1]>>)
    \o Cond("created_at", "<=", <<f.created_at[2]>>)
    \o NonEmpty(f, "project", "=") \o placeholders("event_type", f.event_type)
    \o NonEmpty(f, "env", "=") \o NonEmpty(f, "ver", "prefix")
    \o Positive(f, "chrome_ver") \o NonEmpty(f, "session_id", "=")
    \o NonEmpty(f, "device_model", "like") \o Each("capbad", f.capbad)
    \o (IF f.cap_syntax > 0 THEN Cond("cap_syntax", "is 1", <<>>) ELSE <<>>)
    \o AllNonEmpty(f, <<"route", "msg", "src">>, "like")

monRangeWhere(f, types) ==
    Cond("created_at", ">=", <<f.created_at[1]>>)
    \o Cond("created_at", "<=", <<f.created_at[2]>>)
    \o NonEmpty(f, "env", "=") \o placeholders("event_type", types)

monAlertWhere(f) ==
    AllNonEmpty(f, <<"status", "rule_code", "level", "env", "project">>, "=")
    \o (IF f.created_at[1] = Nil THEN <<>>
        ELSE Cond("created_at", ">=", <<f.created_at[1]>>))
    \o (IF f.created_at[2] = Nil THEN <<>>
        ELSE Cond("created_at", "<=", <<f.created_at[2]>>))

abModuleWhere(f) == AllNonEmpty(f, <<"module_key", "module_name">>, "like")
abItemWhere(f) == Positive(f, "module_id") \o NonEmpty(f, "item_key", "like")

-------------------------------------------------------------------------------
(***************************************************************************)
(* Repositories: the statements of each list.                              *)
(***************************************************************************)
ArgsOf(conds) == FlattenSeq([i \in DOMAIN conds |-> conds[i].args])

\* shape: what the statement selects; order: the columns it sorts by; joined:
\* whether rows without their counterpart in the joined table fall out
Statement(shape, conds, order, joined, more) ==
    [shape |-> shape, order |-> order, joined |-> joined,
     conds |-> [i \in DOMAIN conds |-> [col |-> conds[i].col, op |-> conds[i].op,
                                        marks |-> Len(conds[i].args)]],
     args  |-> ArgsOf(conds) \o more]

\* mutant: the last two arguments change places
CountAndPageSwapped(conds, order, joined, f) ==
    << Statement("count", conds, "none", FALSE, <<>>),
       Statement("page", conds, order, joined, <<f.offset, f.limit>>) >>
CountAndPage(conds, order, joined, f) ==
    << Statement("count", conds, "none", FALSE, <<>>),
       Statement("page", conds, order, joined, <<f.limit, f.offset>>) >>
All(order) == << Statement("all", <<>>, order, FALSE, <<>>) >>
ByID(f) == << Statement("one", Cond("id", "number", <<f.id>>), "none", FALSE, <<>>) >>

QueryPageListProducts(f) ==
    CountAndPage(NonEmpty(f, "product_name", "like"), "newest", FALSE, f)
QueryListProducts == All("oldest")
QueryListOrders(f) == CountAndPage(orderWhere(f), "newest", FALSE, f)
QueryListPoints(f) ==
    CountAndPage(NonEmpty(f, "order_no", "="), "newest", FALSE, f)
QueryListNotifications(f) ==
    CountAndPage(NonEmpty(f, "title", "like"), "newest", FALSE, f)
QueryListTeachers(f, fuzzy) ==
    CountAndPage(teacherWhere(f, fuzzy), "oldest", FALSE, f)
QueryListTeacherOptions == All("oldest")
QueryTeacherDetailByID(f) == ByID(f)
\* JOIN sales_user, in the page's statement only
QueryListTeacherSalesByTeacher(f) ==
    CountAndPage(Cond("teacher_id", "number", <<f.teacher_id>>), "oldest", TRUE, f)
QueryListAllTeacherSales ==
    << Statement("distinct", <<>>, "oldest", FALSE, <<>>) >>
QueryListResigns(f) == CountAndPage(resignWhere(f), "newest", FALSE, f)
QueryListDiagnoses(f) == CountAndPage(diagnoseWhere(f), "newest", FALSE, f)
QueryListAdminUsers(f) == CountAndPage(adminUserWhere(f), "newest", FALSE, f)
QueryListMonEvents(f) == CountAndPage(monEventWhere(f), "newest", FALSE, f)
QueryMonEventByID(f) == ByID(f)
QueryListMonAlerts(f) == CountAndPage(monAlertWhere(f), "newest", FALSE, f)
QueryListAbModules(f) == CountAndPage(abModuleWhere(f), "sorted", FALSE, f)
QueryAbModuleOptions == All("sorted")
\* JOIN ab_module, in the page's statement only
QueryListAbModuleItems(f) == CountAndPage(abItemWhere(f), "sorted", TRUE, f)

\* The aggregates of the overview; LIMIT 10 is more than there are groups.
Aggregate(shape, conds) == << Statement(shape, conds, "none", FALSE, <<>>) >>
SumMonEvents(f) == Aggregate("sum", monRangeWhere(f, {}))
\* mutant: the environment is forgotten
GroupEveryEnv(f) == Aggregate("by type", monRangeWhere([f EXCEPT !.env = <<>>], {}))
GroupMonEventsByType(f) == Aggregate("by type", monRangeWhere(f, {}))
GroupMonEventsTop(f, types, col) ==
    Aggregate("top", monRangeWhere(f, types) \o Cond(col, "not blank", <<>>))
GroupMonEventsByCvAsc(f) == Aggregate("top", monRangeWhere(f, {}))

-------------------------------------------------------------------------------
(***************************************************************************)
(* Services: defaults, trimming, ranges, pages.                            *)
(***************************************************************************)
ZeroIfNil(v) == IF v = Nil THEN 0 ELSE v

TrimSpace(text) ==
    LET solid == {i \in DOMAIN text : text[i] # " "}
    IN  IF solid = {} THEN <<>> ELSE SubSeq(text, Min(solid), Max(solid))
Trimmed(req, cols) ==
    [c \in DOMAIN req |-> IF c \in cols THEN TrimSpace(req[c]) ELSE req[c]]

Paged(f, defaultPageSize) ==
    LET limits == Limits(f, defaultPageSize)
    IN  [c \in DOMAIN f \cup DOMAIN limits |->
            IF c \in DOMAIN limits THEN limits[c] ELSE f[c]]

ListManagedProducts(req) ==
    QueryPageListProducts(Paged(Trimmed(req, {"product_name"}), defaultListPageSize))
ListOrders(f) == QueryListOrders(Paged(f, defaultListPageSize))
ListPoints(f) == QueryListPoints(Paged(f, defaultListPageSize))
ListNotifications(f) == QueryListNotifications(Paged(f, defaultListPageSize))
ListTeachers(f, fuzzy) == QueryListTeachers(Paged(f, defaultListPageSize), fuzzy)
ListTeacherSales(f) ==
    QueryListTeacherSalesByTeacher(Paged(f, defaultSalesPageSize))
ListResigns(f) == QueryListResigns(Paged(f, defaultListPageSize))
ListDiagnoses(f) ==
    IF f.status # Nil /\ f.status \notin 1..6 THEN Refused
    ELSE QueryListDiagnoses(Paged(f, defaultListPageSize))
ListAdminUsers(req) ==
    QueryListAdminUsers(Paged(Trimmed(req, {"username"}), defaultListPageSize))
ListAbModules(req) ==
    QueryListAbModules(Paged(Trimmed(req, {"module_key", "module_name"}),
                             defaultListPageSize))
ListAbModuleItems(req) ==
    QueryListAbModuleItems(Paged(Trimmed(req, {"item_key"}), defaultListPageSize))
ListMonAlerts(req) == QueryListMonAlerts(Paged(req, defaultListPageSize))

\* A missing end is filled in from the clock; a range that is too long or
\* turned round is refused.
normalizeMonRange(range, maxSpan) ==
    LET end   == IF range[2] = Nil THEN Now ELSE range[2]
        begin == IF range[1] = Nil THEN Now - maxSpan ELSE range[1]
    IN  IF end < begin \/ end - begin > maxSpan THEN Refused ELSE <<begin, end>>

ListMonEvents(req) ==
    LET range == normalizeMonRange(req.created_at, EventSpan)
    IN  IF range = Refused THEN Refused
        ELSE QueryListMonEvents(Paged([req EXCEPT !.created_at = range],
                                      defaultEventPageSize))

MonOverview(req) ==
    LET range == normalizeMonRange(req.created_at, OverviewSpan)
        f     == [req EXCEPT !.created_at = range]
    IN  IF range = Refused THEN Refused
        ELSE SumMonEvents(f) \o GroupMonEventsByType(f)
             \o GroupMonEventsTop(f, {}, "ver")
             \o GroupMonEventsTop(f, {}, "device_model")
             \o GroupMonEventsByCvAsc(f)
             \o GroupMonEventsTop(f, {}, "route")
             \o GroupMonEventsTop(f, {<<"resource_error">>}, "src")

-------------------------------------------------------------------------------
(***************************************************************************)
(* Handlers: what is refused and how a field that was left out is passed   *)
(* on.  ShouldBindJSON leaves a plain field that was left out at its zero. *)
(***************************************************************************)
ProductList(req) == ListManagedProducts(req)
Products == QueryListProducts
OrdersList(req) ==
    IF req.status # Nil /\ req.status \notin 1..3 THEN Refused
    ELSE ListOrders([req EXCEPT !.status = ZeroIfNil(@)])
PointsList(req) == ListPoints(req)
NotificationsList(req) == ListNotifications(req)
\* The console's drop-down sends -1 for "all".
TeachersList(req, fuzzy) ==
    ListTeachers([req EXCEPT !.dept_id = ZeroIfNil(@), !.id = ZeroIfNil(@),
                             !.status = IF @ = -1 THEN Nil ELSE @], fuzzy)
Options == QueryListTeacherOptions
BoundUserIds == QueryListAllTeacherSales
TeacherDetail(req) ==
    IF ZeroIfNil(req.id) <= 0 THEN Refused ELSE QueryTeacherDetailByID(req)
SalesList(req) ==
    IF ZeroIfNil(req.teacher_id) <= 0 THEN Refused ELSE ListTeacherSales(req)
ResignsList(req) ==
    ListResigns([req EXCEPT !.original_teacher_dept_id = ZeroIfNil(@)])
DiagnosesList(req) == ListDiagnoses(req)
AdminUsersList(req) == ListAdminUsers(req)
ModuleList(req) == ListAbModules(req)
ModuleOptions == QueryAbModuleOptions
ItemList(req) == ListAbModuleItems([req EXCEPT !.module_id = ZeroIfNil(@)])
EventList(req) ==
    ListMonEvents([req EXCEPT !.chrome_ver = ZeroIfNil(@),
                              !.cap_syntax = ZeroIfNil(@)])
EventDetail(req) ==
    IF ZeroIfNil(req.id) <= 0 THEN Refused ELSE QueryMonEventByID(req)
Overview(req) == MonOverview(req)
AlertList(req) == ListMonAlerts(req)

-------------------------------------------------------------------------------
(***************************************************************************)
(* What MySQL makes of a statement.                                        *)
(***************************************************************************)
HasPart(text, part) ==
    \E i \in 0..(Len(text) - Len(part)) :
        SubSeq(text, i + 1, i + Len(part)) = part

\* One condition over the arguments bound to its placeholders.  A column that
\* is NULL matches nothing.
Holds(v, op, args) ==
    /\ v # Nil
    /\ CASE op = "like"        -> HasPart(v, args[1])
         [] op = "prefix"      -> IsPrefix(args[1], v)
         [] op = "="           -> v = args[1]
         [] op = "number"      -> v = args[1]
         [] op = "in"          -> \E k \in DOMAIN args : v = args[k]
         [] op = "find_in_set" -> args[1] \in v
         [] op = "not blank"   -> v # <<>>
         [] op = "is 1"        -> v = 1
         [] op = ">="          -> v >= args[1]
         [] op = "<="          -> v <= args[1]
         [] op = "days"        -> v >= 2 * args[1] /\ v < 2 * (args[2] + 1)

\* How many placeholders the first n conditions have.
Marks(stmt, n) == MapThenSumSet(LAMBDA i : stmt.conds[i].marks, 1..n)

Selects(stmt, row) ==
    \A i \in DOMAIN stmt.conds :
        Holds(row[stmt.conds[i].col], stmt.conds[i].op,
              SubSeq(stmt.args, Marks(stmt, i - 1) + 1, Marks(stmt, i)))

\* The ids of a table in the order of the statement.
Before(order, table, x, y) ==
    CASE order = "newest" -> x > y
      [] order = "sorted" -> \/ table[x].sort_no < table[y].sort_no
                             \/ table[x].sort_no = table[y].sort_no /\ x < y
      [] OTHER            -> x < y

Rank(order, table, ids, x) == Cardinality({y \in ids : Before(order, table, y, x)})
Ordered(order, table, ids) ==
    [i \in 1..Cardinality(ids) |->
        CHOOSE x \in ids : Rank(order, table, ids, x) = i - 1]

\* LIMIT takes the first argument after the conditions', OFFSET the second;
\* neither may be negative.
LimitOf(stmt) == stmt.args[Marks(stmt, Len(stmt.conds)) + 1]
OffsetOf(stmt) == stmt.args[Marks(stmt, Len(stmt.conds)) + 2]
Valid(stmt) == stmt.shape = "page" => LimitOf(stmt) >= 0 /\ OffsetOf(stmt) >= 0

Found(stmt, table) == {id \in DOMAIN table : Selects(stmt, table[id])}
Listed(stmt, table) ==
    {id \in Found(stmt, table) : stmt.joined => table[id].joined}
PageOf(stmt, table) ==
    LET all == Ordered(stmt.order, table, Listed(stmt, table))
    IN  SubSeq(all, OffsetOf(stmt) + 1,
               Min({Len(all), OffsetOf(stmt) + LimitOf(stmt)}))
===============================================================================
